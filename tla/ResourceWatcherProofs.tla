----------------------- MODULE ResourceWatcherProofs -----------------------
(***************************************************************************)
(* ResourceWatcher for any template texts, objects, Record names and       *)
(* disturbances: every variable keeps its type, and while reads wait for   *)
(* the caches, what is listed as watched is followed.                      *)
(***************************************************************************)
EXTENDS ResourceWatcher, TLAPS

NoWant == [n \in {} |-> None]

Wants == UNION {[N -> Content] : N \in SUBSET Names}

LEMMA YieldType ==
    ASSUME NEW text \in Texts, NEW in \in Input, in.main # None
    PROVE  /\ in.main \in SUBSET Names /\ Yield(text, in) \in Wants
           /\ DOMAIN Yield(text, in) = in.main
<1>1. in.main \in SUBSET Names /\ in.aux \in Data \cup {None}
  BY DEF Input
<1>2. Yield(text, in) \in [in.main -> Content]
  BY <1>1 DEF Yield, Content
<1> QED
  BY <1>1, <1>2 DEF Wants

LEMMA NoWantType == NoWant \in Wants /\ DOMAIN NoWant = {}
<1>1. NoWant \in [{} -> Content] /\ DOMAIN NoWant = {}
  BY DEF NoWant
<1> QED
  BY <1>1 DEF Wants

LEMMA ConstantTypes ==
    /\ NoTemplate \in Object /\ ~Exists(NoTemplate) /\ NoRecord \in Record
    /\ Fresh \in Status /\ Idle \in Worker /\ Idle.pc = "idle" /\ Idle.todo = {}
<1>1. NoTemplate \in Object /\ ~Exists(NoTemplate)
  BY WatcherAssumption DEF NoTemplate, Object, Exists
<1>2. NoRecord \in Record /\ Fresh \in Status
  BY DEF NoRecord, Record, Fresh, Status
<1>3. Idle = [pc |-> "idle", fresh |-> FALSE, list |-> {}, stale |-> {}, want |-> NoWant,
              todo |-> {}, res |-> {}, why |-> "", again |-> FALSE]
  BY DEF Idle, NoWant
<1>4. Idle \in Worker /\ Idle.pc = "idle" /\ Idle.todo = {}
  BY <1>3, NoWantType DEF Worker, Wants
<1> QED
  BY <1>1, <1>2, <1>4

LEMMA ReadType ==
    ASSUME TypeOK
    PROVE  /\ Read \in Worker /\ Read.todo = {} /\ Read.why = "" /\ Read.again = FALSE
           /\ Read.list = {n \in Names : recSeen[n].phase # "absent"}
           /\ Read.fresh = ~watBehind /\ Read.stale = recBehind
<1> DEFINE list == {n \in Names : recSeen[n].phase # "absent"}
           fresh == ~watBehind
<1>1. list \in SUBSET Names /\ fresh \in BOOLEAN /\ recBehind \in SUBSET Names
  BY DEF TypeOK
<1>2. Read = [Idle EXCEPT !.fresh = fresh, !.stale = recBehind, !.list = list]
  BY DEF Read
<1>3. Idle.why = "" /\ Idle.again = FALSE
  BY DEF Idle
<1> HIDE DEF list, fresh
<1>4. /\ Read \in Worker /\ Read.todo = Idle.todo /\ Read.why = Idle.why
      /\ Read.again = Idle.again /\ Read.list = list /\ Read.fresh = fresh
      /\ Read.stale = recBehind
  BY <1>1, <1>2, ConstantTypes DEF Worker
<1> QED
  BY <1>3, <1>4, ConstantTypes DEF list, fresh

LEMMA FailsType ==
    ASSUME TypeOK, NEW res \in SUBSET Keys, NEW again \in BOOLEAN
    PROVE  /\ Fails(res, again) \in Worker /\ Fails(res, again).pc = "status"
           /\ Fails(res, again).todo = {} /\ Fails(res, again).again = again
BY ReadType DEF Fails, Worker

\* How a reconciliation goes on: it fails at once, or it writes what the text yields.
LEMMA OutcomeCases ==
    ASSUME TypeOK
    PROVE  LET text == Parsed(seen.tpl).text
           IN /\ Outcome \in Worker /\ Outcome.todo \subseteq DOMAIN Outcome.want
              /\ \/ /\ Outcome.pc = "status"
                    /\ \/ Outcome.again = TRUE
                       \/ ~Exists(seen.tpl) \/ text \in Broken
                 \/ /\ Outcome.pc = "write" /\ seen.input.main # None
                    /\ Exists(seen.tpl) /\ text \notin Broken
                    /\ Outcome.list = {n \in Names : recSeen[n].phase # "absent"}
                    /\ Outcome.want = Yield(text, seen.input)
                    /\ Outcome.todo = seen.input.main
<1> DEFINE parsed == Parsed(seen.tpl)
           source == IF inline THEN {} ELSE {"template"}
<1>1. parsed.text \in Texts /\ seen.input \in Input
  BY DEF TypeOK, Parsed, Object
<1>2. source \in SUBSET Keys /\ Noted(parsed.text) \in SUBSET Keys
  BY DEF Keys, Noted, Uses
<1>3. CASE seen.input.main = None
  <2>1. Outcome = Fails({}, TRUE)
    BY <1>3 DEF Outcome
  <2> QED
    BY <2>1, FailsType
<1>4. CASE seen.input.main # None /\ (~Exists(seen.tpl) \/ parsed.text \in Broken)
  <2>1. Outcome = Fails({}, FALSE)
    BY <1>4 DEF Outcome
  <2> QED
    BY <1>4, <2>1, FailsType
<1>5. CASE /\ seen.input.main # None /\ Exists(seen.tpl) /\ parsed.text \notin Broken
           /\ \E i \in Uses(parsed.text) : seen.input[i] = None
  <2> DEFINE res == source \cup (Noted(parsed.text) \ {"aux"})
  <2>1. Outcome = Fails(res, TRUE)
    BY <1>5 DEF Outcome
  <2>2. res \in SUBSET Keys
    BY <1>2
  <2> HIDE DEF res
  <2> QED
    BY <2>1, <2>2, FailsType
<1>6. CASE /\ seen.input.main # None /\ Exists(seen.tpl) /\ parsed.text \notin Broken
           /\ ~ \E i \in Uses(parsed.text) : seen.input[i] = None
  <2> DEFINE res == source \cup Noted(parsed.text)
             want == Yield(parsed.text, seen.input)
             main == seen.input.main
  <2>1. Outcome = [Read EXCEPT !.pc = "write", !.res = res, !.want = want, !.todo = main]
    BY <1>6 DEF Outcome
  <2>2. want \in Wants /\ DOMAIN want = main /\ main \in SUBSET Names /\ res \in SUBSET Keys
    BY <1>1, <1>2, <1>6, YieldType
  <2> HIDE DEF res, want, main
  <2>3. /\ Outcome \in Worker /\ Outcome.pc = "write" /\ Outcome.want = want
        /\ Outcome.todo = main /\ Outcome.list = Read.list
    BY <2>1, <2>2, ReadType DEF Worker, Wants
  <2> QED
    BY <1>6, <2>2, <2>3, ReadType DEF main, want
<1> QED
  BY <1>3, <1>4, <1>5, <1>6

LEMMA SpendType ==
    ASSUME left \in Nat, NEW kind, Spend(kind)
    PROVE  left' \in Nat
BY DEF Spend

LEMMA StoreType ==
    ASSUME TypeOK, NEW n \in Names, NEW record \in Record, Store(n, record)
    PROVE  /\ recs' \in [Names -> Record] /\ recBehind' \subseteq Names
           /\ recs'[n] = record /\ \A m \in Names \ {n} : recs'[m] = recs[m]
BY DEF TypeOK, Store

\* What of the worker is not touched when a copy it listed becomes stale.
LEMMA OvertakeType ==
    ASSUME w \in Worker, NEW n \in Names, Overtake(n)
    PROVE  /\ w' \in Worker /\ w'.pc = w.pc /\ w'.list = w.list /\ w'.want = w.want
           /\ w'.todo = w.todo /\ w'.again = w.again
BY DEF Overtake, Worker

LEMMA DeletedType ==
    ASSUME TypeOK, NEW n \in Names, NEW record \in Deleted(n)
    PROVE  record \in Record /\ record.phase # "live"
<1>1. recs[n] \in Record
  BY DEF TypeOK
<1>2. CASE record = NoRecord
  BY <1>2, ConstantTypes DEF NoRecord
<1>3. CASE record = [recs[n] EXCEPT !.phase = "deleting"]
  BY <1>1, <1>3 DEF Record
<1> QED
  BY <1>2, <1>3 DEF Deleted

\* A step of somebody else on a Record: it stays what it was, or is not live.
LEMMA OthersOnRecords ==
    ASSUME TypeOK, NEW n \in Names, TouchRecord(n) \/ DeleteRecord(n) \/ FinishDelete(n)
    PROVE  /\ recs' \in [Names -> Record] /\ recBehind' = recBehind \cup {n}
           /\ recs'[n] = recs[n] \/ recs'[n].phase # "live"
           /\ \A m \in Names \ {n} : recs'[m] = recs[m]
           /\ Overtake(n) /\ left' \in Nat
           /\ UNCHANGED <<objects, watcher, recSeen, cache, queue, choices>>
<1>0. recs[n] \in Record /\ left \in Nat
  BY DEF TypeOK
<1>1. PICK record \in Record : Store(n, record)
                               /\ (record = recs[n] \/ record.phase # "live")
  <2>1. CASE TouchRecord(n)
    BY <1>0, <2>1 DEF TouchRecord
  <2>2. CASE DeleteRecord(n)
    BY <2>2, DeletedType DEF DeleteRecord
  <2>3. CASE FinishDelete(n)
    BY <2>3, ConstantTypes DEF FinishDelete, NoRecord
  <2> QED
    BY <2>1, <2>2, <2>3
<1>2. left' \in Nat
  BY <1>0, SpendType DEF TouchRecord, DeleteRecord, FinishDelete
<1>3. Overtake(n) /\ UNCHANGED <<objects, watcher, recSeen, cache, queue, choices>>
  BY DEF TouchRecord, DeleteRecord, FinishDelete
<1>4. recBehind' = recBehind \cup {n}
  BY <1>1 DEF Store
<1> QED
  BY <1>1, <1>2, <1>3, <1>4, StoreType

LEMMA InputType ==
    ASSUME TypeOK, NEW i \in {"main", "aux"}, ChangeInput(i)
    PROVE  TypeOK'
<1>1. PICK d \in (IF i = "main" THEN SUBSET Names ELSE Data) \cup {None} :
        input' = [input EXCEPT ![i] = d]
  BY DEF ChangeInput
<1>2. input' \in Input
  BY <1>1 DEF TypeOK, Input
<1>3. left' \in Nat
  BY SpendType DEF ChangeInput, TypeOK
<1> QED
  BY <1>2, <1>3 DEF ChangeInput, TypeOK, watcher, records, queue, choices, Keys

LEMMA TemplateCases ==
    ASSUME TypeOK, ChangeTemplate
    PROVE  /\ tpl' \in Object
           /\ \/ Exists(tpl) /\ tpl'.gen = tpl.gen + 1 /\ tpl'.life = tpl.life
              \/ tpl'.gen = 0 /\ tpl'.life = tpl.life
              \/ ~Exists(tpl) /\ tpl'.life = tpl.life + 1
<1>1. tpl \in Object /\ tpl.gen \in Nat /\ tpl.life \in Nat
  BY DEF TypeOK, Object
<1>2. CASE \E t \in Texts \ {tpl.text} :
             Exists(tpl) /\ tpl' = [tpl EXCEPT !.text = t, !.gen = @ + 1]
  <2>1. PICK t \in Texts : Exists(tpl) /\ tpl' = [tpl EXCEPT !.text = t, !.gen = @ + 1]
    BY <1>2
  <2> DEFINE gen == tpl.gen + 1
  <2>2. tpl' = [tpl EXCEPT !.text = t, !.gen = gen] /\ gen \in Nat
    BY <1>1, <2>1
  <2> HIDE DEF gen
  <2>3. tpl' \in Object /\ tpl'.gen = gen /\ tpl'.life = tpl.life
    BY <1>1, <2>2 DEF Object
  <2> QED
    BY <2>1, <2>3 DEF gen
<1>3. CASE Exists(tpl) /\ tpl' = [tpl EXCEPT !.gen = 0]
  BY <1>1, <1>3 DEF Object
<1>4. CASE ~Exists(tpl) /\ \E t \in Texts :
             tpl' = [gen |-> 1, text |-> t, life |-> tpl.life + 1]
  BY <1>1, <1>4 DEF Object
<1> QED
  BY <1>2, <1>3, <1>4 DEF ChangeTemplate

LEMMA TemplateType ==
    ASSUME TypeOK, ChangeTemplate
    PROVE  TypeOK'
<1>1. tpl' \in Object
  BY TemplateCases
<1>2. left' \in Nat
  BY SpendType DEF ChangeTemplate, TypeOK
<1> QED
  BY <1>1, <1>2 DEF ChangeTemplate, TypeOK, watcher, records, queue, choices, Keys

LEMMA DeliverType ==
    ASSUME TypeOK, NEW k \in Keys, Deliver(k)
    PROVE  TypeOK'
<1>1. seen' \in [input : Input, tpl : Object]
  <2>1. CASE k = "template"
    BY <2>1 DEF Deliver, TypeOK
  <2>2. CASE k \in {"main", "aux"}
    <3>1. [seen.input EXCEPT ![k] = input[k]] \in Input
      BY <2>2 DEF TypeOK, Input
    <3>2. seen' = [seen EXCEPT !.input = [seen.input EXCEPT ![k] = input[k]]]
      BY <2>2 DEF Deliver, TypeOK
    <3> QED
      BY <3>1, <3>2 DEF TypeOK
  <2> QED
    BY <2>1, <2>2 DEF Keys
<1> QED
  BY <1>1 DEF Deliver, TypeOK, watcher, records, choices

\* The worker keeps its type; a write of a Record that fails ends the writing.
LEMMA WriteFailsType ==
    ASSUME TypeOK, WriteFails
    PROVE  /\ w' \in Worker /\ w'.todo = w.todo /\ w'.want = w.want
           /\ w'.pc = "status" /\ w'.again = TRUE /\ UNCHANGED <<recs, recBehind>>
BY DEF TypeOK, WriteFails, Worker

\* An Upsert writes what is wanted of the name and leaves the name behind, or it fails.
LEMMA UpsertCases ==
    ASSUME TypeOK, NEW n \in Names, Upsert(n)
    PROVE  /\ w' \in Worker /\ recs' \in [Names -> Record] /\ recBehind \subseteq recBehind'
           /\ recBehind' \subseteq Names /\ left' \in Nat
           /\ w'.todo \subseteq w.todo /\ w'.want = w.want
           /\ \A m \in Names \ {n} : recs'[m] = recs[m]
           /\ recs'[n] = recs[n] \/ n \in recBehind'
           /\ \/ /\ w'.pc = "write" /\ w'.list = w.list /\ w'.todo = w.todo \ {n}
                 /\ recs'[n].val = w.want[n]
              \/ w'.pc = "status" /\ w'.again = TRUE
<1>0. /\ w \in Worker /\ w.pc = "write" /\ n \in w.todo /\ n \in DOMAIN w.want /\ left \in Nat
      /\ recs \in [Names -> Record] /\ recs[n] \in Record
  BY DEF TypeOK, Upsert
<1>1. CASE WriteFails
  <2>1. left' \in Nat
    BY <1>0, SpendType DEF Upsert
  <2> QED
    BY <1>0, <1>1, <2>1, WriteFailsType DEF TypeOK
<1>2. CASE ~WriteFails
  <2> DEFINE new == [phase |-> IF n \in w.list THEN recs[n].phase ELSE "live",
                     val |-> w.want[n]]
  <2>1. /\ w' = [w EXCEPT !.todo = @ \ {n}] /\ UNCHANGED left
        /\ IF new = recs[n] THEN UNCHANGED <<recs, recBehind>> ELSE Store(n, new)
    BY <1>2 DEF Upsert
  <2>2. new \in Record /\ new.val = w.want[n]
    <3>1. PICK N \in SUBSET Names : w.want \in [N -> Content]
      BY <1>0 DEF Worker
    <3>2. w.want[n] \in Content
      BY <1>0, <3>1
    <3> QED
      BY <1>0, <3>2 DEF Record
  <2>3. /\ w' \in Worker /\ w'.pc = "write" /\ w'.list = w.list /\ w'.want = w.want
        /\ w'.todo = w.todo \ {n}
    BY <1>0, <2>1 DEF Worker
  <2> HIDE DEF new
  <2>4. /\ recs' \in [Names -> Record] /\ recs'[n] = new
        /\ \A m \in Names \ {n} : recs'[m] = recs[m]
    BY <1>0, <2>1, <2>2, StoreType
  <2>5. /\ recBehind \subseteq recBehind' /\ recBehind' \subseteq Names
        /\ recs'[n] = recs[n] \/ n \in recBehind'
    BY <2>1, <2>4 DEF Store, TypeOK
  <2> QED
    BY <1>0, <2>1, <2>2, <2>3, <2>4, <2>5
<1> QED
  BY <1>1, <1>2

\* A Prune leaves a name behind that is not wanted and no longer live, or it fails.
LEMMA PruneCases ==
    ASSUME TypeOK, NEW n \in Names, Prune(n)
    PROVE  /\ w' \in Worker /\ recs' \in [Names -> Record] /\ recBehind \subseteq recBehind'
           /\ recBehind' \subseteq Names /\ left' \in Nat
           /\ w'.todo = w.todo /\ w'.want = w.want /\ n \notin DOMAIN w.want
           /\ \A m \in Names \ {n} : recs'[m] = recs[m]
           /\ recs'[n] = recs[n] \/ n \in recBehind'
           /\ \/ /\ w'.pc = "write" /\ w'.list = w.list \ {n} /\ recs'[n].phase # "live"
              \/ w'.pc = "status" /\ w'.again = TRUE
<1>0. /\ w \in Worker /\ w.pc = "write" /\ n \in w.list \ DOMAIN w.want /\ left \in Nat
      /\ recs \in [Names -> Record] /\ recs[n] \in Record
  BY DEF TypeOK, Prune, Unwanted
<1>1. CASE WriteFails
  <2>1. left' \in Nat
    BY <1>0, SpendType DEF Prune
  <2> QED
    BY <1>0, <1>1, <2>1, WriteFailsType DEF TypeOK
<1>2. CASE ~WriteFails
  <2>1. /\ w' = [w EXCEPT !.list = @ \ {n}] /\ UNCHANGED left
        /\ IF recs[n].phase = "live" THEN \E record \in Deleted(n) : Store(n, record)
                                     ELSE UNCHANGED <<recs, recBehind>>
    BY <1>2 DEF Prune
  <2>2. /\ w' \in Worker /\ w'.pc = "write" /\ w'.list = w.list \ {n} /\ w'.want = w.want
        /\ w'.todo = w.todo
    BY <1>0, <2>1 DEF Worker
  <2>3. CASE recs[n].phase = "live"
    <3>1. PICK record \in Deleted(n) : Store(n, record)
      BY <2>1, <2>3
    <3>2. record \in Record /\ record.phase # "live"
      BY DeletedType
    <3>3. recBehind' = recBehind \cup {n}
      BY <3>1 DEF Store
    <3> QED
      BY <1>0, <2>1, <2>2, <3>1, <3>2, <3>3, StoreType
  <2>4. CASE recs[n].phase # "live"
    BY <1>0, <2>1, <2>2, <2>4 DEF TypeOK
  <2> QED
    BY <2>3, <2>4
<1> QED
  BY <1>1, <1>2

LEMMA WrittenType ==
    ASSUME TypeOK
    PROVE  Written \in Status
BY DEF TypeOK, Worker, Status, Written

LEMMA ReconcileType ==
    ASSUME TypeOK, Reconcile
    PROVE  TypeOK'
<1>0. left \in Nat
  BY DEF TypeOK
<1>1. CASE Begin
  <2>1. w' \in Worker /\ w'.todo \subseteq DOMAIN w'.want
    BY <1>1, OutcomeCases DEF Begin
  <2>2. cache' \in Object /\ queued' = FALSE
    BY <1>1 DEF Begin, TypeOK, Parsed
  <2>3. UNCHANGED <<objects, watcher, records, timer, choices, left>>
    BY <1>1 DEF Begin
  <2> QED
    BY <2>1, <2>2, <2>3 DEF TypeOK, objects, watcher, records, choices
<1>2. CASE WriteStatus
  <2>1. wat' \in Status /\ watBehind' \in BOOLEAN /\ left' \in Nat
    BY <1>0, <1>2, WrittenType, SpendType DEF WriteStatus, TypeOK
  <2>2. timer' \in BOOLEAN /\ w' = Idle
    BY <1>2 DEF WriteStatus, TypeOK, Worker
  <2>3. UNCHANGED <<objects, watSeen, records, cache, queued, choices>>
    BY <1>2 DEF WriteStatus
  <2> QED
    BY <2>1, <2>2, <2>3, ConstantTypes DEF TypeOK, objects, records, choices
<1>3. ASSUME NEW n \in Names, Upsert(n) \/ Prune(n)
      PROVE  TypeOK'
  <2>1. /\ w' \in Worker /\ recs' \in [Names -> Record] /\ recBehind' \subseteq Names
        /\ left' \in Nat /\ w'.todo \subseteq w.todo /\ w'.want = w.want
    BY <1>3, UpsertCases, PruneCases
  <2>2. UNCHANGED <<objects, watcher, recSeen, cache, queue, choices>>
    BY <1>3 DEF Upsert, Prune
  <2> QED
    BY <2>1, <2>2 DEF TypeOK, objects, watcher, queue, choices
<1> QED
  BY <1>1, <1>2, <1>3 DEF Reconcile

LEMMA OthersType ==
    ASSUME TypeOK,
           \/ TouchWatcher \/ DeliverWatcher \/ Timer \/ Resync \/ Crash
           \/ \E n \in Names : \/ TouchRecord(n) \/ DeleteRecord(n) \/ FinishDelete(n)
                               \/ DeliverRecord(n)
    PROVE  TypeOK'
<1>0. left \in Nat
  BY DEF TypeOK
<1> USE DEF objects, watcher, records, queue, choices
<1>1. CASE TouchWatcher
  <2>1. w' \in Worker /\ w'.todo = w.todo /\ w'.want = w.want
    BY <1>1 DEF TouchWatcher, TypeOK, Worker
  <2> QED
    BY <1>0, <1>1, <2>1, SpendType DEF TouchWatcher, TypeOK
<1>2. CASE DeliverWatcher
  BY <1>2 DEF DeliverWatcher, TypeOK, OwnEvent
<1>3. CASE Timer
  BY <1>3 DEF Timer, TypeOK
<1>4. CASE Resync
  BY <1>4 DEF Resync, TypeOK
<1>5. CASE Crash
  <2>1. left' \in Nat
    BY <1>0, <1>5, SpendType DEF Crash
  <2> QED
    BY <1>5, <2>1, ConstantTypes DEF Crash, TypeOK
<1>6. ASSUME NEW n \in Names, TouchRecord(n) \/ DeleteRecord(n) \/ FinishDelete(n)
      PROVE  TypeOK'
  <2>1. /\ recs' \in [Names -> Record] /\ recBehind' = recBehind \cup {n}
        /\ Overtake(n) /\ left' \in Nat
        /\ UNCHANGED <<objects, watcher, recSeen, cache, queue, choices>>
    BY <1>6, OthersOnRecords
  <2>2. w' \in Worker /\ w'.want = w.want /\ w'.todo = w.todo
    BY <2>1, OvertakeType DEF TypeOK
  <2> QED
    BY <2>1, <2>2 DEF TypeOK
<1>7. ASSUME NEW n \in Names, DeliverRecord(n)
      PROVE  TypeOK'
  BY <1>7 DEF DeliverRecord, TypeOK
<1> QED
  BY <1>1, <1>2, <1>3, <1>4, <1>5, <1>6, <1>7

LEMMA InitType == Init => TypeOK
<1> SUFFICES ASSUME Init
             PROVE  TypeOK
  OBVIOUS
<1>1. input \in Input
  BY DEF Init, Input
<1>2. tpl \in Object
  BY DEF Init, Object
<1>3. recs \in [Names -> Record] /\ recSeen = recs
  BY ConstantTypes DEF Init
<1>4. Idle.todo \subseteq DOMAIN Idle.want
  BY ConstantTypes
<1> QED
  BY <1>1, <1>2, <1>3, <1>4, ConstantTypes, WatcherAssumption DEF Init, TypeOK

LEMMA NextType == TypeOK /\ [Next]_vars => TypeOK'
<1> SUFFICES ASSUME TypeOK, [Next]_vars
             PROVE  TypeOK'
  OBVIOUS
<1>1. CASE Next
  BY <1>1, ReconcileType, OthersType, InputType, TemplateType, DeliverType DEF Next
<1>2. CASE UNCHANGED vars
  BY <1>2 DEF vars, TypeOK, objects, watcher, records, queue, choices
<1> QED
  BY <1>1, <1>2

\* Every variable keeps its type, for any texts, objects, names and disturbances.
THEOREM WatcherTypes == Spec => []TypeOK
BY InitType, NextType, PTL DEF Spec

-----------------------------------------------------------------------------
(***************************************************************************)
(* What is listed as watched is followed                                   *)
(***************************************************************************)

\* A copy that is not behind is the stored version.
CopiesFollow ==
    /\ \A i \in {"main", "aux"} : i \notin behind => seen.input[i] = input[i]
    /\ "template" \notin behind => seen.tpl = tpl
    /\ ~watBehind => watSeen = wat
    /\ \A n \in Names \ recBehind : recSeen[n] = recs[n]

\* x is y, or was stored before it.
Earlier(x, y) ==
    Exists(x) => /\ x.life <= y.life
                 /\ Exists(y) /\ x.life = y.life =>
                      x.gen <= y.gen /\ (x.gen = y.gen => x.text = y.text)

\* Generation and life together tell texts apart.
Versions ==
    /\ Earlier(cache, tpl) /\ Earlier(seen.tpl, tpl)
    /\ Exists(cache) /\ cache.gen = seen.tpl.gen /\ cache.life = seen.tpl.life
         => cache.text = seen.tpl.text

\* A worker that writes has listed, or wants, every live Record, and those it wanted and
\* has left behind are what it wanted.
Knows ==
    w.pc = "write" =>
        \A n \in Names : recs[n].phase = "live" =>
            /\ n \in w.list \cup DOMAIN w.want
            /\ n \in DOMAIN w.want \ w.todo => recs[n].val = w.want[n]

\* Usable, of the cached copies.
UsableSeen ==
    /\ Exists(seen.tpl) /\ seen.tpl.text \notin Broken
    /\ cache.gen = seen.tpl.gen => cache.life = seen.tpl.life
    /\ \A i \in Uses(seen.tpl.text) : seen.input[i] # None

Listed == {"template"} \cup Uses(seen.tpl.text) \subseteq watSeen.res

SeenYield == Yield(seen.tpl.text, seen.input)

NoneContradictsSeen ==
    \A n \in Names : recs[n].phase = "live" =>
        n \in DOMAIN SeenYield /\ recs[n].val = SeenYield[n]

\* What is listed has not changed unheard: the worker writes what the caches yield, or
\* the Records are that already, or another attempt is due.
Follows ==
    ~queued /\ UsableSeen /\ Listed =>
        /\ w.pc = "write" => w.want = SeenYield
        /\ w.pc = "status" => w.again
        /\ w.pc = "idle" => timer \/ NoneContradictsSeen

WatchInv == CopiesFollow /\ Versions /\ (~lags => Knows /\ Follows)

LEMMA CopiesFollowKept ==
    ASSUME TypeOK, CopiesFollow, Next
    PROVE  CopiesFollow'
<1> USE DEF CopiesFollow
<1>1. ASSUME NEW i \in {"main", "aux"}, ChangeInput(i)
      PROVE  CopiesFollow'
  <2>1. \A j \in {"main", "aux"} \ {i} : input'[j] = input[j]
    BY <1>1 DEF ChangeInput, TypeOK, Input
  <2> QED
    BY <1>1, <2>1 DEF ChangeInput, watcher, records
<1>2. CASE ChangeTemplate
  BY <1>2 DEF ChangeTemplate, watcher, records
<1>3. ASSUME NEW k \in Keys, Deliver(k)
      PROVE  CopiesFollow'
  <2>1. CASE k = "template"
    <3>1. seen'.tpl = tpl /\ seen'.input = seen.input
      BY <1>3, <2>1 DEF Deliver, TypeOK
    <3> QED
      BY <1>3, <2>1, <3>1 DEF Deliver, watcher, records
  <2>2. CASE k \in {"main", "aux"}
    <3>1. /\ seen'.tpl = seen.tpl /\ seen'.input[k] = input[k]
          /\ \A j \in {"main", "aux"} \ {k} : seen'.input[j] = seen.input[j]
      BY <1>3, <2>2 DEF Deliver, TypeOK, Input
    <3> QED
      BY <1>3, <2>2, <3>1 DEF Deliver, watcher, records
  <2> QED
    BY <1>3, <2>1, <2>2 DEF Keys
<1>4. CASE Crash
  BY <1>4 DEF Crash
<1>5. ASSUME NEW n \in Names, TouchRecord(n) \/ DeleteRecord(n) \/ FinishDelete(n)
      PROVE  CopiesFollow'
  BY <1>5, OthersOnRecords DEF objects, watcher
<1>6. ASSUME NEW n \in Names, Upsert(n) \/ Prune(n)
      PROVE  CopiesFollow'
  <2>1. /\ recBehind \subseteq recBehind' /\ (recs'[n] = recs[n] \/ n \in recBehind')
        /\ \A m \in Names \ {n} : recs'[m] = recs[m]
    BY <1>6, UpsertCases, PruneCases
  <2> QED
    BY <1>6, <2>1 DEF Upsert, Prune, objects, watcher
<1>7. ASSUME NEW n \in Names, DeliverRecord(n)
      PROVE  CopiesFollow'
  BY <1>7 DEF DeliverRecord, objects, watcher, TypeOK
<1>8. CASE WriteStatus
  <2>1. ~watBehind' => ~watBehind /\ wat' = wat
    <3>1. \/ wat' = Written /\ watBehind' = (watBehind \/ wat # Written)
          \/ UNCHANGED <<wat, watBehind>>
      BY <1>8 DEF WriteStatus
    <3> QED
      BY <3>1, Zenon
  <2> QED
    BY <1>8, <2>1 DEF WriteStatus, objects, records
<1>9. CASE TouchWatcher \/ DeliverWatcher
  BY <1>9 DEF TouchWatcher, DeliverWatcher, objects, records
<1>10. CASE Begin \/ Timer \/ Resync
  BY <1>10 DEF Begin, Timer, Resync, objects, watcher, records
<1> QED
  BY <1>1, <1>2, <1>3, <1>4, <1>5, <1>6, <1>7, <1>8, <1>9, <1>10 DEF Next, Reconcile

LEMMA VersionsKept ==
    ASSUME TypeOK, Versions, Next
    PROVE  Versions'
<1>0. /\ tpl \in Object /\ cache \in Object /\ seen.tpl \in Object
      /\ tpl.gen \in Nat /\ tpl.life \in Nat /\ cache.gen \in Nat /\ cache.life \in Nat
      /\ seen.tpl.gen \in Nat /\ seen.tpl.life \in Nat
  BY DEF TypeOK, Object
<1> USE DEF Versions, Earlier, Exists
<1>1. CASE ChangeTemplate
  <2>1. /\ \/ Exists(tpl) /\ tpl'.gen = tpl.gen + 1 /\ tpl'.life = tpl.life
           \/ tpl'.gen = 0 /\ tpl'.life = tpl.life
           \/ ~Exists(tpl) /\ tpl'.life = tpl.life + 1
        /\ tpl'.gen \in Nat
    BY <1>1, TemplateCases DEF Object
  <2>2. UNCHANGED <<cache, seen>>
    BY <1>1 DEF ChangeTemplate
  <2> QED
    BY <1>0, <2>1, <2>2
<1>2. ASSUME NEW k \in Keys, Deliver(k)
      PROVE  Versions'
  <2>1. seen'.tpl \in {seen.tpl, tpl} /\ UNCHANGED <<tpl, cache>>
    BY <1>2 DEF Deliver, TypeOK
  <2> QED
    BY <1>0, <2>1
<1>3. CASE Begin
  <2>1. cache' \in {cache, seen.tpl} /\ UNCHANGED <<seen, tpl>>
    BY <1>3 DEF Begin, Parsed, objects
  <2> QED
    BY <1>0, <2>1
<1>4. CASE Crash
  <2>1. cache' = NoTemplate /\ seen'.tpl = tpl /\ tpl' = tpl
    BY <1>4 DEF Crash
  <2> QED
    BY <1>0, <2>1, ConstantTypes
<1>5. CASE UNCHANGED <<tpl, cache, seen>>
  BY <1>5
<1>6. ASSUME NEW n \in Names, TouchRecord(n) \/ DeleteRecord(n) \/ FinishDelete(n)
                              \/ DeliverRecord(n) \/ Upsert(n) \/ Prune(n)
      PROVE  UNCHANGED <<tpl, cache, seen>>
  BY <1>6 DEF TouchRecord, DeleteRecord, FinishDelete, DeliverRecord, Upsert, Prune, objects
<1>7. ASSUME NEW i \in {"main", "aux"}, ChangeInput(i)
      PROVE  UNCHANGED <<tpl, cache, seen>>
  BY <1>7 DEF ChangeInput
<1>8. CASE WriteStatus \/ TouchWatcher \/ DeliverWatcher \/ Timer \/ Resync
  BY <1>5, <1>8 DEF WriteStatus, TouchWatcher, DeliverWatcher, Timer, Resync, objects
<1> QED
  BY <1>1, <1>2, <1>3, <1>4, <1>5, <1>6, <1>7, <1>8 DEF Next, Reconcile

LEMMA KnowsKept ==
    ASSUME TypeOK, CopiesFollow, lags = FALSE, Knows, Next
    PROVE  Knows'
<1>0. w \in Worker /\ recs \in [Names -> Record] /\ w.todo \subseteq DOMAIN w.want
  BY DEF TypeOK
<1>1. CASE w'.pc # "write"
  BY <1>1 DEF Knows
\* The Records are as they were, or not live; the worker is where it was.
<1>2. ASSUME w'.pc = w.pc, w'.list = w.list, w'.want = w.want, w'.todo = w.todo,
             \A n \in Names : recs'[n] = recs[n] \/ recs'[n].phase # "live"
      PROVE  Knows'
  BY <1>2 DEF Knows
<1>3. CASE Begin
  <2>1. recSeen = recs /\ UNCHANGED recs /\ w' = Outcome
    <3>1. recBehind = {} /\ UNCHANGED recs /\ w' = Outcome
      BY <1>3 DEF Begin, CachesCurrent, records
    <3>2. recSeen \in [Names -> Record] /\ \A n \in Names : recSeen[n] = recs[n]
      BY <3>1 DEF CopiesFollow, TypeOK
    <3> QED
      BY <1>0, <3>1, <3>2
  <2>2. CASE w'.pc = "write"
    <3>1. /\ seen.input.main # None /\ w'.todo = seen.input.main
          /\ w'.list = {n \in Names : recs[n].phase # "absent"}
          /\ w'.want = Yield(Parsed(seen.tpl).text, seen.input)
      BY <2>1, <2>2, OutcomeCases
    <3>2. DOMAIN w'.want = w'.todo
      BY <3>1 DEF Yield
    <3> QED
      BY <2>1, <3>1, <3>2 DEF Knows
  <2> QED
    BY <1>1, <2>2
<1>4. ASSUME NEW n \in Names, Upsert(n)
      PROVE  Knows'
  <2>1. /\ w'.want = w.want /\ \A m \in Names \ {n} : recs'[m] = recs[m]
        /\ \/ /\ w'.pc = "write" /\ w'.list = w.list /\ w'.todo = w.todo \ {n}
              /\ recs'[n].val = w.want[n]
           \/ w'.pc = "status" /\ w'.again = TRUE
    BY <1>4, UpsertCases
  <2>2. w.pc = "write" /\ n \in DOMAIN w.want
    BY <1>0, <1>4 DEF Upsert
  <2> QED
    BY <1>1, <2>1, <2>2 DEF Knows
<1>5. ASSUME NEW n \in Names, Prune(n)
      PROVE  Knows'
  <2>1. /\ w'.want = w.want /\ \A m \in Names \ {n} : recs'[m] = recs[m]
        /\ w'.todo = w.todo /\ w.pc = "write"
        /\ \/ w'.pc = "write" /\ w'.list = w.list \ {n} /\ recs'[n].phase # "live"
           \/ w'.pc = "status" /\ w'.again = TRUE
    BY <1>5, PruneCases DEF Prune
  <2> QED
    BY <1>1, <2>1 DEF Knows
<1>6. ASSUME NEW n \in Names, TouchRecord(n) \/ DeleteRecord(n) \/ FinishDelete(n)
      PROVE  Knows'
  <2>1. /\ recs'[n] = recs[n] \/ recs'[n].phase # "live"
        /\ \A m \in Names \ {n} : recs'[m] = recs[m]
        /\ Overtake(n)
    BY <1>6, OthersOnRecords
  <2>2. w'.pc = w.pc /\ w'.list = w.list /\ w'.want = w.want /\ w'.todo = w.todo
    BY <1>0, <2>1, OvertakeType
  <2> QED
    BY <1>2, <2>1, <2>2
<1>7. CASE WriteStatus \/ Crash
  BY <1>1, <1>7, ConstantTypes DEF WriteStatus, Crash
<1>8. CASE TouchWatcher
  <2>1. w'.pc = w.pc /\ w'.list = w.list /\ w'.want = w.want /\ w'.todo = w.todo
    BY <1>0, <1>8 DEF TouchWatcher, Worker
  <2> QED
    BY <1>2, <1>8, <2>1 DEF TouchWatcher, records
<1>9. CASE UNCHANGED <<w, recs>>
  BY <1>2, <1>9
<1>10. CASE ChangeTemplate \/ DeliverWatcher \/ Timer \/ Resync
  BY <1>9, <1>10 DEF ChangeTemplate, DeliverWatcher, Timer, Resync, records
<1>11. ASSUME NEW i \in {"main", "aux"}, ChangeInput(i)
       PROVE  Knows'
  BY <1>9, <1>11 DEF ChangeInput, records
<1>12. ASSUME NEW k \in Keys, Deliver(k)
       PROVE  Knows'
  BY <1>9, <1>12 DEF Deliver, records
<1>13. ASSUME NEW n \in Names, DeliverRecord(n)
       PROVE  Knows'
  BY <1>9, <1>13 DEF DeliverRecord
<1> QED
  BY <1>3, <1>4, <1>5, <1>6, <1>7, <1>8, <1>10, <1>11, <1>12, <1>13 DEF Next, Reconcile

\* A reconciliation that begins parses the text that the caches hold, or fails.
LEMMA BeginFollows ==
    ASSUME TypeOK, Versions, Begin, UsableSeen'
    PROVE  (w'.pc = "write" => w'.want = SeenYield') /\ w'.pc # "idle"
           /\ (w'.pc = "status" => w'.again)
<1> DEFINE parsed == Parsed(seen.tpl)
<1>1. /\ seen' = seen /\ w' = Outcome
      /\ cache' = IF /\ seen.input.main # None /\ Exists(seen.tpl)
                     /\ parsed.text \notin Broken
                  THEN parsed ELSE cache
  BY DEF Begin, objects
<1>2. /\ Exists(seen.tpl) /\ seen.tpl.text \notin Broken /\ seen.input.main # None
      /\ cache'.gen = seen.tpl.gen => cache'.life = seen.tpl.life
  BY <1>1 DEF UsableSeen, Uses
<1>3. parsed.text = seen.tpl.text
  <2>1. CASE cache.gen = seen.tpl.gen
    <3>1. parsed = cache
      BY <2>1 DEF Parsed
    <3>2. cache' = cache
      BY <1>1, <3>1
    <3>3. Exists(cache)
      BY <1>2, <2>1 DEF Exists
    <3> QED
      BY <1>2, <2>1, <3>1, <3>2, <3>3 DEF Versions
  <2>2. CASE cache.gen # seen.tpl.gen
    BY <2>2 DEF Parsed
  <2> QED
    BY <2>1, <2>2
<1>4. /\ Outcome.pc = "status" => Outcome.again = TRUE
      /\ Outcome.pc = "write" => Outcome.want = Yield(seen.tpl.text, seen.input)
      /\ Outcome.pc \in {"status", "write"}
  BY <1>2, <1>3, OutcomeCases
<1> QED
  BY <1>1, <1>4 DEF SeenYield

\* An event nobody listens to is of an object that the text does not use.
LEMMA DeliverFollows ==
    ASSUME TypeOK, Follows, NEW k \in Keys, Deliver(k)
    PROVE  Follows'
<1> SUFFICES ASSUME ~queued', UsableSeen', Listed'
             PROVE  /\ w'.pc = "write" => w'.want = SeenYield'
                    /\ w'.pc = "status" => w'.again
                    /\ w'.pc = "idle" => timer' \/ NoneContradictsSeen'
  BY DEF Follows
<1>1. /\ ~queued /\ k \notin watSeen.res
      /\ UNCHANGED <<watSeen, recs, cache, w, timer>>
  BY DEF Deliver, watcher, records
<1>2. k \in {"main", "aux"}
  BY <1>1 DEF Listed, Keys
<1>3. /\ seen'.tpl = seen.tpl /\ seen'.input[k] = input[k]
      /\ \A j \in {"main", "aux"} \ {k} : seen'.input[j] = seen.input[j]
  BY <1>2 DEF Deliver, TypeOK, Input
<1>4. k = "aux" /\ seen.tpl.text \notin Deep
  BY <1>1, <1>2, <1>3 DEF Listed, Uses
<1>5. seen'.input.main = seen.input.main
  BY <1>3, <1>4
<1>6. UsableSeen /\ Listed
  BY <1>1, <1>3, <1>4, <1>5 DEF UsableSeen, Listed, Uses
<1>7. SeenYield' = SeenYield
  BY <1>3, <1>4, <1>5 DEF SeenYield, Yield
<1>8. NoneContradictsSeen => NoneContradictsSeen'
  BY <1>1, <1>7 DEF NoneContradictsSeen
<1> QED
  BY <1>1, <1>6, <1>7, <1>8 DEF Follows

\* What is written at the end of a reconciliation that wrote everything.
LEMMA WriteStatusFollows ==
    ASSUME TypeOK, Knows, Follows, WriteStatus
    PROVE  Follows'
<1> SUFFICES ASSUME ~queued', UsableSeen', Listed'
             PROVE  timer' \/ NoneContradictsSeen'
  BY ConstantTypes DEF Follows, WriteStatus
<1>1. UNCHANGED <<seen, cache, watSeen, queued, recs>> /\ timer' = (timer \/ w.again)
  BY DEF WriteStatus, objects, records
<1>2. ~queued /\ UsableSeen /\ Listed
  BY <1>1 DEF UsableSeen, Listed
<1>3. CASE w.pc = "status"
  <2>1. w.again
    BY <1>2, <1>3 DEF Follows
  <2> QED
    BY <1>1, <2>1
<1>4. CASE w.pc = "write" /\ w.todo = {} /\ Unwanted = {}
  <2>1. w.want = SeenYield
    BY <1>2, <1>4 DEF Follows
  <2>2. \A n \in Names : recs[n].phase = "live" =>
           n \in DOMAIN w.want /\ recs[n].val = w.want[n]
    BY <1>4 DEF Knows, Unwanted
  <2>3. NoneContradictsSeen
    BY <2>1, <2>2 DEF NoneContradictsSeen
  <2> QED
    BY <1>1, <2>3 DEF NoneContradictsSeen, SeenYield
<1> QED
  BY <1>3, <1>4 DEF WriteStatus

LEMMA FollowsKept ==
    ASSUME TypeOK, Versions, Knows, Follows, Next
    PROVE  Follows'
<1>0. w \in Worker
  BY DEF TypeOK
<1>1. CASE queued' = TRUE
  BY <1>1 DEF Follows
\* The caches, the queue and the worker are as they were, live Records too.
<1>2. ASSUME UNCHANGED <<seen, cache, watSeen, queued, timer>>,
             w'.pc = w.pc, w'.want = w.want, w'.again = w.again,
             \A n \in Names : recs'[n] = recs[n] \/ recs'[n].phase # "live"
      PROVE  Follows'
  <2>1. SeenYield' = SeenYield /\ UsableSeen' = UsableSeen /\ Listed' = Listed
    BY <1>2 DEF SeenYield, UsableSeen, Listed
  <2>2. NoneContradictsSeen => NoneContradictsSeen'
    BY <1>2, <2>1 DEF NoneContradictsSeen
  <2> QED
    BY <1>2, <2>1, <2>2 DEF Follows
<1>3. CASE Begin
  BY <1>3, BeginFollows DEF Follows
<1>4. ASSUME NEW n \in Names, Upsert(n) \/ Prune(n)
      PROVE  Follows'
  <2>1. /\ w'.want = w.want /\ w.pc = "write"
        /\ w'.pc = "write" \/ (w'.pc = "status" /\ w'.again = TRUE)
    BY <1>4, UpsertCases, PruneCases DEF Upsert, Prune
  <2>2. UNCHANGED <<seen, cache, watSeen, queued>>
    BY <1>4 DEF Upsert, Prune, objects, watcher, queue
  <2>3. SeenYield' = SeenYield /\ UsableSeen' = UsableSeen /\ Listed' = Listed
    BY <2>2 DEF SeenYield, UsableSeen, Listed
  <2> QED
    BY <2>1, <2>2, <2>3 DEF Follows
<1>5. ASSUME NEW n \in Names, TouchRecord(n) \/ DeleteRecord(n) \/ FinishDelete(n)
      PROVE  Follows'
  <2>1. /\ recs'[n] = recs[n] \/ recs'[n].phase # "live"
        /\ \A m \in Names \ {n} : recs'[m] = recs[m]
        /\ Overtake(n) /\ UNCHANGED <<objects, watcher, cache, queue>>
    BY <1>5, OthersOnRecords
  <2>2. w'.pc = w.pc /\ w'.want = w.want /\ w'.again = w.again
    BY <1>0, <2>1, OvertakeType
  <2> QED
    BY <1>2, <2>1, <2>2 DEF objects, watcher, queue
<1>6. CASE TouchWatcher
  <2>1. w'.pc = w.pc /\ w'.want = w.want /\ w'.again = w.again
    BY <1>0, <1>6 DEF TouchWatcher, Worker
  <2> QED
    BY <1>2, <1>6, <2>1 DEF TouchWatcher, objects, records, queue
<1>7. CASE ChangeTemplate
  BY <1>2, <1>7 DEF ChangeTemplate, watcher, records, queue
<1>8. ASSUME NEW i \in {"main", "aux"}, ChangeInput(i)
      PROVE  Follows'
  BY <1>2, <1>8 DEF ChangeInput, watcher, records, queue
<1>9. ASSUME NEW n \in Names, DeliverRecord(n)
      PROVE  Follows'
  BY <1>2, <1>9 DEF DeliverRecord, objects, watcher, queue
<1>10. CASE DeliverWatcher \/ Timer \/ Resync \/ Crash
  BY <1>1, <1>10 DEF DeliverWatcher, OwnEvent, Timer, Resync, Crash
<1> QED
  BY <1>3, <1>4, <1>5, <1>6, <1>7, <1>8, <1>9, <1>10, WriteStatusFollows, DeliverFollows
     DEF Next, Reconcile

LEMMA InitWatch == Init => WatchInv
<1> SUFFICES ASSUME Init
             PROVE  WatchInv
  OBVIOUS
<1>1. CopiesFollow
  BY DEF Init, CopiesFollow
<1>2. Versions
  <2>1. tpl \in Object /\ seen.tpl = tpl /\ cache = NoTemplate
    BY DEF Init, Object
  <2> QED
    BY <2>1, ConstantTypes DEF Versions, Earlier, Object
<1>3. Knows /\ Follows
  BY ConstantTypes DEF Init, Knows, Follows
<1> QED
  BY <1>1, <1>2, <1>3 DEF WatchInv

LEMMA NextWatch == TypeOK /\ WatchInv /\ [Next]_vars => WatchInv'
<1> SUFFICES ASSUME TypeOK, WatchInv, [Next]_vars
             PROVE  WatchInv'
  OBVIOUS
<1>1. CASE Next
  <2>1. lags' = lags /\ lags \in BOOLEAN
    <3>1. lags \in BOOLEAN
      BY WatcherAssumption DEF TypeOK
    <3>2. CASE Begin \/ WriteStatus
      BY <3>1, <3>2 DEF Begin, WriteStatus, choices
    <3>3. CASE ChangeTemplate \/ TouchWatcher \/ DeliverWatcher
      BY <3>1, <3>3 DEF ChangeTemplate, TouchWatcher, DeliverWatcher, choices
    <3>4. CASE Timer \/ Resync \/ Crash
      BY <3>1, <3>4 DEF Timer, Resync, Crash, choices
    <3>5. CASE \/ \E i \in {"main", "aux"} : ChangeInput(i)
               \/ \E k \in Keys : Deliver(k)
      BY <3>1, <3>5 DEF ChangeInput, Deliver, choices
    <3>6. ASSUME NEW n \in Names, \/ TouchRecord(n) \/ DeleteRecord(n) \/ FinishDelete(n)
                                  \/ DeliverRecord(n)
          PROVE  lags' = lags
      BY <3>6 DEF TouchRecord, DeleteRecord, FinishDelete, DeliverRecord, choices
    <3>7. ASSUME NEW n \in Names, Upsert(n) \/ Prune(n)
          PROVE  lags' = lags
      BY <3>7 DEF Upsert, Prune, choices
    <3> QED
      BY <1>1, <3>1, <3>2, <3>3, <3>4, <3>5, <3>6, <3>7 DEF Next, Reconcile
  <2> QED
    BY <1>1, <2>1, CopiesFollowKept, VersionsKept, KnowsKept, FollowsKept DEF WatchInv
<1>2. CASE UNCHANGED vars
  BY <1>2 DEF vars, objects, watcher, records, queue, choices, WatchInv, CopiesFollow,
     Versions, Knows, Follows, UsableSeen, Listed, SeenYield, NoneContradictsSeen
<1> QED
  BY <1>1, <1>2

\* When all is at rest and the status lists the template and all it uses, no live Record
\* is at odds with the template and the objects as they are stored, if reads wait for the
\* caches: the index of watched resources, requeues and own events miss nothing.
THEOREM ListedIsFollowed == Spec => []WatchedIsFollowed
<1>1. TypeOK /\ WatchInv => WatchedIsFollowed
  <2> SUFFICES ASSUME TypeOK, WatchInv, AtRest, ~lags, Usable,
                      {"template"} \cup Uses(tpl.text) \subseteq wat.res
               PROVE  NoRecordContradicts
    BY DEF WatchedIsFollowed
  <2>1. seen.tpl = tpl /\ watSeen = wat /\ \A i \in {"main", "aux"} : seen.input[i] = input[i]
    BY DEF WatchInv, CopiesFollow, AtRest, CachesCurrent
  <2>2. ~queued /\ ~timer /\ w.pc = "idle" /\ Follows
    BY DEF AtRest, WatchInv
  <2>3. UsableSeen /\ Listed
    BY <2>1 DEF Usable, StaleText, UsableSeen, Listed, Uses
  <2>4. NoneContradictsSeen
    BY <2>2, <2>3 DEF Follows
  <2>5. SeenYield = Yield(tpl.text, input)
    BY <2>1 DEF SeenYield, Yield
  <2> QED
    BY <2>4, <2>5 DEF NoneContradictsSeen, NoRecordContradicts
<1>2. Init => TypeOK /\ WatchInv
  BY InitType, InitWatch
<1>3. TypeOK /\ WatchInv /\ [Next]_vars => (TypeOK /\ WatchInv)'
  BY NextType, NextWatch
<1> QED
  BY <1>1, <1>2, <1>3, PTL DEF Spec
=============================================================================
