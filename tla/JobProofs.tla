----------------------------- MODULE JobProofs -----------------------------
(***************************************************************************)
(* For any contents, strategies and disturbances, and any number of Jobs:  *)
(* types, and that with users who wait a Record that is gone has left      *)
(* nothing and a Record that is ready is published.                        *)
(***************************************************************************)
EXTENDS JobProvider, TLAPS

-----------------------------------------------------------------------------
(***************************************************************************)
(* Types                                                                   *)
(***************************************************************************)

\* What a call may do to Jobs, id and data: no Job is forgotten, the id names one.
Sound(o) ==
    /\ o.jobs \in [JobIds -> Job]
    /\ \A i \in JobIds : jobs[i].state # "none" => o.jobs[i].state # "none"
    /\ o.id \in JobIds \cup {NoId} /\ (o.id # NoId => o.jobs[o.id].state # "none")
    /\ o.data \in Values \cup {Nothing} /\ o.ok \in BOOLEAN

LEMMA NewIdUnused ==
    ASSUME Unused # {}
    PROVE  NewId \in JobIds /\ jobs[NewId].state = "none" /\ NewId # NoId
<1>1. NewId \in Unused
  BY DEF NewId
<1>2. \A i \in JobIds : i # NoId
  <2>1. MaxJobs \in Nat
    BY JobAssumption
  <2> QED
    BY <2>1 DEF JobIds, NoId
<1> HIDE DEF NewId
<1> QED
  BY <1>1, <1>2 DEF Unused

LEMMA MadeType ==
    ASSUME jobs \in [JobIds -> Job], Unused # {}, NEW act \in {"create", "update", "delete"},
           NEW val \in Values
    PROVE  /\ Made(act, val) \in [JobIds -> Job]
           /\ Made(act, val)[NewId] = [state |-> "running", act |-> act, val |-> val]
           /\ \A i \in JobIds \ {NewId} : Made(act, val)[i] = jobs[i]
<1>1. [state |-> "running", act |-> act, val |-> val] \in Job
  BY DEF Job
<1> QED
  BY <1>1, NewIdUnused DEF Made

\* The Job of an id is gone, the others are as they were.
LEMMA GoneType ==
    ASSUME jobs \in [JobIds -> Job], NEW id \in JobIds
    PROVE  /\ [jobs EXCEPT ![id].state = "gone"] \in [JobIds -> Job]
           /\ [jobs EXCEPT ![id].state = "gone"][id].state = "gone"
           /\ \A i \in JobIds \ {id} : [jobs EXCEPT ![id].state = "gone"][i] = jobs[i]
<1>1. [jobs[id] EXCEPT !.state = "gone"] \in Job
  BY DEF Job
<1> QED
  BY <1>1 DEF Job

GoneJob(id) == [jobs EXCEPT ![id].state = "gone"]

\* executeJob, case by case.
Starts(o, act, id, val, data) ==
    /\ ~Found(id) /\ Unused # {} /\ o.ok = FALSE
    /\ \/ o.jobs \in {jobs, Made(act, val)} /\ o.id = id /\ o.data = data
       \/ o.jobs = Made(act, val) /\ o.id = NewId /\ o.data = Rendered({"OnCreate"}, val, data)

Waits(o, id, data) ==
    /\ Found(id) /\ jobs[id].state = "running"
    /\ o.jobs = jobs /\ o.id = id /\ o.data = data /\ o.ok = FALSE

Finishes(o, id, val, data) ==
    /\ Found(id) /\ jobs[id].state = "complete" /\ o.id = id
    /\ \/ /\ o.jobs = GoneJob(id) /\ o.ok = TRUE
          /\ o.data = Rendered({"OnComplete", "OnCompleteOrFailed"}, val, data)
       \/ o.jobs \in {jobs, GoneJob(id)} /\ o.ok = FALSE /\ o.data = data

Fails(o, id, val, data) ==
    /\ Found(id) /\ jobs[id].state = "failed" /\ o.jobs = jobs /\ o.ok = FALSE
    /\ o.id = IF jobs[id].act = "create" THEN NoId ELSE id
    /\ o.data = Rendered({"OnCompleteOrFailed"}, val, data)

LEMMA ExecuteCases ==
    ASSUME NEW act, NEW id, NEW val, NEW data, NEW o \in Execute(act, id, val, data)
    PROVE  \/ Starts(o, act, id, val, data) \/ Waits(o, id, data)
           \/ Finishes(o, id, val, data) \/ Fails(o, id, val, data)
<1> USE DEF Starts, Waits, Finishes, Fails
<1>1. CASE ~Found(id)
  <2>1. Unused # {} /\ o \in {Outcome(Made(act, val), NewId, Rendered({"OnCreate"}, val, data),
                                      FALSE, FALSE),
                              Outcome(Made(act, val), id, data, FALSE, TRUE),
                              Outcome(jobs, id, data, FALSE, TRUE)}
    BY <1>1 DEF Execute, Started
  <2> QED
    BY <1>1, <2>1 DEF Outcome
<1>2. CASE Found(id) /\ jobs[id].state = "running"
  <2>1. o = Outcome(jobs, id, data, FALSE, FALSE)
    BY <1>2 DEF Execute
  <2> QED
    BY <1>2, <2>1 DEF Outcome
<1>3. CASE Found(id) /\ jobs[id].state = "complete"
  <2>1. o \in Finished(id, val, data)
    BY <1>3 DEF Execute
  <2>2. o \in {Outcome(GoneJob(id), id, Rendered({"OnComplete", "OnCompleteOrFailed"}, val, data),
                       TRUE, FALSE),
               Outcome(GoneJob(id), id, data, FALSE, TRUE), Outcome(jobs, id, data, FALSE, TRUE)}
    BY <2>1 DEF Finished, GoneJob
  <2> QED
    BY <1>3, <2>2 DEF Outcome
<1>4. CASE Found(id) /\ jobs[id].state = "failed"
  <2>1. o = Outcome(jobs, IF jobs[id].act = "create" THEN NoId ELSE id,
                    Rendered({"OnCompleteOrFailed"}, val, data), FALSE, FALSE)
    BY <1>4 DEF Execute, Failed
  <2> QED
    BY <1>4, <2>1 DEF Outcome
<1> QED
  BY <1>1, <1>2, <1>3, <1>4 DEF Found

LEMMA OutcomeShape ==
    ASSUME NEW act, NEW id, NEW val, NEW data, NEW o \in Execute(act, id, val, data)
    PROVE  o = Outcome(o.jobs, o.id, o.data, o.ok, o.faulty)
<1>1. CASE o \in Started(act, id, val, data)
  BY <1>1 DEF Started, Outcome
<1>2. CASE o \in Finished(id, val, data)
  BY <1>2 DEF Finished, Outcome
<1>3. CASE o \in Failed(id, val, data)
  BY <1>3 DEF Failed, Outcome
<1>4. CASE o \in {Outcome(jobs, id, data, FALSE, FALSE)}
  BY <1>4 DEF Outcome
<1> QED
  BY <1>1, <1>2, <1>3, <1>4 DEF Execute, Found

LEMMA CallIsSound ==
    ASSUME TypeOK, NEW act \in {"create", "update", "delete"},
           NEW o \in Execute(act, w.rec.id, w.rec.val, w.rec.data)
    PROVE  Sound(o)
<1> DEFINE id == w.rec.id
           val == w.rec.val
           data == w.rec.data
<1>1. /\ id \in JobIds \cup {NoId} /\ val \in Values
      /\ data \in Values \cup {Nothing} /\ jobs \in [JobIds -> Job]
      /\ id # NoId => jobs[id].state # "none"
  BY DEF TypeOK, Worker, RecordObject, Unused
<1>2. \/ Starts(o, act, id, val, data) \/ Waits(o, id, data)
      \/ Finishes(o, id, val, data) \/ Fails(o, id, val, data)
  BY ExecuteCases
<1> HIDE DEF id, val, data
<1>3. CASE Starts(o, act, id, val, data)
  <2>1. o.data \in Values \cup {Nothing}
    BY <1>1, <1>3 DEF Starts, Rendered
  <2>2. /\ Made(act, val) \in [JobIds -> Job] /\ Made(act, val)[NewId].state = "running"
        /\ \A i \in JobIds \ {NewId} : Made(act, val)[i] = jobs[i]
        /\ NewId \in JobIds /\ jobs[NewId].state = "none"
    <3>1. Unused # {}
      BY <1>3 DEF Starts
    <3>2. /\ Made(act, val) \in [JobIds -> Job]
          /\ Made(act, val)[NewId] = [state |-> "running", act |-> act, val |-> val]
          /\ \A i \in JobIds \ {NewId} : Made(act, val)[i] = jobs[i]
      BY <1>1, <3>1, MadeType
    <3> QED
      BY <3>1, <3>2, NewIdUnused
  <2>3. /\ o.jobs \in {jobs, Made(act, val)} /\ o.ok = FALSE
        /\ o.id = id \/ (o.id = NewId /\ o.jobs = Made(act, val))
    BY <1>3 DEF Starts
  <2>4. \A i \in JobIds : jobs[i].state # "none" => o.jobs[i].state # "none"
    BY <2>2, <2>3
  <2>5. o.id \in JobIds \cup {NoId} /\ (o.id # NoId => o.jobs[o.id].state # "none")
    BY <1>1, <2>2, <2>3, <2>4
  <2> QED
    BY <1>1, <2>1, <2>2, <2>3, <2>4, <2>5 DEF Sound
<1>4. CASE Waits(o, id, data)
  BY <1>1, <1>4 DEF Waits, Sound
<1>5. CASE Finishes(o, id, val, data)
  <2>1. o.data \in Values \cup {Nothing} /\ o.ok \in BOOLEAN
    BY <1>1, <1>5 DEF Finishes, Rendered
  <2>2. id \in JobIds /\ o.id = id /\ o.jobs \in {jobs, GoneJob(id)}
    BY <1>1, <1>5 DEF Finishes, Found
  <2>3. /\ GoneJob(id) \in [JobIds -> Job] /\ GoneJob(id)[id].state = "gone"
        /\ \A i \in JobIds \ {id} : GoneJob(id)[i] = jobs[i]
    BY <1>1, <2>2, GoneType DEF GoneJob
  <2>4. \A i \in JobIds : jobs[i].state # "none" => o.jobs[i].state # "none"
    BY <2>2, <2>3
  <2> QED
    BY <1>1, <2>1, <2>2, <2>3, <2>4 DEF Sound
<1>6. CASE Fails(o, id, val, data)
  <2>1. o.data \in Values \cup {Nothing}
    BY <1>1, <1>6 DEF Fails, Rendered
  <2> QED
    BY <1>1, <1>6, <2>1 DEF Fails, Sound
<1> QED
  BY <1>2, <1>3, <1>4, <1>5, <1>6

LEMMA SpendType ==
    ASSUME left \in Nat, NEW kind, Spend(kind)
    PROVE  left' \in Nat
BY DEF Spend

LEMMA NotedType ==
    ASSUME w \in Worker, NEW id \in JobIds \cup {NoId}, NEW data \in Values \cup {Nothing},
           NEW ok \in BOOLEAN, Noted(id, data, ok)
    PROVE  /\ w' \in Worker /\ w'.pc = "status" /\ w'.ok = ok
           /\ w'.rec.phase = w.rec.phase /\ w'.rec.val = w.rec.val
           /\ w'.rec.id = id /\ w'.rec.data = data /\ w'.rec.all = ok
<1> DEFINE copy == [w.rec EXCEPT !.id = id, !.data = data, !.all = ok]
<1>1. w.rec \in RecordObject
  BY DEF Worker
<1>2. /\ copy \in RecordObject /\ copy.id = id /\ copy.data = data /\ copy.all = ok
      /\ copy.phase = w.rec.phase /\ copy.val = w.rec.val
  BY <1>1 DEF RecordObject
<1>3. w' = [w EXCEPT !.pc = "status", !.rec = copy, !.ok = ok]
  BY <1>1 DEF Noted, Worker, RecordObject
<1> HIDE DEF copy
<1>4. w' \in Worker /\ w'.pc = "status" /\ w'.ok = ok /\ w'.rec = copy
  BY <1>2, <1>3 DEF Worker
<1> QED
  BY <1>2, <1>4 DEF copy

LEMMA WorkerTypes ==
    ASSUME w \in Worker
    PROVE  /\ [w EXCEPT !.fresh = FALSE] \in Worker
           /\ [w EXCEPT !.fresh = FALSE].rec = w.rec
           /\ [w EXCEPT !.pc = "rmfin"] \in Worker
           /\ [w EXCEPT !.pc = "rmfin"].rec = w.rec
<1>1. [w EXCEPT !.fresh = FALSE] \in Worker /\ [w EXCEPT !.pc = "rmfin"] \in Worker
  BY DEF Worker
<1>2. [w EXCEPT !.fresh = FALSE].rec = w.rec /\ [w EXCEPT !.pc = "rmfin"].rec = w.rec
  BY DEF Worker
<1> QED
  BY <1>1, <1>2

LEMMA GoneTypes ==
    /\ Gone \in RecordObject /\ Gone.id = NoId /\ Idle \in Worker /\ Idle.rec.id = NoId
<1>1. Gone \in RecordObject
  BY JobAssumption DEF Gone, RecordObject
<1> QED
  BY <1>1 DEF Idle, Worker, Gone

\* Steps of others: what they write has its type.
LEMMA OthersType ==
    ASSUME TypeOK,
           \/ Edit \/ DeleteRecord \/ TouchRecord \/ Timer \/ Crash
           \/ \E i \in JobIds : JobCompletes(i) \/ JobFails(i) \/ JobExpires(i)
    PROVE  TypeOK'
<1>0. w \in Worker /\ rec \in RecordObject /\ jobs \in [JobIds -> Job] /\ left \in Nat
  BY DEF TypeOK
<1>1. /\ [w EXCEPT !.fresh = FALSE] \in Worker
      /\ [w EXCEPT !.fresh = FALSE].rec = w.rec
  BY <1>0, WorkerTypes
<1>2. CASE Edit
  <2>1. PICK v \in Values \ {rec.val} : UserWrites("edit", [rec EXCEPT !.val = v])
    BY <1>2 DEF Edit
  <2>2. [rec EXCEPT !.val = v] \in RecordObject /\ [rec EXCEPT !.val = v].id = rec.id
    BY <1>0 DEF RecordObject
  <2> QED
    BY <1>0, <1>1, <2>1, <2>2, SpendType DEF UserWrites, TypeOK, Unused
<1>3. CASE DeleteRecord
  <2>1. /\ [rec EXCEPT !.phase = "deleting"] \in RecordObject
        /\ [rec EXCEPT !.phase = "deleting"].id = rec.id
    BY <1>0 DEF RecordObject
  <2> QED
    BY <1>0, <1>1, <1>3, <2>1, SpendType DEF DeleteRecord, UserWrites, TypeOK, Unused
<1>4. CASE TouchRecord
  BY <1>0, <1>1, <1>4, SpendType DEF TouchRecord, TypeOK, Unused
<1>5. CASE Timer
  BY <1>5 DEF Timer, TypeOK, Unused
<1>6. CASE Crash
  <2>1. queued' \in BOOLEAN /\ timer' \in BOOLEAN /\ left' \in Nat /\ w' = Idle
    BY <1>0, <1>6, SpendType DEF Crash
  <2> QED
    BY <1>6, <2>1, GoneTypes DEF Crash, TypeOK, Unused
<1>7. ASSUME NEW i \in JobIds, JobCompletes(i) \/ JobFails(i) \/ JobExpires(i)
      PROVE  TypeOK'
  <2>1. PICK st \in {"complete", "failed", "gone"} : jobs' = [jobs EXCEPT ![i].state = st]
    BY <1>7 DEF JobCompletes, JobFails, JobExpires
  <2>2. jobs' \in [JobIds -> Job]
    <3>1. [jobs[i] EXCEPT !.state = st] \in Job
      BY <1>0 DEF Job
    <3> QED
      BY <1>0, <2>1, <3>1
  <2>3. Unused' \subseteq Unused
    <3>1. jobs'[i].state = st /\ \A j \in JobIds \ {i} : jobs'[j] = jobs[j]
      BY <1>0, <2>1 DEF Job
    <3>2. jobs'[i].state # "none"
      BY <3>1
    <3> QED
      BY <3>1, <3>2 DEF Unused
  <2>4. Effect(jobs[i]) \in Values \cup {Nothing}
    BY <1>0 DEF Effect, Job
  <2>5. content' \in Values \cup {Nothing} /\ left' \in Nat
        /\ UNCHANGED <<rec, queued, timer, w, strategy>>
    BY <1>0, <1>7, <2>4, SpendType DEF JobCompletes, JobFails, JobExpires, TypeOK
  <2> QED
    BY <2>2, <2>3, <2>5 DEF TypeOK
<1> QED
  BY <1>2, <1>3, <1>4, <1>5, <1>6, <1>7

\* A call, and what is kept of its outcome.
LEMMA CallType ==
    ASSUME TypeOK, NEW o, Sound(o), Noted(o.id, o.data, o.ok), jobs' = o.jobs,
           UNCHANGED <<rec, queued, timer, content, strategy>>, left' \in Nat
    PROVE  TypeOK'
<1>1. w' \in Worker /\ w'.rec.id = o.id
  <2>1. /\ w \in Worker /\ o.id \in JobIds \cup {NoId} /\ o.data \in Values \cup {Nothing}
        /\ o.ok \in BOOLEAN
    BY DEF Sound, TypeOK
  <2> QED
    BY <2>1, NotedType
<1>2. Unused' \subseteq Unused
  BY DEF Sound, Unused
<1>3. o.id # NoId => o.id \notin Unused'
  BY DEF Sound, Unused
<1> QED
  BY <1>1, <1>2, <1>3 DEF TypeOK, Sound

\* Which operation is called for, and its outcome before Delete clears id and data.
LEMMA CallCases ==
    ASSUME TypeOK, CallCreate \/ CallUpdate \/ CallDelete
    PROVE  \E act \in {"create", "update", "delete"} :
             \E o \in Execute(act, w.rec.id, w.rec.val, w.rec.data) :
                /\ (act = "delete") = (w.rec.phase = "deleting")
                /\ w.pc = "call" /\ w.rec.phase \in {"live", "deleting"}
                /\ act = "create" => w.rec.id = NoId
                /\ act # "create" => w.rec.id # NoId
                /\ jobs' = o.jobs /\ UNCHANGED <<rec, queued, timer, content, strategy>>
                /\ left' \in Nat
                /\ IF o.ok = TRUE /\ act = "delete" THEN Noted(NoId, Nothing, TRUE)
                                                    ELSE Noted(o.id, o.data, o.ok)
<1>0. left \in Nat /\ w.rec.id \in JobIds \cup {NoId}
  BY DEF TypeOK, Worker, RecordObject
<1>1. CASE CallCreate
  <2>1. PICK o \in Execute("create", w.rec.id, w.rec.val, w.rec.data) :
           /\ Noted(o.id, o.data, o.ok) /\ jobs' = o.jobs
           /\ IF o.faulty THEN Spend("call") ELSE UNCHANGED left
    BY <1>1 DEF CallCreate, Call, Create
  <2>2. left' \in Nat
    BY <1>0, <2>1, SpendType
  <2> QED
    BY <1>1, <2>1, <2>2 DEF CallCreate, Call
<1>2. CASE CallUpdate
  <2>1. PICK o \in Execute("update", w.rec.id, w.rec.val, w.rec.data) :
           /\ Noted(o.id, o.data, o.ok) /\ jobs' = o.jobs
           /\ IF o.faulty THEN Spend("call") ELSE UNCHANGED left
    BY <1>2 DEF CallUpdate, Call, Update
  <2>2. left' \in Nat
    BY <1>0, <2>1, SpendType
  <2> QED
    BY <1>2, <2>1, <2>2 DEF CallUpdate, Call
<1>3. CASE CallDelete
  <2>1. PICK u \in Delete(w.rec) :
           /\ Noted(u.id, u.data, u.ok) /\ jobs' = u.jobs
           /\ IF u.faulty THEN Spend("call") ELSE UNCHANGED left
    BY <1>3 DEF CallDelete, Call
  <2>2. PICK o \in Execute("delete", w.rec.id, w.rec.val, w.rec.data) :
           u = IF o.ok THEN [o EXCEPT !.id = NoId, !.data = Nothing] ELSE o
    BY <2>1 DEF Delete
  <2>3. left' \in Nat
    BY <1>0, <2>1, SpendType
  <2>4. o.ok \in BOOLEAN
    BY CallIsSound DEF Sound
  <2>5. jobs' = o.jobs /\ IF o.ok = TRUE THEN Noted(NoId, Nothing, TRUE)
                                         ELSE Noted(o.id, o.data, o.ok)
    <3>1. o = Outcome(o.jobs, o.id, o.data, o.ok, o.faulty)
      BY OutcomeShape
    <3>2. CASE o.ok = TRUE
      <4>1. u.jobs = o.jobs /\ u.id = NoId /\ u.data = Nothing /\ u.ok = TRUE
        BY <2>2, <3>1, <3>2 DEF Outcome
      <4> QED
        BY <2>1, <3>2, <4>1
    <3>3. CASE o.ok = FALSE
      BY <2>1, <2>2, <3>3
    <3> QED
      BY <2>4, <3>2, <3>3
  <2> QED
    BY <1>3, <2>3, <2>5 DEF CallDelete, Call
<1> QED
  BY <1>1, <1>2, <1>3

LEMMA CallActionType ==
    ASSUME TypeOK, CallCreate \/ CallUpdate \/ CallDelete
    PROVE  TypeOK'
<1>1. PICK act \in {"create", "update", "delete"} :
        \E o \in Execute(act, w.rec.id, w.rec.val, w.rec.data) :
            /\ jobs' = o.jobs /\ UNCHANGED <<rec, queued, timer, content, strategy>>
            /\ left' \in Nat
            /\ IF o.ok = TRUE /\ act = "delete" THEN Noted(NoId, Nothing, TRUE)
                                                ELSE Noted(o.id, o.data, o.ok)
  BY CallCases
<1>2. PICK o \in Execute(act, w.rec.id, w.rec.val, w.rec.data) :
            /\ jobs' = o.jobs /\ UNCHANGED <<rec, queued, timer, content, strategy>>
            /\ left' \in Nat
            /\ IF o.ok = TRUE /\ act = "delete" THEN Noted(NoId, Nothing, TRUE)
                                                ELSE Noted(o.id, o.data, o.ok)
  BY <1>1
<1>3. Sound(o)
  BY CallIsSound
<1>4. CASE Noted(o.id, o.data, o.ok)
  BY <1>2, <1>3, <1>4, CallType
<1>5. CASE Noted(NoId, Nothing, TRUE)
  <2>1. w \in Worker
    BY DEF TypeOK
  <2>2. w' \in Worker /\ w'.rec.id = NoId
    BY <1>5, <2>1, NotedType
  <2>3. Unused' \subseteq Unused
    BY <1>2, <1>3 DEF Sound, Unused
  <2> QED
    BY <1>2, <1>3, <2>2, <2>3 DEF TypeOK, Sound
<1> QED
  BY <1>2, <1>4, <1>5

LEMMA ReconcileType ==
    ASSUME TypeOK, Reconcile
    PROVE  TypeOK'
<1>0. /\ w \in Worker /\ rec \in RecordObject /\ left \in Nat /\ w.rec \in RecordObject
      /\ w.ok \in BOOLEAN /\ timer \in BOOLEAN /\ queued \in BOOLEAN
  BY DEF TypeOK, Worker
<1>1. CASE Begin
  <2> DEFINE begun == [Idle EXCEPT !.pc = "call", !.rec = rec, !.fresh = TRUE]
  <2>1. begun \in Worker /\ begun.rec = rec
    BY <1>0, GoneTypes DEF Worker, Idle
  <2> HIDE DEF begun
  <2>2. w' \in {w, begun}
    BY <1>1 DEF Begin, begun
  <2>3. w' \in Worker /\ w'.rec \in {w.rec, rec}
    BY <1>0, <2>1, <2>2
  <2> QED
    BY <1>1, <2>3 DEF Begin, TypeOK, Unused
<1>2. CASE Skip
  <2>1. w.rec.data \in Values \cup {Nothing}
    BY <1>0 DEF RecordObject
  <2>2. w' \in Worker /\ w'.rec.id = NoId
    BY <1>0, <1>2, <2>1, NotedType DEF Skip
  <2> QED
    BY <1>2, <2>2 DEF Skip, TypeOK, Unused
<1>3. CASE CallCreate \/ CallUpdate \/ CallDelete
  BY <1>3, CallActionType
<1>4. CASE WriteStatus
  <2>1. rec' \in {rec, w.rec} /\ left' \in Nat /\ timer' \in BOOLEAN
    BY <1>0, <1>4, SpendType DEF WriteStatus
  <2>2. w' \in Worker /\ w'.rec \in {w.rec, Idle.rec}
    <3> DEFINE lost == w.ok /\ rec' # w.rec
    <3>1. [Idle EXCEPT !.lost = lost] \in Worker /\ [Idle EXCEPT !.lost = lost].rec = Idle.rec
      <4>1. lost \in BOOLEAN
        BY <1>0
      <4> HIDE DEF lost
      <4> QED
        BY <4>1, GoneTypes DEF Worker, Idle
    <3>2. w' \in {[w EXCEPT !.pc = "rmfin"], [Idle EXCEPT !.lost = lost]}
      BY <1>4 DEF WriteStatus
    <3> HIDE DEF lost
    <3> QED
      BY <1>0, <3>1, <3>2, WorkerTypes
  <2>3. rec' \in RecordObject /\ w' \in Worker
    BY <1>0, <2>1, <2>2
  <2>4. UNCHANGED <<queued, jobs, content, strategy>>
    BY <1>4 DEF WriteStatus
  <2> QED
    BY <2>1, <2>2, <2>3, <2>4, GoneTypes DEF TypeOK, Unused
<1>5. CASE RemoveFinalizer
  <2>1. rec' \in {rec, Gone} /\ left' \in Nat
    BY <1>0, <1>5, SpendType DEF RemoveFinalizer
  <2>2. w' \in Worker /\ w'.rec = Idle.rec
    <3> DEFINE lost == rec' # Gone
    <3>1. w' = [Idle EXCEPT !.lost = lost] /\ lost \in BOOLEAN
      BY <1>5 DEF RemoveFinalizer
    <3> HIDE DEF lost
    <3> QED
      BY <3>1, GoneTypes DEF Worker, Idle
  <2>3. rec' \in RecordObject /\ (rec'.id = rec.id \/ rec'.id = NoId)
    BY <1>0, <2>1, GoneTypes
  <2>4. UNCHANGED <<queued, timer, jobs, content, strategy>>
    BY <1>5 DEF RemoveFinalizer
  <2> QED
    BY <2>1, <2>2, <2>3, <2>4, GoneTypes DEF TypeOK, Unused
<1> QED
  BY <1>1, <1>2, <1>3, <1>4, <1>5 DEF Reconcile

LEMMA InitType == Init => TypeOK
<1> SUFFICES ASSUME Init
             PROVE  TypeOK
  OBVIOUS
<1>1. rec \in RecordObject /\ rec.id = NoId
  BY DEF Init, RecordObject
<1>2. NoJob \in Job
  BY DEF NoJob, Job
<1>3. jobs \in [JobIds -> Job]
  BY <1>2 DEF Init
<1> QED
  BY <1>1, <1>3, GoneTypes, JobAssumption DEF Init, TypeOK

LEMMA NextType == TypeOK /\ [Next]_vars => TypeOK'
<1> SUFFICES ASSUME TypeOK, [Next]_vars
             PROVE  TypeOK'
  OBVIOUS
<1>1. CASE Next
  BY <1>1, ReconcileType, OthersType DEF Next
<1>2. CASE UNCHANGED vars
  BY <1>2 DEF vars, TypeOK, Unused
<1> QED
  BY <1>1, <1>2

\* Every variable keeps its type, and the RecordID of the Record, and the one in the
\* worker's hands, is always the name of a Job that was made, whatever fails or is lost.
THEOREM JobTypes == Spec => []TypeOK
BY InitType, NextType, PTL DEF Spec

-----------------------------------------------------------------------------
(***************************************************************************)
(* While users wait for the Record to be ready: a Record that is gone has  *)
(* left nothing at the service, and one that is written as ready is        *)
(* published, whatever fails, expires or is lost on the way.               *)
(*                                                                         *)
(* Both rest on one fact, PublishInv: every Job that may still act, and    *)
(* every finished Job a call may poll, does what the Record asks for now.  *)
(* It is not true of impatient users: see DeletedByADeleteJob.             *)
(***************************************************************************)

\* What the service is to publish.
Goal == IF rec.phase = "live" THEN rec.val ELSE Nothing

Fits(job) == (job.act = "delete" <=> rec.phase # "live") /\ Effect(job) = Goal

\* A Job found by this name is for the Record of now, and its end is the end of the work.
Named(id, data) ==
    Found(id) => /\ Fits(jobs[id])
                 /\ jobs[id].state = "complete" => content = Goal
                 /\ strategy = "OnCreate" /\ rec.phase = "live" => data = rec.val

\* The Record as stored, or as read by the worker.
Copy(r) ==
    /\ r.val = rec.val /\ r.phase = rec.phase /\ Named(r.id, r.data)
    /\ r.phase = "deleting" /\ r.id = NoId => content = Nothing
    /\ strategy = "" => r.data = Nothing

AtRest(r) == ~Found(r.id) /\ (r.phase = "live" => r.id # NoId)

Achieved(r) ==
    /\ content = Goal /\ AtRest(r)
    /\ rec.phase = "live" => r.data = IF strategy = "" THEN Nothing ELSE rec.val

RunningFit == \A i \in JobIds : jobs[i].state = "running" => Fits(jobs[i])

\* What the worker has in hand.
Hand ==
    /\ w.pc # "idle" => Copy(w.rec) /\ rec.phase # "gone"
    /\ w.pc = "status" => (w.rec.all => w.ok) /\ (w.ok => Achieved(w.rec))
    /\ w.pc = "rmfin" => rec.phase = "deleting" /\ content = Nothing

PublishInv ==
    /\ Copy(rec) /\ RunningFit
    /\ rec.all => AtRest(rec)
    /\ rec.phase = "gone" => content = Nothing
    /\ Hand

\* A step that leaves the wish of the user alone: what it may do to a Job, and to the rest.
JobStep(i) ==
    \/ jobs'[i] = jobs[i]
    \/ jobs'[i].state = "gone"
    \/ jobs[i].state = "none" /\ jobs'[i].state = "running" /\ Fits(jobs'[i])
    \/ /\ jobs[i].state = "running" /\ jobs'[i].act = jobs[i].act /\ jobs'[i].val = jobs[i].val
       /\ jobs'[i].state = "failed" \/ (jobs'[i].state = "complete" /\ content' = Goal)

Work ==
    /\ rec'.phase = rec.phase /\ rec'.val = rec.val /\ strategy' = strategy
    /\ content' \in {content, Goal}
    /\ \A i \in JobIds : JobStep(i)

\* The id names a Job that was made.
Names(r) == r.id = NoId \/ (r.id \in JobIds /\ jobs[r.id].state # "none")

LEMMA GoalKept ==
    ASSUME Work
    PROVE  Goal' = Goal /\ \A job : Fits(job)' <=> Fits(job)
<1>1. Goal' = Goal
  BY DEF Work, Goal
<1> QED
  BY <1>1 DEF Work, Fits, Effect

LEMMA CopyKept ==
    ASSUME Work, NEW r, Names(r), Copy(r)
    PROVE  Copy(r)'
<1>1. Goal' = Goal /\ \A job : Fits(job)' <=> Fits(job)
  BY GoalKept
<1>2. Named(r.id, r.data)'
  <2>1. SUFFICES ASSUME Found(r.id)'
                 PROVE  /\ Fits(jobs[r.id])'
                        /\ (jobs[r.id].state = "complete")' => content' = Goal
                        /\ strategy = "OnCreate" /\ rec.phase = "live" => r.data = rec.val
    BY <1>1 DEF Named, Work
  <2>2. /\ r.id \in JobIds /\ r.id # NoId /\ jobs[r.id].state # "none" /\ JobStep(r.id)
        /\ jobs'[r.id].state \in {"running", "complete", "failed"}
    BY <2>1 DEF Found, Names, Work
  <2>3. Named(r.id, r.data)
    BY DEF Copy
  <2>4. CASE jobs'[r.id] = jobs[r.id]
    BY <1>1, <2>2, <2>3, <2>4 DEF Named, Found, Work
  <2>5. CASE /\ jobs[r.id].state = "running" /\ jobs'[r.id].act = jobs[r.id].act
             /\ jobs'[r.id].val = jobs[r.id].val
             /\ \/ jobs'[r.id].state = "failed"
                \/ jobs'[r.id].state = "complete" /\ content' = Goal
    <3>1. Fits(jobs[r.id]) /\ (strategy = "OnCreate" /\ rec.phase = "live" => r.data = rec.val)
      BY <2>2, <2>3, <2>5 DEF Named, Found
    <3>2. Fits(jobs[r.id])'
      BY <1>1, <2>5, <3>1 DEF Fits, Effect, Work
    <3> QED
      BY <2>5, <3>1, <3>2
  <2> QED
    BY <2>2, <2>4, <2>5 DEF JobStep
<1> QED
  BY <1>1, <1>2 DEF Copy, Work, Goal

LEMMA AtRestKept ==
    ASSUME Work, NEW r, Names(r), AtRest(r)
    PROVE  AtRest(r)'
<1>1. CASE r.id = NoId
  BY <1>1 DEF AtRest, Found
<1>2. CASE r.id # NoId
  <2>1. /\ r.id \in JobIds /\ jobs[r.id].state \notin {"none", "running", "complete", "failed"}
        /\ JobStep(r.id)
    BY <1>2 DEF Names, AtRest, Found, Work
  <2>2. jobs'[r.id].state \notin {"running", "complete", "failed"}
    BY <2>1 DEF JobStep
  <2> QED
    BY <1>2, <2>2 DEF AtRest, Found
<1> QED
  BY <1>1, <1>2

LEMMA AchievedKept ==
    ASSUME Work, NEW r, Names(r), Achieved(r)
    PROVE  Achieved(r)'
<1>1. AtRest(r)'
  BY AtRestKept DEF Achieved
<1>2. content' = Goal /\ Goal' = Goal
  BY GoalKept DEF Achieved, Work
<1> QED
  BY <1>1, <1>2 DEF Achieved, Work

LEMMA RunningFitKept ==
    ASSUME Work, RunningFit
    PROVE  RunningFit'
<1>1. \A job : Fits(job)' <=> Fits(job)
  BY GoalKept
<1> SUFFICES ASSUME NEW i \in JobIds, jobs'[i].state = "running"
             PROVE  Fits(jobs[i])'
  BY DEF RunningFit
<1>2. JobStep(i)
  BY DEF Work
<1>3. jobs'[i] = jobs[i] \/ Fits(jobs'[i])
  BY <1>2 DEF JobStep
<1> QED
  BY <1>1, <1>3 DEF RunningFit, Fits, Effect, Work, Goal


LEMMA WorkKeeps ==
    ASSUME TypeOK, PublishInv, Work, Hand',
           rec' = rec \/ (rec' = w.rec /\ w.pc = "status")
    PROVE  PublishInv'
<1>1. Names(rec) /\ Names(w.rec)
  BY DEF TypeOK, RecordObject, Worker, Names, Unused
<1>2. Copy(rec)' /\ (rec.all => AtRest(rec))'
  <2>1. PICK r \in {rec, w.rec} : r = rec' /\ Copy(r) /\ (r.all => AtRest(r))
    <3>1. CASE rec' = rec
      BY <3>1 DEF PublishInv, Hand
    <3>2. CASE rec' = w.rec /\ w.pc = "status"
      BY <3>2 DEF PublishInv, Hand, Achieved
    <3> QED
      BY <3>1, <3>2
  <2>2. Names(r)
    BY <1>1
  <2>3. Copy(r)'
    BY <2>1, <2>2, CopyKept
  <2>4. r.all => AtRest(r)'
    BY <2>1, <2>2, AtRestKept
  <2> QED
    BY <2>1, <2>3, <2>4 DEF Copy, AtRest, Named, Found
<1>3. RunningFit'
  BY RunningFitKept DEF PublishInv, Hand
<1>4. rec'.phase = "gone" => content' = Nothing
  BY DEF PublishInv, Hand, Work, Goal
<1> QED
  BY <1>2, <1>3, <1>4 DEF PublishInv, Hand

\* The worker goes on with what it had, or is idle.
LEMMA HandKept ==
    ASSUME TypeOK, PublishInv, Work,
           \/ w'.pc = "idle"
           \/ w'.pc = w.pc /\ w'.rec = w.rec /\ w'.ok = w.ok
    PROVE  Hand'
<1>1. CASE w'.pc = "idle"
  BY <1>1 DEF Hand
<1>2. CASE w'.pc = w.pc /\ w'.rec = w.rec /\ w'.ok = w.ok
  <2>1. Names(w.rec)
    BY DEF TypeOK, RecordObject, Worker, Names, Unused
  <2>2. PICK r : r = w.rec
    OBVIOUS
  <2>3. w'.pc # "idle" => Copy(r)' /\ rec'.phase # "gone"
    BY <1>2, <2>1, <2>2, CopyKept DEF PublishInv, Hand, Work
  <2>4. w'.pc = "status" => (r.all => w'.ok) /\ (w'.ok => Achieved(r)')
    BY <1>2, <2>1, <2>2, AchievedKept DEF PublishInv, Hand
  <2>5. w'.pc = "rmfin" => rec'.phase = "deleting" /\ content' = Nothing
    BY <1>2 DEF PublishInv, Hand, Work, Goal
  <2>6. r = w'.rec
    BY <1>2, <2>2
  <2> QED
    BY <2>3, <2>4, <2>5, <2>6 DEF Hand, Copy, Achieved, AtRest, Named, Found
<1> QED
  BY <1>1, <1>2

LEMMA SameIsWork ==
    ASSUME UNCHANGED <<rec, jobs, content, strategy>>
    PROVE  Work
BY DEF Work, JobStep

LEMMA OthersKeep ==
    ASSUME TypeOK, PublishInv, TouchRecord \/ Timer \/ Crash
    PROVE  PublishInv'
<1>1. UNCHANGED <<rec, jobs, content, strategy>>
  BY DEF TouchRecord, Timer, Crash
<1>2. w'.pc = "idle" \/ (w'.pc = w.pc /\ w'.rec = w.rec /\ w'.ok = w.ok)
  <2>1. w \in Worker
    BY DEF TypeOK
  <2>2. w' \in {w, Idle, [w EXCEPT !.fresh = FALSE]}
    BY DEF TouchRecord, Timer, Crash
  <2> QED
    BY <2>1, <2>2 DEF Worker, Idle
<1>3. Work
  BY <1>1, SameIsWork
<1> QED
  BY <1>1, <1>2, <1>3, HandKept, WorkKeeps

LEMMA JobsKeep ==
    ASSUME TypeOK, PublishInv, NEW i \in JobIds, JobCompletes(i) \/ JobFails(i) \/ JobExpires(i)
    PROVE  PublishInv'
<1>1. UNCHANGED <<rec, w, strategy>>
  BY DEF JobCompletes, JobFails, JobExpires
<1>2. \A j \in JobIds \ {i} : jobs'[j] = jobs[j]
  BY DEF JobCompletes, JobFails, JobExpires, TypeOK
<1>3. jobs \in [JobIds -> Job] /\ jobs[i] \in Job
  BY DEF TypeOK
<1>4. JobStep(i) /\ content' \in {content, Goal}
  <2>1. CASE JobExpires(i)
    <3>1. jobs'[i].state = "gone" /\ content' = content
      BY <1>3, <2>1 DEF JobExpires, Job
    <3> QED
      BY <3>1 DEF JobStep
  <2>2. CASE JobCompletes(i) \/ JobFails(i)
    <3>1. jobs[i].state = "running" /\ Effect(jobs[i]) = Goal
      BY <2>2 DEF JobCompletes, JobFails, PublishInv, Hand, RunningFit, Fits
    <3>2. \/ content' = Goal /\ jobs' = [jobs EXCEPT ![i].state = "complete"]
          \/ content' \in {content, Goal} /\ jobs' = [jobs EXCEPT ![i].state = "failed"]
      BY <2>2, <3>1 DEF JobCompletes, JobFails
    <3>3. /\ jobs'[i].act = jobs[i].act /\ jobs'[i].val = jobs[i].val
          /\ jobs'[i].state = "failed" \/ (jobs'[i].state = "complete" /\ content' = Goal)
      BY <1>3, <3>2 DEF Job
    <3> QED
      BY <3>1, <3>2, <3>3 DEF JobStep
  <2> QED
    BY <2>1, <2>2
<1>5. Work
  BY <1>1, <1>2, <1>4 DEF Work, JobStep
<1> QED
  BY <1>1, <1>5, HandKept, WorkKeeps

\* A user who waits acts when nothing runs, and the Record names no Job that is found.
LEMMA UsersKeep ==
    ASSUME Patient = TRUE, TypeOK, PublishInv, Edit \/ DeleteRecord
    PROVE  PublishInv'
<1>1. PICK kind, new : UserWrites(kind, new) /\ new.phase \in {"live", "deleting"}
                       /\ new.id = rec.id /\ new.data = rec.data /\ new.all = rec.all
  <2>1. rec \in RecordObject
    BY DEF TypeOK
  <2>2. CASE Edit
    <3>1. PICK v \in Values : UserWrites("edit", [rec EXCEPT !.val = v])
      BY <2>2 DEF Edit
    <3>2. rec.phase = "live"
      BY <3>1 DEF UserWrites
    <3> DEFINE new == [rec EXCEPT !.val = v]
    <3>3. /\ new.phase = "live" /\ new.id = rec.id /\ new.data = rec.data
          /\ new.all = rec.all
      BY <2>1, <3>2 DEF RecordObject
    <3> QED
      BY <3>1, <3>3
  <2>3. CASE DeleteRecord
    <3> DEFINE new == [rec EXCEPT !.phase = "deleting"]
    <3>1. /\ new.phase = "deleting" /\ new.id = rec.id /\ new.data = rec.data
          /\ new.all = rec.all
      BY <2>1 DEF RecordObject
    <3> QED
      BY <2>3, <3>1 DEF DeleteRecord
  <2> QED
    BY <2>2, <2>3
<1>2. /\ rec' = new /\ UNCHANGED <<jobs, content, strategy>> /\ rec.phase = "live"
      /\ Settled /\ w' = [w EXCEPT !.fresh = FALSE]
  BY <1>1 DEF UserWrites
<1>3. w'.pc = "idle"
  BY <1>2 DEF Settled, TypeOK, Worker
<1>4. AtRest(rec) /\ rec.id # NoId
  BY <1>2 DEF PublishInv, Hand, Settled, AtRest
<1>5. ~Found(rec.id)'
  BY <1>1, <1>2, <1>4 DEF AtRest, Found
<1>6. Copy(rec)'
  BY <1>1, <1>2, <1>4, <1>5 DEF Copy, Named, PublishInv, Hand
<1>7. RunningFit'
  BY <1>2 DEF RunningFit, Settled, Running
<1>8. (rec.all => AtRest(rec))'
  BY <1>1, <1>2, <1>4, <1>5 DEF AtRest
<1> QED
  BY <1>1, <1>2, <1>3, <1>6, <1>7, <1>8 DEF PublishInv, Hand

LEMMA BeginKeeps ==
    ASSUME TypeOK, PublishInv, Begin
    PROVE  PublishInv'
<1>1. UNCHANGED <<rec, jobs, content, strategy>> /\ w.pc = "idle"
  BY DEF Begin
<1>2. Work
  BY <1>1, SameIsWork
<1>3. CASE rec.phase = "gone"
  BY <1>1, <1>2, <1>3, HandKept, WorkKeeps DEF Begin
<1>4. CASE rec.phase # "gone"
  <2>1. w'.pc = "call" /\ w'.rec = rec
    BY <1>4 DEF Begin, Idle
  <2>2. Hand'
    BY <1>1, <1>4, <2>1 DEF Hand, PublishInv, Copy, Named, Found, Fits, Goal, Effect
  <2> QED
    BY <1>1, <1>2, <2>2, WorkKeeps
<1> QED
  BY <1>3, <1>4

\* A deletion with no RecordID calls nobody: nothing is published.
LEMMA SkipKeeps ==
    ASSUME TypeOK, PublishInv, Skip
    PROVE  PublishInv'
<1>1. UNCHANGED <<rec, jobs, content, strategy>>
  BY DEF Skip
<1>2. /\ w'.pc = "status" /\ w'.ok = TRUE /\ w'.rec.phase = w.rec.phase
      /\ w'.rec.val = w.rec.val /\ w'.rec.id = NoId /\ w'.rec.data = w.rec.data
  <2>1. w \in Worker /\ w.rec.data \in Values \cup {Nothing}
    BY DEF TypeOK, Worker, RecordObject
  <2> QED
    BY <2>1, NotedType DEF Skip
<1>3. w.rec.phase = "deleting" /\ w.rec.id = NoId /\ Copy(w.rec) /\ rec.phase = "deleting"
  BY DEF Skip, PublishInv, Hand, Copy
<1>4. content = Nothing
  BY <1>3 DEF Copy
<1>5. Copy(w.rec)' /\ Achieved(w.rec)'
  BY <1>1, <1>2, <1>3, <1>4 DEF Copy, Named, Found, Achieved, AtRest, Goal
<1>6. Hand'
  BY <1>1, <1>2, <1>3, <1>5 DEF Hand
<1> QED
  BY <1>1, <1>6, SameIsWork, WorkKeeps

LEMMA WriteStatusKeeps ==
    ASSUME TypeOK, PublishInv, WriteStatus
    PROVE  PublishInv'
<1>1. /\ w.pc = "status" /\ UNCHANGED <<jobs, content, strategy>>
      /\ rec' = rec \/ (rec' = w.rec /\ w.pc = "status")
  BY DEF WriteStatus
<1>2. Copy(w.rec) /\ rec.phase # "gone" /\ (w.ok => Achieved(w.rec))
  BY <1>1 DEF PublishInv, Hand
<1>3. rec'.phase = rec.phase /\ rec'.val = rec.val
  BY <1>1, <1>2 DEF Copy
<1>4. Work
  BY <1>1, <1>3 DEF Work, JobStep
<1>5. CASE w'.pc = "idle"
  BY <1>1, <1>4, <1>5, HandKept, WorkKeeps
<1>6. CASE w'.pc # "idle"
  <2>1. w.ok /\ w.rec.phase = "deleting" /\ w' = [w EXCEPT !.pc = "rmfin"]
    BY <1>6 DEF WriteStatus, Idle
  <2>2. w'.pc = "rmfin" /\ w'.rec = w.rec
    BY <2>1 DEF TypeOK, Worker
  <2>3. Names(w.rec)
    BY DEF TypeOK, RecordObject, Worker, Names, Unused
  <2>4. PICK r : r = w.rec
    OBVIOUS
  <2>5. Copy(r)' /\ r = w'.rec
    BY <1>2, <1>4, <2>2, <2>3, <2>4, CopyKept
  <2>6. Copy(w.rec)'
    BY <2>5 DEF Copy, Named, Found
  <2>7. content = Nothing /\ rec.phase = "deleting"
    BY <1>2, <2>1 DEF Achieved, Goal, Copy
  <2>8. Hand'
    BY <1>1, <1>3, <2>2, <2>6, <2>7 DEF Hand
  <2> QED
    BY <1>1, <1>4, <2>8, WorkKeeps
<1> QED
  BY <1>5, <1>6

\* The Record goes when the service publishes nothing for it and only deletions run.
LEMMA RemoveFinalizerKeeps ==
    ASSUME TypeOK, PublishInv, RemoveFinalizer
    PROVE  PublishInv'
<1>1. /\ w.pc = "rmfin" /\ w'.pc = "idle" /\ UNCHANGED <<jobs, content, strategy>>
      /\ rec' \in {rec, Gone}
  BY DEF RemoveFinalizer, Idle
<1>2. rec.phase = "deleting" /\ content = Nothing
  BY <1>1 DEF PublishInv, Hand
<1>3. CASE rec' = rec
  BY <1>1, <1>3, SameIsWork, HandKept, WorkKeeps
<1>4. CASE rec' = Gone
  <2>1. /\ rec'.phase = "gone" /\ rec'.id = NoId /\ rec'.data = Nothing
        /\ rec'.all = FALSE
    BY <1>4 DEF Gone
  <2>2. Copy(rec)'
    BY <1>1, <2>1 DEF Copy, Named, Found
  <2>3. Goal = Nothing /\ Goal' = Nothing
    BY <1>2, <2>1 DEF Goal
  <2>4. RunningFit'
    BY <1>1, <1>2, <2>1, <2>3 DEF PublishInv, Hand, RunningFit, Fits, Effect
  <2> QED
    BY <1>1, <1>2, <2>1, <2>2, <2>4 DEF PublishInv, Hand
<1> QED
  BY <1>1, <1>3, <1>4

\* What has to be true of what is noted of a call.
Noteworthy(id, data, ok) ==
    /\ Named(id, data)
    /\ rec.phase = "deleting" /\ id = NoId => content = Nothing
    /\ strategy = "" => data = Nothing
    /\ ok => /\ content = Goal /\ ~Found(id)
             /\ rec.phase = "live" =>
                  id # NoId /\ data = IF strategy = "" THEN Nothing ELSE rec.val

LEMMA NotedKeeps ==
    ASSUME TypeOK, PublishInv, Work, UNCHANGED <<rec, content, strategy>>, w.pc = "call",
           NEW id \in JobIds \cup {NoId}, NEW data \in Values \cup {Nothing},
           NEW ok \in BOOLEAN, Noted(id, data, ok), Noteworthy(id, data, ok)'
    PROVE  PublishInv'
<1>1. w \in Worker /\ Copy(w.rec) /\ rec.phase # "gone"
  BY DEF TypeOK, PublishInv, Hand
<1>2. /\ w'.pc = "status" /\ w'.ok = ok /\ w'.rec.phase = w.rec.phase
      /\ w'.rec.val = w.rec.val /\ w'.rec.id = id /\ w'.rec.data = data /\ w'.rec.all = ok
  BY <1>1, NotedType
<1>3. w'.rec.phase = rec.phase /\ w'.rec.val = rec.val
  BY <1>1, <1>2 DEF Copy
<1>4. Copy(w.rec)'
  BY <1>2, <1>3 DEF Noteworthy, Copy, Named, Found
<1>5. (w.ok => Achieved(w.rec))'
  BY <1>2, <1>3 DEF Noteworthy, Achieved, AtRest, Found
<1>6. Hand'
  BY <1>1, <1>2, <1>4, <1>5 DEF Hand
<1> QED
  BY <1>6, WorkKeeps

LEMMA CallKeeps ==
    ASSUME TypeOK, PublishInv, CallCreate \/ CallUpdate \/ CallDelete
    PROVE  PublishInv'
<1>0. PICK id, val, data : id = w.rec.id /\ val = w.rec.val /\ data = w.rec.data
  OBVIOUS
<1>1. PICK act \in {"create", "update", "delete"} :
        \E o \in Execute(act, id, val, data) :
            /\ (act = "delete") = (w.rec.phase = "deleting")
            /\ w.pc = "call" /\ w.rec.phase \in {"live", "deleting"}
            /\ jobs' = o.jobs /\ UNCHANGED <<rec, queued, timer, content, strategy>>
            /\ IF o.ok = TRUE /\ act = "delete" THEN Noted(NoId, Nothing, TRUE)
                                                ELSE Noted(o.id, o.data, o.ok)
  BY <1>0, CallCases
<1>2. PICK o \in Execute(act, id, val, data) :
            /\ (act = "delete") = (w.rec.phase = "deleting")
            /\ w.pc = "call" /\ w.rec.phase \in {"live", "deleting"}
            /\ jobs' = o.jobs /\ UNCHANGED <<rec, queued, timer, content, strategy>>
            /\ IF o.ok = TRUE /\ act = "delete" THEN Noted(NoId, Nothing, TRUE)
                                                ELSE Noted(o.id, o.data, o.ok)
  BY <1>1
<1>3. /\ id \in JobIds \cup {NoId} /\ val \in Values /\ data \in Values \cup {Nothing}
      /\ id # NoId => jobs[id].state # "none"
      /\ jobs \in [JobIds -> Job]
      /\ strategy \in {"", "OnCreate", "OnComplete", "OnCompleteOrFailed"}
  BY <1>0, JobAssumption DEF TypeOK, Worker, RecordObject, Unused
<1>4. /\ Copy(w.rec) /\ rec.phase \in {"live", "deleting"} /\ val = rec.val
      /\ act = "delete" <=> rec.phase # "live"
  BY <1>0, <1>2 DEF PublishInv, Hand, Copy
<1>5. /\ Named(id, data) /\ (strategy = "" => data = Nothing)
      /\ rec.phase = "deleting" /\ id = NoId => content = Nothing
  BY <1>0, <1>4 DEF Copy
<1>6. Sound(o)
  BY <1>0, CallIsSound
<1>7. \/ Starts(o, act, id, val, data) \/ Waits(o, id, data)
      \/ Finishes(o, id, val, data) \/ Fails(o, id, val, data)
  BY ExecuteCases
<1>8. rec.phase = "live" => Goal = val
  BY <1>4 DEF Goal
<1>9. rec.phase # "live" => Goal = Nothing
  BY DEF Goal
<1>10. ASSUME Unused # {}
       PROVE  /\ NewId \in JobIds /\ NewId # NoId /\ jobs[NewId].state = "none"
              /\ Made(act, val)[NewId].state = "running" /\ Fits(Made(act, val)[NewId])
              /\ \A i \in JobIds \ {NewId} : Made(act, val)[i] = jobs[i]
  <2>1. /\ Made(act, val)[NewId] = [state |-> "running", act |-> act, val |-> val]
        /\ \A i \in JobIds \ {NewId} : Made(act, val)[i] = jobs[i]
    BY <1>3, <1>10, MadeType
  <2>2. Made(act, val)[NewId].state = "running" /\ Fits(Made(act, val)[NewId])
    BY <1>4, <1>8, <1>9, <2>1 DEF Fits, Effect
  <2> QED
    BY <1>10, <2>1, <2>2, NewIdUnused
<1>11. Work
  <2>1. \A i \in JobIds : JobStep(i)
    <3>1. CASE o.jobs = jobs
      BY <1>2, <3>1 DEF JobStep
    <3>2. CASE Unused # {} /\ o.jobs = Made(act, val)
      BY <1>2, <1>10, <3>2 DEF JobStep
    <3>3. CASE id \in JobIds /\ o.jobs = GoneJob(id)
      <4>1. /\ GoneJob(id)[id].state = "gone"
            /\ \A i \in JobIds \ {id} : GoneJob(id)[i] = jobs[i]
        BY <1>3, <3>3, GoneType DEF GoneJob
      <4> QED
        BY <1>2, <3>3, <4>1 DEF JobStep
    <3> QED
      BY <1>3, <1>7, <3>1, <3>2, <3>3 DEF Starts, Waits, Finishes, Fails, Found
  <2> QED
    BY <1>2, <2>1 DEF Work
<1>12. Goal' = Goal /\ \A job : Fits(job)' <=> Fits(job)
  BY <1>11, GoalKept
\* It names nothing found, and what was published is as it was.
<1>13. ASSUME NEW i, ~Found(i)', NEW d, strategy = "" => d = Nothing,
              rec.phase = "deleting" /\ i = NoId => content = Nothing
       PROVE  Noteworthy(i, d, FALSE)'
  BY <1>2, <1>13 DEF Noteworthy, Named
\* It names what it named, and the data is as it was.
<1>14. Noteworthy(id, data, FALSE)'
  <2>1. PICK r : r = w.rec
    OBVIOUS
  <2>2. Names(r) /\ Copy(r)
    BY <1>0, <1>3, <1>4, <2>1 DEF Names
  <2>3. Copy(r)' /\ r.id = id /\ r.data = data
    BY <1>0, <1>11, <2>1, <2>2, CopyKept
  <2> QED
    BY <1>2, <1>5, <2>3 DEF Copy, Noteworthy
<1>15. \/ Noteworthy(o.id, o.data, o.ok)' /\ (o.ok = FALSE \/ act # "delete")
       \/ Noteworthy(NoId, Nothing, TRUE)' /\ o.ok = TRUE /\ act = "delete"
  <2>1. CASE Starts(o, act, id, val, data)
    <3>1. CASE o.id = id /\ o.data = data
      BY <1>14, <2>1, <3>1 DEF Starts
    <3>2. CASE /\ o.jobs = Made(act, val) /\ o.id = NewId
               /\ o.data = Rendered({"OnCreate"}, val, data)
      <4>1. Unused # {} /\ o.ok = FALSE
        BY <2>1 DEF Starts
      <4>2. o.id # NoId /\ jobs'[o.id].state = "running" /\ Fits(jobs'[o.id])
        BY <1>2, <1>10, <3>2, <4>1
      <4>3. Named(o.id, o.data)'
        <5>1. Fits(jobs[o.id])'
          BY <1>2, <1>12, <4>2 DEF Fits, Effect
        <5>2. strategy = "OnCreate" /\ rec.phase = "live" => o.data = rec.val
          BY <1>4, <3>2 DEF Rendered
        <5> QED
          BY <1>2, <4>2, <5>1, <5>2 DEF Named
      <4>4. strategy = "" => o.data = Nothing
        BY <1>5, <3>2 DEF Rendered
      <4> QED
        BY <1>2, <4>1, <4>2, <4>3, <4>4 DEF Noteworthy
    <3> QED
      BY <2>1, <3>1, <3>2 DEF Starts
  <2>2. CASE Waits(o, id, data)
    BY <1>14, <2>2 DEF Waits
  <2>3. CASE Finishes(o, id, val, data) /\ o.ok = FALSE
    BY <1>14, <2>3 DEF Finishes
  <2>4. CASE Finishes(o, id, val, data) /\ o.ok = TRUE
    <3>1. /\ o.id = id /\ id # NoId /\ id \in JobIds /\ o.jobs = GoneJob(id)
          /\ o.data = Rendered({"OnComplete", "OnCompleteOrFailed"}, val, data)
      BY <1>3, <2>4 DEF Finishes, Found
    <3>2. jobs'[id].state = "gone"
      BY <1>2, <1>3, <3>1, GoneType DEF GoneJob
    <3>3. content = Goal /\ (strategy = "OnCreate" /\ rec.phase = "live" => data = rec.val)
      BY <1>5, <2>4 DEF Finishes, Named
    <3>4. CASE act = "delete"
      <4>1. content = Nothing
        BY <1>4, <1>9, <3>3, <3>4
      <4> QED
        BY <1>2, <1>4, <1>12, <2>4, <3>3, <3>4, <4>1 DEF Noteworthy, Named, Found
    <3>5. CASE act # "delete"
      <4>1. ~Found(o.id)'
        BY <3>1, <3>2 DEF Found
      <4>2. o.data = IF strategy = "" THEN Nothing ELSE rec.val
        BY <1>3, <1>4, <1>5, <3>1, <3>3, <3>5 DEF Rendered
      <4> QED
        BY <1>2, <1>4, <1>12, <2>4, <3>1, <3>3, <3>5, <4>1, <4>2 DEF Noteworthy, Named
    <3> QED
      BY <3>4, <3>5
  <2>5. CASE Fails(o, id, val, data)
    <3>1. /\ id # NoId /\ jobs[id].state = "failed" /\ o.jobs = jobs /\ o.ok = FALSE
          /\ o.id = IF jobs[id].act = "create" THEN NoId ELSE id
          /\ o.data = Rendered({"OnCompleteOrFailed"}, val, data)
      BY <2>5 DEF Fails, Found
    <3>2. Fits(jobs[id]) /\ (strategy = "OnCreate" /\ rec.phase = "live" => data = rec.val)
      BY <1>5, <2>5 DEF Fails, Named
    <3>3. /\ strategy = "" => o.data = Nothing
          /\ strategy = "OnCreate" /\ rec.phase = "live" => o.data = rec.val
      BY <1>5, <3>1, <3>2 DEF Rendered
    <3>4. CASE jobs[id].act = "create"
      <4>1. rec.phase = "live" /\ o.id = NoId
        BY <1>4, <3>1, <3>2, <3>4 DEF Fits
      <4>2. ~Found(o.id)'
        BY <4>1 DEF Found
      <4> QED
        BY <1>13, <3>1, <3>3, <4>1, <4>2
    <3>5. CASE jobs[id].act # "create"
      <4>1. o.id = id /\ jobs' = jobs
        BY <1>2, <3>1, <3>5
      <4>2. Fits(jobs[o.id])'
        BY <1>2, <3>2, <4>1 DEF Fits, Effect, Goal
      <4>3. Named(o.id, o.data)'
        BY <1>2, <3>1, <3>3, <4>1, <4>2 DEF Named
      <4> QED
        BY <1>2, <3>1, <3>3, <4>1, <4>3 DEF Noteworthy
    <3> QED
      BY <3>4, <3>5
  <2> QED
    BY <1>6, <1>7, <2>1, <2>2, <2>3, <2>4, <2>5 DEF Sound
<1>16. /\ o.id \in JobIds \cup {NoId} /\ o.data \in Values \cup {Nothing} /\ o.ok \in BOOLEAN
  BY <1>6 DEF Sound
<1>17. UNCHANGED <<rec, content, strategy>> /\ w.pc = "call"
  BY <1>2
<1>18. CASE Noteworthy(o.id, o.data, o.ok)' /\ (o.ok = FALSE \/ act # "delete")
  <2>1. Noted(o.id, o.data, o.ok)
    BY <1>2, <1>18
  <2> QED
    BY <1>11, <1>16, <1>17, <1>18, <2>1, NotedKeeps
<1>19. CASE Noteworthy(NoId, Nothing, TRUE)' /\ o.ok = TRUE /\ act = "delete"
  <2>1. Noted(NoId, Nothing, TRUE)
    BY <1>2, <1>19
  <2> QED
    BY <1>11, <1>17, <1>19, <2>1, NotedKeeps
<1> QED
  BY <1>15, <1>18, <1>19

LEMMA InitPublish == Init => PublishInv
<1> SUFFICES ASSUME Init
             PROVE  PublishInv
  OBVIOUS
<1>1. /\ rec.phase = "live" /\ rec.id = NoId /\ rec.data = Nothing /\ rec.all = FALSE
      /\ w.pc = "idle"
  BY DEF Init, Idle
<1>2. Copy(rec)
  BY <1>1 DEF Copy, Named, Found
<1>3. RunningFit
  BY DEF Init, RunningFit, NoJob
<1> QED
  BY <1>1, <1>2, <1>3 DEF PublishInv, Hand

LEMMA NextPublish ==
    ASSUME Patient = TRUE, TypeOK, PublishInv, [Next]_vars
    PROVE  PublishInv'
<1>1. CASE Next
  BY <1>1, BeginKeeps, SkipKeeps, CallKeeps, WriteStatusKeeps, RemoveFinalizerKeeps,
     UsersKeep, OthersKeep, JobsKeep DEF Next, Reconcile
<1>2. CASE UNCHANGED vars
  <2>1. UNCHANGED <<rec, jobs, content, strategy>> /\ w' = w
    BY <1>2 DEF vars
  <2> QED
    BY <2>1, SameIsWork, HandKept, WorkKeeps
<1> QED
  BY <1>1, <1>2

LEMMA PublishInvariant ==
    ASSUME Patient = TRUE
    PROVE  Spec => [](TypeOK /\ PublishInv)
<1>1. Init => TypeOK /\ PublishInv
  BY InitType, InitPublish
<1>2. TypeOK /\ PublishInv /\ [Next]_vars => (TypeOK /\ PublishInv)'
  BY NextType, NextPublish
<1> QED
  BY <1>1, <1>2, PTL DEF Spec

\* A Record that is gone has left nothing at the service, however often Jobs failed, expired
\* or were lost with their names (executeJob, and RemoveFinalizer last): if users wait.
THEOREM GoneIsClean ==
    ASSUME Patient = TRUE
    PROVE  Spec => []GoneLeavesNothing
<1>1. PublishInv => GoneLeavesNothing
  BY DEF PublishInv, Hand, GoneLeavesNothing
<1> QED
  BY <1>1, PublishInvariant, PTL

\* When a live Record is written as ready, the service publishes its spec, and the data it
\* carries was rendered from that spec, under every dataUpdateStrategy: if users wait.
THEOREM ReadyIsPublished ==
    ASSUME Patient = TRUE
    PROVE  Spec => ReadyMeansPublished
<1>1. ASSUME TypeOK, PublishInv, [Next]_vars
      PROVE  [/\ WriteStatus /\ rec' # rec /\ rec'.all /\ rec'.phase = "live"
              => /\ content = rec'.val
                 /\ rec'.data = IF strategy = "" THEN Nothing ELSE rec'.val]_vars
  <2> SUFFICES ASSUME WriteStatus, rec' # rec, rec'.all, rec'.phase = "live"
               PROVE  /\ content = rec'.val
                      /\ rec'.data = IF strategy = "" THEN Nothing ELSE rec'.val
    OBVIOUS
  <2>1. w.pc = "status" /\ rec' = w.rec
    BY DEF WriteStatus
  <2>2. Copy(w.rec) /\ Achieved(w.rec)
    BY <1>1, <2>1 DEF PublishInv, Hand
  <2> QED
    BY <2>1, <2>2 DEF Achieved, Goal, Copy
<1> QED
  BY <1>1, PublishInvariant, PTL DEF ReadyMeansPublished, Spec
=============================================================================
