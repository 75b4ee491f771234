---------------------------- MODULE JobProvider ----------------------------
(***************************************************************************)
(* The Job provider (internal/controller/dns/provider/job/job.go) and the  *)
(* part of the Record controller that calls it: one Record with its        *)
(* finalizer, selected by one ready provider of type JOB.                  *)
(*                                                                         *)
(* A DNS operation is a Kubernetes Job.  The call that starts it reports   *)
(* "job is running", keeps the Job's name as the RecordID, and later calls *)
(* poll that Job, whatever operation they ask for.  The name of a Job is a *)
(* number; what a Job does to the service is external.                     *)
(* What a lagging cache of Records does is in DnsSync, not here.           *)
(***************************************************************************)
EXTENDS Integers, FiniteSets

CONSTANTS
    Values,             \* contents (name, type, value) the Record may ask for
    Nothing,            \* nothing published, no data
    Strategies,         \* the dataUpdateStrategy of the provider: one of these
    MaxJobs,            \* bound: how many Jobs are ever created
    Patient,            \* do users wait until the Record is ready and no Job runs?
    Disturbances,       \* the kinds of disturbance of this instance
    MaxDisturbances     \* how many happen in a run, of all kinds together

DisturbanceKinds ==
    {"edit", "delete",  \* a user changes the Record's spec, deletes the Record
     "crash",           \* the manager restarts
     "fail",            \* a Job fails
     "expire",          \* a finished Job is removed: ttlSecondsAfterFinished, a user
     "call",            \* the request to create or delete a Job, or its response, is lost
     "touch",           \* somebody else writes the Record: its annotations, say
     "status"}          \* the write of the status, or of the finalizer, fails

ASSUME JobAssumption ==
    /\ Values # {} /\ Nothing \notin Values
    /\ Strategies \subseteq {"", "OnCreate", "OnComplete", "OnCompleteOrFailed"}
    /\ MaxJobs \in Nat /\ Patient \in BOOLEAN
    /\ Disturbances \subseteq DisturbanceKinds /\ MaxDisturbances \in Nat

VARIABLES
    rec,        \* the Record as stored; all is status.allReady
    queued,     \* is it in the work queue
    timer,      \* is its RequeueAfter running
    w,          \* the Record controller's worker; lost is history: it ended in success
                \* and what it had to write was not written
    jobs,       \* the Jobs
    content,    \* what the service publishes for the Record
    strategy,   \* dataUpdateStrategy
    left        \* disturbances still allowed

vars == <<rec, queued, timer, w, jobs, content, strategy, left>>

\* No RecordID.
NoId == 0

JobIds == 1..MaxJobs

NoJob == [state |-> "none", act |-> "", val |-> Nothing]

Unused == {i \in JobIds : jobs[i].state = "none"}

Running == {i \in JobIds : jobs[i].state = "running"}

\* Jobs cli.Get finds.
Found(id) == id # NoId /\ jobs[id].state \in {"running", "complete", "failed"}

Gone == [phase |-> "gone", val |-> CHOOSE v \in Values : TRUE, id |-> NoId,
         data |-> Nothing, all |-> FALSE]

Idle == [pc |-> "idle", rec |-> Gone, fresh |-> FALSE, ok |-> FALSE, lost |-> FALSE]

Spend(kind) == kind \in Disturbances /\ left > 0 /\ left' = left - 1

Init ==
    /\ \E v \in Values :
         rec = [phase |-> "live", val |-> v, id |-> NoId, data |-> Nothing, all |-> FALSE]
    /\ queued = TRUE /\ timer = FALSE /\ w = Idle
    /\ jobs = [i \in JobIds |-> NoJob] /\ content = Nothing
    /\ strategy \in Strategies /\ left = MaxDisturbances

-----------------------------------------------------------------------------
(***************************************************************************)
(* executeJob: the set of outcomes [jobs, id, data, ok, faulty]            *)
(***************************************************************************)

Outcome(js, id, data, ok, faulty) ==
    [jobs |-> js, id |-> id, data |-> data, ok |-> ok, faulty |-> faulty]

\* The data is rendered from the spec of now.
Rendered(when, val, data) == IF strategy \in when THEN val ELSE data

\* A Job that is complete is deleted, and the data kept only if that succeeds.
Finished(id, val, data) ==
    LET gone == [jobs EXCEPT ![id].state = "gone"]
    IN {Outcome(gone, id, Rendered({"OnComplete", "OnCompleteOrFailed"}, val, data), TRUE, FALSE),
        Outcome(gone, id, data, FALSE, TRUE), Outcome(jobs, id, data, FALSE, TRUE)}

\* Slip: the name of every Job that failed is dropped.
FailedDrops(id, val, data) ==
    {Outcome(jobs, NoId, Rendered({"OnCompleteOrFailed"}, val, data), FALSE, FALSE)}

\* Slip: the name of a Job that failed is never dropped.
FailedKeeps(id, val, data) ==
    {Outcome(jobs, id, Rendered({"OnCompleteOrFailed"}, val, data), FALSE, FALSE)}

\* A Job that failed stays; its name is dropped only if it was to create the entry.
Failed(id, val, data) ==
    {Outcome(jobs, IF jobs[id].act = "create" THEN NoId ELSE id,
             Rendered({"OnCompleteOrFailed"}, val, data), FALSE, FALSE)}

NewId == CHOOSE i \in Unused : TRUE

Made(act, val) == [jobs EXCEPT ![NewId] = [state |-> "running", act |-> act, val |-> val]]

\* Slip: the name is kept before it is known that the Job was created.
StartedEarly(act, id, val, data) ==
    {Outcome(js, NewId, data, FALSE, js = jobs) : js \in {Made(act, val), jobs}}

\* No Job of that name: a new one is made and its name kept.  (Unused bounds the model.)
Started(act, id, val, data) ==
    IF Unused = {} THEN {}
    ELSE {Outcome(Made(act, val), NewId, Rendered({"OnCreate"}, val, data), FALSE, FALSE),
          Outcome(Made(act, val), id, data, FALSE, TRUE), Outcome(jobs, id, data, FALSE, TRUE)}

\* Slip: the type of the condition is not looked at.
ExecuteAnyEnd(act, id, val, data) ==
    IF ~Found(id) THEN Started(act, id, val, data)
    ELSE IF jobs[id].state = "running" THEN {Outcome(jobs, id, data, FALSE, FALSE)}
    ELSE Finished(id, val, data)

Execute(act, id, val, data) ==
    IF ~Found(id) THEN Started(act, id, val, data)
    ELSE CASE jobs[id].state = "running"  -> {Outcome(jobs, id, data, FALSE, FALSE)}
           [] jobs[id].state = "complete" -> Finished(id, val, data)
           [] jobs[id].state = "failed"   -> Failed(id, val, data)

Create(r) == Execute("create", r.id, r.val, r.data)

Update(r) == Execute("update", r.id, r.val, r.data)

\* A deletion that succeeds leaves neither id nor data.
Delete(r) ==
    {IF o.ok THEN [o EXCEPT !.id = NoId, !.data = Nothing] ELSE o :
        o \in Execute("delete", r.id, r.val, r.data)}

-----------------------------------------------------------------------------
(***************************************************************************)
(* Users, Jobs, timers, restarts                                           *)
(***************************************************************************)

Settled == rec.all /\ ~queued /\ w.pc = "idle" /\ Running = {}

UserWrites(kind, new) ==
    /\ rec.phase = "live" /\ (Patient => Settled) /\ Spend(kind)
    /\ rec' = new /\ queued' = TRUE /\ w' = [w EXCEPT !.fresh = FALSE]
    /\ UNCHANGED <<timer, jobs, content, strategy>>

Edit == \E v \in Values \ {rec.val} : UserWrites("edit", [rec EXCEPT !.val = v])

DeleteRecord == UserWrites("delete", [rec EXCEPT !.phase = "deleting"])

\* The filter lets no event of it through.
TouchRecord ==
    /\ rec.phase # "gone" /\ Spend("touch") /\ w' = [w EXCEPT !.fresh = FALSE]
    /\ UNCHANGED <<rec, queued, timer, jobs, content, strategy>>

Effect(job) == IF job.act = "delete" THEN Nothing ELSE job.val

JobCompletes(i) ==
    /\ jobs[i].state = "running"
    /\ jobs' = [jobs EXCEPT ![i].state = "complete"] /\ content' = Effect(jobs[i])
    /\ UNCHANGED <<rec, queued, timer, w, strategy, left>>

\* A Job that fails may have done its work.
JobFails(i) ==
    /\ jobs[i].state = "running" /\ Spend("fail")
    /\ jobs' = [jobs EXCEPT ![i].state = "failed"] /\ content' \in {content, Effect(jobs[i])}
    /\ UNCHANGED <<rec, queued, timer, w, strategy>>

JobExpires(i) ==
    /\ jobs[i].state \in {"complete", "failed"} /\ Spend("expire")
    /\ jobs' = [jobs EXCEPT ![i].state = "gone"]
    /\ UNCHANGED <<rec, queued, timer, w, content, strategy>>

Timer ==
    /\ timer /\ timer' = FALSE /\ queued' = TRUE
    /\ UNCHANGED <<rec, w, jobs, content, strategy, left>>

Crash ==
    /\ Spend("crash")
    /\ w' = Idle /\ queued' = (rec.phase # "gone") /\ timer' = FALSE
    /\ UNCHANGED <<rec, jobs, content, strategy>>

-----------------------------------------------------------------------------
(***************************************************************************)
(* The Record controller                                                   *)
(***************************************************************************)

Begin ==
    /\ queued /\ w.pc = "idle" /\ queued' = FALSE
    /\ w' = IF rec.phase = "gone" THEN w
            ELSE [Idle EXCEPT !.pc = "call", !.rec = rec, !.fresh = TRUE]
    /\ UNCHANGED <<rec, timer, jobs, content, strategy, left>>

Noted(id, data, ok) ==
    w' = [w EXCEPT !.pc = "status", !.rec.id = id, !.rec.data = data, !.rec.all = ok,
                   !.ok = ok]

Skip ==
    /\ w.pc = "call" /\ w.rec.phase = "deleting" /\ w.rec.id = NoId
    /\ Noted(NoId, w.rec.data, TRUE)
    /\ UNCHANGED <<rec, queued, timer, jobs, content, strategy, left>>

Call(outcomes) ==
    /\ w.pc = "call"
    /\ \E o \in outcomes :
         /\ Noted(o.id, o.data, o.ok) /\ jobs' = o.jobs
         /\ IF o.faulty THEN Spend("call") ELSE UNCHANGED left
    /\ UNCHANGED <<rec, queued, timer, content, strategy>>

CallCreate == w.rec.phase = "live" /\ w.rec.id = NoId /\ Call(Create(w.rec))

CallUpdate == w.rec.phase = "live" /\ w.rec.id # NoId /\ Call(Update(w.rec))

CallDelete == w.rec.phase = "deleting" /\ w.rec.id # NoId /\ Call(Delete(w.rec))

\* A write that fails or is refused is logged.  Not all ready: again in a while.
WriteStatus ==
    /\ w.pc = "status"
    /\ \/ w.fresh /\ rec' = w.rec /\ UNCHANGED left
       \/ ~w.fresh /\ UNCHANGED <<rec, left>>
       \/ Spend("status") /\ UNCHANGED rec
    /\ timer' = (timer \/ ~w.ok)
    /\ w' = IF w.ok /\ w.rec.phase = "deleting" THEN [w EXCEPT !.pc = "rmfin"]
            ELSE [Idle EXCEPT !.lost = w.ok /\ rec' # w.rec]
    /\ UNCHANGED <<queued, jobs, content, strategy>>

RemoveFinalizer ==
    /\ w.pc = "rmfin"
    /\ \/ w.fresh /\ rec' = Gone /\ UNCHANGED left
       \/ ~w.fresh /\ UNCHANGED <<rec, left>>
       \/ Spend("status") /\ UNCHANGED rec
    /\ w' = [Idle EXCEPT !.lost = rec' # Gone]
    /\ UNCHANGED <<queued, timer, jobs, content, strategy>>

Reconcile ==
    Begin \/ Skip \/ CallCreate \/ CallUpdate \/ CallDelete \/ WriteStatus \/ RemoveFinalizer

Next ==
    \/ Reconcile \/ Edit \/ DeleteRecord \/ TouchRecord \/ Timer \/ Crash
    \/ \E i \in JobIds : JobCompletes(i) \/ JobFails(i) \/ JobExpires(i)

Spec == Init /\ [][Next]_vars

\* The worker and its timer; a Job that runs comes to an end.
FairSpec ==
    /\ Spec /\ WF_vars(Reconcile) /\ WF_vars(Timer)
    /\ \A i \in JobIds : WF_vars(JobCompletes(i))

-----------------------------------------------------------------------------
\* A Record that is gone has left nothing at the service: its last Job was one that
\* removed the entry, however often calls and names of Jobs were lost (lines 62-147, and
\* record_controller.go:212 last).
GoneLeavesNothing == rec.phase = "gone" => content = Nothing

\* When a live Record is written as ready, the service publishes its spec, and the data
\* was rendered from it, under every dataUpdateStrategy (provider_types.go:37-40).
ReadyMeansPublished ==
    [][/\ WriteStatus /\ rec' # rec /\ rec'.all /\ rec'.phase = "live"
       => /\ content = rec'.val
          /\ rec'.data = IF strategy = "" THEN Nothing ELSE rec'.val]_vars

\* The Record names a Job to update or delete that failed: every call reports the failure,
\* and no new Job is made while it is there (lines 92-103).
StuckOnFailed ==
    rec.id # NoId /\ jobs[rec.id].state = "failed" /\ jobs[rec.id].act # "create"

Done ==
    \/ rec.phase = "gone"
    \/ rec.phase = "live" /\ rec.all /\ content = rec.val

\* In the end the Record is published or gone, unless a failed Job stays or a success was
\* not written (record_controller.go:204-218 repeat nothing then).
SettlesUnlessFailed == <>[](Done \/ StuckOnFailed \/ w.lost)

\* record_controller.go:135, "Record is deleted by provider %s": when the deletion succeeds,
\* the Job that completed was one that deletes.
DeletedByADeleteJob ==
    [][CallDelete /\ w'.ok => jobs[w.rec.id].act = "delete"]_vars

RecordObject ==
    [phase : {"live", "deleting", "gone"}, val : Values, id : JobIds \cup {NoId},
     data : Values \cup {Nothing}, all : BOOLEAN]

Job == [state : {"none", "running", "complete", "failed", "gone"},
        act : {"", "create", "update", "delete"}, val : Values \cup {Nothing}]

Worker == [pc : {"idle", "call", "status", "rmfin"}, rec : RecordObject,
           fresh : BOOLEAN, ok : BOOLEAN, lost : BOOLEAN]

\* Every variable has its type, and a RecordID names a Job that was made.
TypeOK ==
    /\ rec \in RecordObject /\ w \in Worker /\ jobs \in [JobIds -> Job]
    /\ rec.id # NoId => rec.id \notin Unused
    /\ w.rec.id # NoId => w.rec.id \notin Unused
    /\ queued \in BOOLEAN /\ timer \in BOOLEAN
    /\ content \in Values \cup {Nothing} /\ strategy \in Strategies /\ left \in Nat
=============================================================================
