------------------------------ MODULE DnsSync ------------------------------
(***************************************************************************)
(* The Record controller and the two provider controllers together.        *)
(***************************************************************************)
EXTENDS RecordReconciler, ProviderReconciler

Next ==
    \/ Environment
    \/ \E r \in Records : RecordStep(r)
    \/ \E p \in Providers : ProviderStep(p)

Spec == Init /\ [][Next]_vars

\* The manager runs its workers, informers and timers; users owe nothing.
FairSpec ==
    /\ Spec
    /\ \A r \in Records : /\ WF_vars(RecordStep(r))
                          /\ WF_vars(DeliverRecord(r))
                          /\ WF_vars(RecordTimer(r))
    /\ \A p \in Providers : /\ WF_vars(ProviderStep(p))
                            /\ WF_vars(DeliverProvider(p))
                            /\ WF_vars(ProviderTimer(p))

-----------------------------------------------------------------------------
\* A RecordID that leaves the status of a Record, or goes with the Record.
IdReleased(r, p) ==
    LET id == rec[r].st[p].id
    IN  id # NoId /\ rec'[r].st[p].id # id
          => id \notin Ids(zone'[p]) \/ prov[p].phase = "gone"

\* A RecordID leaves the status of a Record, or leaves with the Record, only when the
\* entry it names is published nowhere or the provider object is gone
\* (record_controller.go:104-193, 212-218: whatever users, informers, crashes and
\* failing calls do in between).  It takes providers that stay at their sites.
NoForgetting == [][\A r \in Records, p \in Providers : IdReleased(r, p)]_vars

\* An entry of p's zone that was not there before: its site had none under this id.
EntryAdded(p, e) ==
    e \in zone'[p].entries /\ \A d \in zone[p].entries : ~(d.id = e.id /\ d.at = e.at)

\* A zone gains an entry for a Record only while the stored Record has the finalizer, so
\* that its deletion still passes through the controller (record_controller.go:79-84
\* before :137-144, and :212-218 last; cached copies may be stale).
EntriesAreGuarded ==
    [][\A p \in Providers : \A e \in zone'[p].entries : EntryAdded(p, e) => rec[e.rec].fin]_vars

\* Where p's client works with this setup, this content is published under this id.
Published(p, setup, id, val) ==
    \E e \in zone[p].entries : e.id = id /\ e.val = val /\ e.at = Config[p][setup].site

\* When the status of a live Record is written with allReady, every provider it lists
\* that is not being deleted publishes the content of the spec under the recorded id, at
\* the site it was set up for when the worker listed it (record_controller.go:195-204).
ReadyClaimIsTrue ==
    [][\A r \in Records :
          /\ RecWriteStatus(r) /\ rec'[r] # rec[r]
          /\ rec'[r].all /\ rec'[r].phase = "live"
          => \A p \in Providers :
                rec'[r].st[p].listed /\ prov[p].phase = "live"
                => Published(p, rw[r].provs[p].setup, rec'[r].st[p].id, rec'[r].val)]_vars

-----------------------------------------------------------------------------
\* The controllers as a ledger of RecordIDs.
Ledger == INSTANCE IdLedger WITH
    next   <- [p \in Providers |-> zone[p].next],
    live   <- [p \in Providers |-> Ids(zone[p])],
    closed <- {p \in Providers : prov[p].phase = "gone"},
    held   <- [r \in Records |-> [p \in Providers |-> rec[r].st[p].id]]

\* The controllers, their caches and their faults implement the ledger: an id in a status
\* was handed out by that provider's service, none comes back after its entry was deleted,
\* and each step settles the account of one Record or one zone
\* (record_controller.go:104-221, provider_controller.go:98-120).  This, too, takes
\* providers that stay at their sites.
KeepsLedger == Ledger!Spec

-----------------------------------------------------------------------------
\* Nothing is queued, timed, in progress or undelivered.
Quiescent ==
    /\ recQ = {} /\ recTimer = {} /\ provQ = {} /\ provTimer = {}
    /\ recBehind = {} /\ provBehind = {}
    /\ \A r \in Records : rw[r].pc = "idle"
    /\ \A p \in Providers : pw[p].pc = "idle"

\* The status of r agrees with the providers that select it and with the sites they are
\* set up for.
Settled(r) ==
    /\ rec[r].phase # "deleting"
    /\ rec[r].phase = "live" =>
         /\ rec[r].fin /\ rec[r].all
         /\ \A p \in Providers :
              /\ rec[r].st[p].id # NoId =>
                    Published(p, prov[p].setup, rec[r].st[p].id, rec[r].val)
              /\ (rec[r].st[p].id # NoId) =
                    (prov[p].phase = "live" /\ Matches(prov[p].sel, rec[r]))

\* When the controllers come to rest, every Record is settled and no deletion is pending
\* (the requeues of record_controller.go:83,209 and provider_controller.go:71,124,127,132
\* and the watches of :295-304 leave nothing behind).
RestMeansSettled ==
    Quiescent => /\ \A r \in Records : Settled(r)
                 /\ \A p \in Providers : prov[p].phase # "deleting"

\* A deleted Record and a deleted provider go away.
DeletionsFinish ==
    /\ \A r \in Records : rec[r].phase = "deleting" ~> rec[r].phase = "gone"
    /\ \A p \in Providers : prov[p].phase = "deleting" ~> prov[p].phase = "gone"

-----------------------------------------------------------------------------
\* record_controller.go:126, "already deleted or not yet created": when the deletion of
\* a Record finds no RecordID, the provider's zone has no entry made for it.
SkippedMeansAbsent ==
    [][\A r \in Records, p \in Providers :
          RecSkipDelete(r, p) => \A e \in zone[p].entries : e.rec # r]_vars

\* record_controller.go:135, "Record is deleted by provider %s": when a deletion of a
\* Record reports success, the entry its RecordID named is published nowhere.
DeletedEventIsTrue ==
    [][\A r \in Records, p \in Providers :
          RecDelete(r, p) /\ rw'[r].obj.st[p].msg = ""
          => rw[r].obj.st[p].id \notin Ids(zone'[p])]_vars

\* common.go:18, "waiting for Records": a provider that is gone has no Record that still
\* holds an id of it.
ProviderWaitedForRecords ==
    \A r \in Records, p \in Providers :
        prov[p].phase = "gone" => rec[r].st[p].id = NoId
=============================================================================
