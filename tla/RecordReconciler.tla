-------------------------- MODULE RecordReconciler --------------------------
(***************************************************************************)
(* RecordReconciler.Reconcile (internal/controller/dns/record_controller.go).*)
(*                                                                         *)
(* The controller has one worker.  A reconciliation reads the Record and   *)
(* the two provider lists from the caches, then handles one provider after *)
(* the other; each provider call is a step of its own, so that users, the  *)
(* informers and the provider controllers run in between.  Its last steps  *)
(* write the status and, for a deleted Record, remove the finalizer.       *)
(*                                                                         *)
(* rw[r] is the worker's local state: pc, the copy of the Record (obj, and *)
(* whether it is still the stored version), the copies of the providers    *)
(* (provs), and the providers whose status entry is Checked or dropped     *)
(* (done).                                                                 *)
(***************************************************************************)
EXTENDS ClusterState

Matched(r) == {p \in Providers : /\ Exists(rw[r].provs[p])
                                 /\ Matches(rw[r].provs[p].sel, rw[r].obj)}

\* The providers the first loop does not pass over: Matches says yes or fails.
Considered(r) == {p \in Providers : /\ Exists(rw[r].provs[p])
                                    /\ \/ Matches(rw[r].provs[p].sel, rw[r].obj)
                                       \/ MatchFails(rw[r].provs[p].sel, rw[r].obj)}

\* The list holds the Providers first and the ClusterProviders after them.
NextConsidered(r) ==
    LET todo == Considered(r) \ rw[r].done
    IN IF todo \ ClusterProviders # {} THEN todo \ ClusterProviders ELSE todo

NextMatched(r) == NextConsidered(r) \cap Matched(r)

\* The second loop: entries of the status no matching provider checked.
NextUnmatched(r) ==
    IF Considered(r) \ rw[r].done # {} THEN {}
    ELSE {p \in Providers : rw[r].obj.st[p].listed} \ rw[r].done

\* The client in providerCache was built for the generation of the listed copy.
ListedClientReady(r, p) == ClientReady(p, rw[r].provs[p].gen)

Unwanted(r, p) == rw[r].obj.phase = "deleting" \/ rw[r].provs[p].phase = "deleting"

\* The worker's new status entry for p.
Note(r, p, entry) ==
    rw' = [rw EXCEPT ![r].obj.st[p] = entry, ![r].done = @ \cup {p}]

Report(r, p, id, msg) == Note(r, p, [listed |-> TRUE, id |-> id, msg |-> msg])

Drop(r, p) == Note(r, p, NotListed)

\* A call to the provider of p ended in outcome o.
Call(p, o) ==
    /\ zone' = [zone EXCEPT ![p] = o.zone]
    /\ IF o.faulty THEN Spend("dns") ELSE UNCHANGED left

\* Slip: an error of the provider is not recorded.
ErrorMsgLost(o) == ""

ErrorMsg(o) == IF o.ok THEN "" ELSE "error"

\* What no step of a reconciliation changes.
Elsewhere == UNCHANGED <<recSeen, provVars, provCache, provQueue, pw>>

-----------------------------------------------------------------------------
\* Slip: the providers are called although the finalizer has still to be added.
FirstStepUnguarded(obj) == "sync"

\* An object without the finalizer gets it, and is looked at again.
FirstStep(obj) == IF obj.fin THEN "sync" ELSE "addfin"

\* The worker takes a key from the queue and reads the caches.
RecBegin(r) ==
    /\ r \in recQ /\ \A q \in Records : rw[q].pc = "idle"
    /\ ReadsAllowed
    /\ recQ' = recQ \ {r}
    /\ rw' = IF Exists(recSeen[r])
             THEN [rw EXCEPT ![r] =
                     [pc    |-> FirstStep(recSeen[r]),
                      obj   |-> recSeen[r],
                      fresh |-> r \notin recBehind,
                      provs |-> provSeen,
                      done  |-> {}]]
             ELSE rw
    /\ UNCHANGED <<recStore, zone, recTimer, left>> /\ Elsewhere

\* Whether the write succeeds or not the key goes back to the queue: Requeue or an error.
RecAddFinalizer(r) ==
    /\ rw[r].pc = "addfin"
    /\ \/ /\ rw[r].fresh /\ StoreRecord(r, [rec[r] EXCEPT !.fin = TRUE])
          /\ UNCHANGED left
       \/ /\ rw[r].fresh /\ Spend("api") /\ UNCHANGED recStore
       \/ /\ ~rw[r].fresh /\ UNCHANGED <<recStore, left>>
    /\ rw' = [rw EXCEPT ![r] = IdleRec]
    /\ recQ' = recQ \cup {r}
    /\ UNCHANGED <<zone, recTimer>> /\ Elsewhere

-----------------------------------------------------------------------------
(***************************************************************************)
(* Matched providers                                                       *)
(***************************************************************************)

\* Slip: a provider whose selector is ill-formed is taken off the status.
RecSelectorErrorDrops(r, p) ==
    /\ rw[r].pc = "sync" /\ p \in NextConsidered(r) \ Matched(r)
    /\ Drop(r, p)
    /\ UNCHANGED <<recStore, zone, recQueue, left>> /\ Elsewhere

\* An ill-formed selector ends the reconciliation with an error, at the provider's
\* place in the list: what was done for the providers before it is not recorded.
RecSelectorError(r, p) ==
    /\ rw[r].pc = "sync" /\ p \in NextConsidered(r) \ Matched(r)
    /\ rw' = [rw EXCEPT ![r] = IdleRec]
    /\ recQ' = recQ \cup {r}
    /\ UNCHANGED <<recStore, zone, recTimer, left>> /\ Elsewhere

RecNotReady(r, p) ==
    /\ rw[r].pc = "sync" /\ p \in NextMatched(r)
    /\ ~ListedClientReady(r, p)
    /\ Report(r, p, rw[r].obj.st[p].id, "not ready")
    /\ UNCHANGED <<recStore, zone, recQueue, left>> /\ Elsewhere

\* No RecordID: the code takes it that there is nothing to delete.
RecSkipDelete(r, p) ==
    /\ rw[r].pc = "sync" /\ p \in NextMatched(r)
    /\ ListedClientReady(r, p) /\ Unwanted(r, p)
    /\ rw[r].obj.st[p].id = NoId
    /\ Report(r, p, NoId, "")
    /\ UNCHANGED <<recStore, zone, recQueue, left>> /\ Elsewhere

RecDelete(r, p) ==
    /\ rw[r].pc = "sync" /\ p \in NextMatched(r)
    /\ ListedClientReady(r, p) /\ Unwanted(r, p)
    /\ rw[r].obj.st[p].id # NoId
    /\ \E o \in Delete(Client(p), zone[p], rw[r].obj.st[p].id, rw[r].obj.val) :
         Call(p, o) /\ Report(r, p, o.id, ErrorMsg(o))
    /\ UNCHANGED <<recStore, recQueue>> /\ Elsewhere

RecCreate(r, p) ==
    /\ rw[r].pc = "sync" /\ p \in NextMatched(r)
    /\ ListedClientReady(r, p) /\ ~Unwanted(r, p)
    /\ rw[r].obj.st[p].id = NoId
    /\ \E o \in Create(Client(p), zone[p], NoId, rw[r].obj.val, r) :
         Call(p, o) /\ Report(r, p, o.id, ErrorMsg(o))
    /\ UNCHANGED <<recStore, recQueue>> /\ Elsewhere

RecUpdate(r, p) ==
    /\ rw[r].pc = "sync" /\ p \in NextMatched(r)
    /\ ListedClientReady(r, p) /\ ~Unwanted(r, p)
    /\ rw[r].obj.st[p].id # NoId
    /\ \E o \in Update(Client(p), zone[p], rw[r].obj.st[p].id, rw[r].obj.val, r) :
         Call(p, o) /\ Report(r, p, o.id, ErrorMsg(o))
    /\ UNCHANGED <<recStore, recQueue>> /\ Elsewhere

-----------------------------------------------------------------------------
(***************************************************************************)
(* Status entries of providers that match no longer.  getProvider reads    *)
(* the cache again, at this point.                                         *)
(***************************************************************************)

\* Nothing recorded, or the provider is gone.
RecForget(r, p) ==
    /\ rw[r].pc = "sync" /\ p \in NextUnmatched(r)
    /\ rw[r].obj.st[p].id = NoId \/ ~Exists(provSeen[p])
    /\ Drop(r, p)
    /\ UNCHANGED <<recStore, zone, recQueue, left>> /\ Elsewhere

RecPruneNotReady(r, p) ==
    /\ rw[r].pc = "sync" /\ p \in NextUnmatched(r)
    /\ rw[r].obj.st[p].id # NoId /\ Exists(provSeen[p])
    /\ ~ClientReady(p, provSeen[p].gen)
    /\ Report(r, p, rw[r].obj.st[p].id, "not ready")
    /\ UNCHANGED <<recStore, zone, recQueue, left>> /\ Elsewhere

RecPrune(r, p) ==
    /\ rw[r].pc = "sync" /\ p \in NextUnmatched(r)
    /\ rw[r].obj.st[p].id # NoId /\ Exists(provSeen[p])
    /\ ClientReady(p, provSeen[p].gen)
    /\ \E o \in Delete(Client(p), zone[p], rw[r].obj.st[p].id, rw[r].obj.val) :
         /\ Call(p, o)
         /\ IF o.ok THEN Drop(r, p) ELSE Report(r, p, o.id, "error")
    /\ UNCHANGED <<recStore, recQueue>> /\ Elsewhere

-----------------------------------------------------------------------------
\* Slip: AllReady is not reset for a provider that has a message.
AllReadyAlways(r) == TRUE

AllReady(r) == \A p \in Providers : rw[r].obj.st[p].msg = ""

\* Slip: the entries with a message are left out of the new list.
WithStatusTrimmed(r) ==
    [rec[r] EXCEPT !.st = [p \in Providers |->
        IF rw[r].obj.st[p].msg = "" THEN rw[r].obj.st[p] ELSE NotListed]]

\* The stored object with the status the worker computed.
WithStatus(r) ==
    [rec[r] EXCEPT !.st = rw[r].obj.st, !.all = AllReady(r)]

\* Status().Update: an error is logged and nothing else.
RecWriteStatus(r) ==
    /\ rw[r].pc = "sync" /\ NextConsidered(r) = {} /\ NextUnmatched(r) = {}
    /\ \/ /\ rw[r].fresh /\ WithStatus(r) # rec[r] /\ StoreRecord(r, WithStatus(r))
          /\ UNCHANGED left
       \/ /\ rw[r].fresh /\ WithStatus(r) = rec[r]
          /\ UNCHANGED <<recStore, left>>
       \/ /\ rw[r].fresh /\ Spend("api") /\ UNCHANGED recStore
       \/ /\ ~rw[r].fresh /\ UNCHANGED <<recStore, left>>
    /\ recTimer' = IF AllReady(r) THEN recTimer ELSE recTimer \cup {r}
    /\ rw' = [rw EXCEPT ![r] =
                IF AllReady(r) /\ rw[r].obj.phase = "deleting"
                THEN [@ EXCEPT !.pc = "rmfin"] ELSE IdleRec]
    /\ UNCHANGED <<zone, recQ>> /\ Elsewhere

\* An update that fails is logged; the key is not requeued.
RecRemoveFinalizer(r) ==
    /\ rw[r].pc = "rmfin"
    /\ \/ /\ rw[r].fresh /\ StoreRecord(r, [NoRecord EXCEPT !.phase = "gone"])
          /\ UNCHANGED left
       \/ /\ rw[r].fresh /\ Spend("api") /\ UNCHANGED recStore
       \/ /\ ~rw[r].fresh /\ UNCHANGED <<recStore, left>>
    /\ rw' = [rw EXCEPT ![r] = IdleRec]
    /\ UNCHANGED <<zone, recQueue>> /\ Elsewhere

RecordStep(r) ==
    \/ RecBegin(r) \/ RecAddFinalizer(r) \/ RecWriteStatus(r) \/ RecRemoveFinalizer(r)
    \/ \E p \in Providers :
         \/ RecSelectorError(r, p) \/ RecNotReady(r, p) \/ RecSkipDelete(r, p)
         \/ RecDelete(r, p) \/ RecCreate(r, p) \/ RecUpdate(r, p)
         \/ RecForget(r, p) \/ RecPruneNotReady(r, p) \/ RecPrune(r, p)
=============================================================================
