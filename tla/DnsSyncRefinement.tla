------------------------- MODULE DnsSyncRefinement -------------------------
(***************************************************************************)
(* DnsSync implements IdLedger: every step is a step of the ledger on one  *)
(* Record, one zone or one provider, or none at all.                       *)
(***************************************************************************)
EXTENDS DnsSyncLedger

\* What a call leaves of zone z: the zone, one entry more or one less.
Balanced(new, z) ==
    \/ new.next = z.next /\ Ids(new) = Ids(z)
    \/ new.next = z.next + 1 /\ Ids(new) = Ids(z) \cup {z.next}
    \/ new.next = z.next /\ \E id \in Ids(z) : Ids(new) = Ids(z) \ {id}

LEMMA ZonePartsBalance ==
    ASSUME NobodyMoves, NEW z \in Zone, NEW site \in Sites, NEW val, NEW r, NEW id
    PROVE  /\ Balanced(z, z) /\ Balanced(Insert(z, site, val, r), z)
           /\ Balanced(Remove(z, WithId(z, site, id)), z)
           /\ Balanced(Overwrite(z, id, val), z)
<1>1. Balanced(z, z)
  BY DEF Balanced
<1>2. Balanced(Insert(z, site, val, r), z)
  <2> DEFINE new == [id |-> z.next, at |-> site, val |-> val, rec |-> r]
  <2>0. Insert(z, site, val, r).entries = z.entries \cup {new} /\ new.id = z.next
    BY DEF Insert
  <2> HIDE DEF new
  <2>1. Ids(Insert(z, site, val, r)) = Ids(z) \cup {z.next}
    BY <2>0 DEF Ids
  <2> QED
    BY <2>1 DEF Balanced, Insert
<1>3. Balanced(Remove(z, WithId(z, site, id)), z)
  <2>1. /\ Remove(z, WithId(z, site, id)).next = z.next
        /\ Remove(z, WithId(z, site, id)).entries = {e \in z.entries : e.id # id}
    BY DEF Remove, WithId, Zone, Entry, NobodyMoves
  <2>2. Ids(Remove(z, WithId(z, site, id))) = Ids(z) \ {id}
    BY <2>1 DEF Ids
  <2>3. CASE id \in Ids(z)
    BY <2>1, <2>2, <2>3 DEF Balanced
  <2>4. CASE id \notin Ids(z)
    BY <2>1, <2>2, <2>4 DEF Balanced
  <2> QED
    BY <2>3, <2>4
<1>4. Balanced(Overwrite(z, id, val), z)
  <2> DEFINE put(e) == IF e.id = id THEN [e EXCEPT !.val = val] ELSE e
  <2>1. /\ Overwrite(z, id, val).next = z.next
        /\ Overwrite(z, id, val).entries = {put(e) : e \in z.entries}
    BY DEF Overwrite, Zone
  <2>2. \A e \in z.entries : put(e).id = e.id
    BY DEF Zone, Entry
  <2> HIDE DEF put
  <2>3. Ids(Overwrite(z, id, val)) = Ids(z)
    BY <2>1, <2>2 DEF Ids
  <2> QED
    BY <2>1, <2>3 DEF Balanced
<1> QED
  BY <1>1, <1>2, <1>3, <1>4

LEMMA CallBalances ==
    ASSUME NobodyMoves, NEW cfg \in NumberedConfig, NEW z \in Zone, NEW id, NEW val, NEW r
    PROVE  /\ \A o \in Create(cfg, z, id, val, r) : Balanced(o.zone, z)
           /\ \A o \in Update(cfg, z, id, val, r) : Balanced(o.zone, z)
           /\ \A o \in Delete(cfg, z, id, val) : Balanced(o.zone, z)
<1>1. ASSUME NEW new, Balanced(new, z), NEW a, NEW b, NEW ok, NEW faulty
      PROVE  /\ Balanced(Outcome(new, a, ok, faulty).zone, z)
             /\ \A o \in Applied(new, a, b) : Balanced(o.zone, z)
  BY <1>1 DEF Outcome, Applied
<1>0. cfg.site \in Sites
  BY DEF NumberedConfig, ClientConfig
<1>2. /\ \A o \in CloudflareCreate(cfg, z, id, val, r) : Balanced(o.zone, z)
      /\ \A o \in AliyunCreate(cfg, z, id, val, r) : Balanced(o.zone, z)
  BY <1>0, <1>1, ZonePartsBalance
  DEF CloudflareCreate, CloudflareFind, AliyunCreate, Unsent, Refused
<1>3. /\ \A o \in CloudflareUpdate(cfg, z, id, val, r) : Balanced(o.zone, z)
      /\ \A o \in AliyunUpdate(cfg, z, id, val, r) : Balanced(o.zone, z)
  BY <1>0, <1>1, <1>2, ZonePartsBalance DEF CloudflareUpdate, AliyunUpdate, Unsent, Refused
<1>4. /\ \A o \in CloudflareDelete(cfg, z, id) : Balanced(o.zone, z)
      /\ \A o \in AliyunDelete(cfg, z, id) : Balanced(o.zone, z)
  BY <1>0, <1>1, ZonePartsBalance DEF CloudflareDelete, AliyunDelete, Unsent, Refused
<1> QED
  BY <1>2, <1>3, <1>4 DEF Create, Update, Delete, NumberedConfig

-----------------------------------------------------------------------------
(***************************************************************************)
(* The kinds of steps                                                      *)
(***************************************************************************)

RecordMoved ==
    /\ UNCHANGED <<prov, zone>>
    /\ \E r \in Records : \A q \in Records \ {r} : rec'[q] = rec[q]

ProviderMoved ==
    /\ UNCHANGED <<rec, zone>>
    /\ \E p \in Providers :
         /\ \A q \in Providers \ {p} : prov'[q] = prov[q]
         /\ prov[p].phase = "gone" => prov'[p].phase = "gone"

ZoneMoved ==
    /\ UNCHANGED <<rec, prov>>
    /\ \E p \in Providers : /\ Balanced(zone'[p], zone[p])
                            /\ \A q \in Providers \ {p} : zone'[q] = zone[q]

LEMMA EnvironmentMoves ==
    ASSUME TypeOK, Environment
    PROVE  UNCHANGED <<rec, prov, zone>> \/ RecordMoved \/ ProviderMoved
<1>1. ASSUME NEW r \in Records, NEW obj, UserWritesRecord(r, obj) PROVE RecordMoved
  BY <1>1 DEF UserWritesRecord, StoreRecord, provVars, RecordMoved, TypeOK
<1>2. ASSUME NEW p \in Providers, NEW obj, UserWritesProvider(p, obj), prov[p].phase # "gone"
      PROVE  ProviderMoved
  BY <1>2 DEF UserWritesProvider, StoreProvider, recVars, ProviderMoved, TypeOK
<1>3. ASSUME NEW r \in Records,
             CreateRecord(r) \/ EditRecord(r) \/ TouchRecord(r) \/ DeleteRecord(r)
      PROVE  RecordMoved
  BY <1>1, <1>3 DEF CreateRecord, EditRecord, TouchRecord, DeleteRecord
<1>4. ASSUME NEW p \in Providers,
             CreateProvider(p) \/ EditProvider(p) \/ TouchProvider(p) \/ DeleteProvider(p)
      PROVE  ProviderMoved
  BY <1>2, <1>4 DEF CreateProvider, EditProvider, TouchProvider, DeleteProvider, Exists
<1>5. ASSUME \/ \E r \in Records : DeliverRecord(r) \/ RecordTimer(r)
             \/ \E p \in Providers : DeliverProvider(p) \/ ProviderTimer(p)
             \/ Crash
      PROVE  UNCHANGED <<rec, prov, zone>>
  BY <1>5 DEF DeliverRecord, RecordTimer, DeliverProvider, ProviderTimer, Crash, recVars, provVars
<1> QED
  BY <1>3, <1>4, <1>5 DEF Environment

LEMMA RecordStepMoves ==
    ASSUME TypeOK, NEW r \in Records, RecordStep(r),
           AllNumbered, NobodyMoves
    PROVE  RecordMoved \/ ZoneMoved
<1>1. CASE \/ RecBegin(r) \/ RecAddFinalizer(r) \/ RecWriteStatus(r) \/ RecRemoveFinalizer(r)
           \/ \E p \in Providers : RecSelectorError(r, p)
  <2>1. UNCHANGED <<prov, zone>>
    BY <1>1 DEF RecBegin, RecAddFinalizer, RecWriteStatus, RecRemoveFinalizer,
                RecSelectorError, Elsewhere, provVars
  <2>2. rec' = rec \/ \E obj : StoreRecord(r, obj)
    BY <1>1 DEF RecBegin, RecAddFinalizer, RecWriteStatus, RecRemoveFinalizer,
                RecSelectorError, recStore
  <2>3. \A q \in Records \ {r} : rec'[q] = rec[q]
    BY <2>2 DEF StoreRecord, TypeOK
  <2> QED
    BY <2>1, <2>3 DEF RecordMoved
<1>2. ASSUME NEW p \in Providers,
             RecNotReady(r, p) \/ RecSkipDelete(r, p) \/ RecForget(r, p) \/ RecPruneNotReady(r, p)
      PROVE  RecordMoved
  BY <1>2 DEF RecNotReady, RecSkipDelete, RecForget, RecPruneNotReady, Elsewhere, provVars,
              recStore, RecordMoved
<1>3. ASSUME NEW p \in Providers,
             RecDelete(r, p) \/ RecCreate(r, p) \/ RecUpdate(r, p) \/ RecPrune(r, p)
      PROVE  ZoneMoved
  <2>0. Client(p) \in NumberedConfig
    BY NumberedClient
  <2>1. /\ UNCHANGED <<rec, prov>> /\ zone[p] \in Zone
        /\ \A q \in Providers \ {p} : zone'[q] = zone[q]
    BY <1>3, SyncStepNotes, CallEffect DEF SyncStep
  <2>2. PICK o : Call(p, o) /\ Balanced(o.zone, zone[p])
    <3>1. CASE RecCreate(r, p)
      BY <2>0, <2>1, <3>1, CallBalances DEF RecCreate
    <3>2. CASE RecUpdate(r, p)
      BY <2>0, <2>1, <3>2, CallBalances DEF RecUpdate
    <3>3. CASE RecDelete(r, p) \/ RecPrune(r, p)
      BY <2>0, <2>1, <3>3, CallBalances DEF RecDelete, RecPrune
    <3> QED
      BY <1>3, <3>1, <3>2, <3>3
  <2>3. zone'[p] = o.zone
    BY <2>2 DEF Call, TypeOK
  <2> QED
    BY <2>1, <2>2, <2>3 DEF ZoneMoved
<1> QED
  BY <1>1, <1>2, <1>3 DEF RecordStep

LEMMA ProviderStepMoves ==
    ASSUME TypeOK, NEW p \in Providers, ProviderStep(p)
    PROVE  ProviderMoved
<1>1. UNCHANGED <<rec, zone>>
  BY DEF ProviderStep, ProvBegin, ProvAddFinalizer, ProvBuild, ProvRemoveFinalizer,
         ProvWriteStatus, Apart, recVars
<1>2. \/ prov' = prov
      \/ \E obj : StoreProvider(p, obj) /\ (obj.phase = prov[p].phase \/ obj.phase = "gone")
  <2>1. prov[p] \in ProviderObject
    BY DEF TypeOK
  <2>2. CASE ProvBegin(p) \/ ProvBuild(p)
    BY <2>2 DEF ProvBegin, ProvBuild, provStore
  <2>3. CASE ProvAddFinalizer(p) \/ ProvWriteStatus(p)
    BY <2>1, <2>3 DEF ProvAddFinalizer, ProvWriteStatus, provStore, ProviderObject
  <2>4. CASE ProvRemoveFinalizer(p)
    BY <2>4 DEF ProvRemoveFinalizer, provStore, NoProvider
  <2> QED
    BY <2>2, <2>3, <2>4 DEF ProviderStep
<1>3. /\ \A q \in Providers \ {p} : prov'[q] = prov[q]
      /\ prov[p].phase = "gone" => prov'[p].phase = "gone"
  BY <1>2 DEF StoreProvider, TypeOK
<1> QED
  BY <1>1, <1>3 DEF ProviderMoved

-----------------------------------------------------------------------------
(***************************************************************************)
(* Their effect on the ledger                                              *)
(***************************************************************************)

next == [p \in Providers |-> zone[p].next]
live == [p \in Providers |-> Ids(zone[p])]
closed == {p \in Providers : prov[p].phase = "gone"}
held == [r \in Records |-> [p \in Providers |-> rec[r].st[p].id]]

\* A status is written: the ids that go are spent, those that come were handed out.
LEMMA RecordMovedWrites ==
    ASSUME TypeOK, TypeOK', Recorded', NobodyMoves, Releases, RecordMoved
    PROVE  (\E r \in Records : Ledger!Write(r)) \/ UNCHANGED Ledger!books
<1>1. next' = next /\ live' = live /\ closed' = closed
  BY DEF RecordMoved, next, live, closed
<1>2. PICK r \in Records : \A q \in Records \ {r} : rec'[q] = rec[q]
  BY DEF RecordMoved
<1> DEFINE ids == held'[r]
<1>3. ids = [p \in Providers |-> rec'[r].st[p].id]
  BY DEF held
<1>4. held' = [held EXCEPT ![r] = ids]
  BY <1>2 DEF held
<1>5. ASSUME NEW p \in Providers
      PROVE  /\ ids[p] \in (0..(next[p] - 1)) \cup {NoId}
             /\ ids[p] # held[r][p]
                  => held[r][p] = NoId \/ held[r][p] \notin live[p] \/ p \in closed
  <2>1. ids[p] = rec'[r].st[p].id /\ held[r][p] = rec[r].st[p].id
    BY DEF held
  <2>2. ids[p] = NoId \/ (ids[p] \in Nat /\ ids[p] < zone'[p].next)
    BY <2>1 DEF Recorded, StatusesAreSound, Sound, Issued
  <2>3. zone'[p].next = next[p] /\ next[p] \in Nat
    BY DEF RecordMoved, next, TypeOK, Zone
  <2>4. ids[p] \in (0..(next[p] - 1)) \cup {NoId}
    BY <2>2, <2>3
  <2>5. ids[p] # held[r][p]
          => held[r][p] = NoId \/ held[r][p] \notin Ids(zone'[p]) \/ prov[p].phase = "gone"
    BY <2>1 DEF Releases, LetsGo, IdReleased
  <2>6. Ids(zone'[p]) = live[p] /\ (prov[p].phase = "gone" => p \in closed)
    BY DEF RecordMoved, live, closed
  <2> QED
    BY <2>4, <2>5, <2>6
<1>6. ids \in [Providers -> {NoId} \cup UNION {0..(next[p] - 1) : p \in Providers}]
  BY <1>3, <1>5
<1> HIDE DEF ids
<1>7. Ledger!Write(r)
  BY <1>1, <1>4, <1>5, <1>6
  DEF Ledger!Write, Ledger!Issued, Ledger!Spent, next, live, closed, held
<1> QED
  BY <1>7

LEMMA ProviderMovedCloses ==
    ASSUME TypeOK, TypeOK', ProviderMoved
    PROVE  (\E p \in Providers : Ledger!Close(p)) \/ UNCHANGED Ledger!books
<1>1. next' = next /\ live' = live /\ held' = held
  BY DEF ProviderMoved, next, live, held
<1>2. PICK p \in Providers : /\ \A q \in Providers \ {p} : prov'[q] = prov[q]
                             /\ prov[p].phase = "gone" => prov'[p].phase = "gone"
  BY DEF ProviderMoved
<1>3. closed' = closed \/ closed' = closed \cup {p}
  BY <1>2 DEF closed
<1> QED
  BY <1>1, <1>3 DEF Ledger!Close, Ledger!books, next, live, closed, held

LEMMA ZoneMovedIssues ==
    ASSUME TypeOK, TypeOK', ZoneMoved
    PROVE  (\E p \in Providers : Ledger!Issue(p) \/ Ledger!Withdraw(p))
             \/ UNCHANGED Ledger!books
<1>1. closed' = closed /\ held' = held
  BY DEF ZoneMoved, closed, held
<1>2. PICK p \in Providers : /\ Balanced(zone'[p], zone[p])
                             /\ \A q \in Providers \ {p} : zone'[q] = zone[q]
  BY DEF ZoneMoved
<1>3. /\ next' = [next EXCEPT ![p] = zone'[p].next]
      /\ live' = [live EXCEPT ![p] = Ids(zone'[p])]
      /\ next[p] = zone[p].next /\ live[p] = Ids(zone[p])
  BY <1>2 DEF next, live
<1>4. CASE zone'[p].next = zone[p].next /\ Ids(zone'[p]) = Ids(zone[p])
  <2>1. next' = next /\ live' = live
    BY <1>3, <1>4 DEF next, live
  <2> QED
    BY <1>1, <2>1 DEF Ledger!books, next, live, closed, held
<1>5. CASE zone'[p].next = zone[p].next + 1 /\ Ids(zone'[p]) = Ids(zone[p]) \cup {zone[p].next}
  <2>1. /\ next' = [next EXCEPT ![p] = @ + 1]
        /\ live' = [live EXCEPT ![p] = @ \cup {next[p]}]
    BY <1>3, <1>5 DEF next, live
  <2>2. Ledger!Issue(p)
    BY <1>1, <2>1 DEF Ledger!Issue, next, live, closed, held
  <2> QED
    BY <2>2
<1>6. CASE /\ zone'[p].next = zone[p].next
           /\ \E id \in Ids(zone[p]) : Ids(zone'[p]) = Ids(zone[p]) \ {id}
  <2>1. next' = next /\ \E id \in live[p] : live' = [live EXCEPT ![p] = @ \ {id}]
    BY <1>3, <1>6 DEF next, live
  <2>2. Ledger!Withdraw(p)
    BY <1>1, <2>1 DEF Ledger!Withdraw, next, live, closed, held
  <2> QED
    BY <2>2
<1> QED
  BY <1>2, <1>4, <1>5, <1>6 DEF Balanced

LEMMA LedgerInit == Init => Ledger!Init
<1> SUFFICES ASSUME Init PROVE Ledger!Init
  OBVIOUS
<1>1. /\ \A p \in Providers : zone[p] = EmptyZone /\ prov[p] = NoProvider
      /\ \A r \in Records : rec[r] = NoRecord
  BY DEF Init
<1>2. next = [p \in Providers |-> 0] /\ live = [p \in Providers |-> {}]
  BY <1>1 DEF next, live, EmptyZone, Ids
<1>3. closed = {}
  BY <1>1, BlankFacts DEF closed
<1>4. held = [r \in Records |-> [p \in Providers |-> NoId]]
  <2>1. \A r \in Records, p \in Providers : rec[r].st[p].id = NoId
    BY <1>1, BlankFacts
  <2> QED
    BY <2>1 DEF held
<1> QED
  BY <1>2, <1>3, <1>4 DEF Ledger!Init, next, live, closed, held

LEMMA LedgerStep ==
    ASSUME TypeOK, TypeOK', CachesAreCurrent, Guarded, Recorded, [Next]_vars,
           AllNumbered, NobodyMoves
    PROVE  [Ledger!Next]_(Ledger!books)
<1>1. Recorded' /\ Releases
  BY RecordedStep
<1>2. UNCHANGED <<rec, prov, zone>> \/ RecordMoved \/ ProviderMoved \/ ZoneMoved
  <2>1. CASE UNCHANGED vars
    BY <2>1 DEF vars
  <2>2. CASE Environment
    BY <2>2, EnvironmentMoves
  <2>3. CASE \E r \in Records : RecordStep(r)
    BY <2>3, RecordStepMoves
  <2>4. CASE \E p \in Providers : ProviderStep(p)
    BY <2>4, ProviderStepMoves
  <2> QED
    BY <2>1, <2>2, <2>3, <2>4 DEF Next
<1>3. CASE UNCHANGED <<rec, prov, zone>>
  BY <1>3 DEF Ledger!books
<1>4. CASE RecordMoved
  BY <1>1, <1>4, RecordMovedWrites DEF Ledger!Next
<1>5. CASE ProviderMoved
  BY <1>5, ProviderMovedCloses DEF Ledger!Next
<1>6. CASE ZoneMoved
  BY <1>6, ZoneMovedIssues DEF Ledger!Next
<1> QED
  BY <1>2, <1>3, <1>4, <1>5, <1>6

\* With Cloudflare and Aliyun providers, and as long as no edit moves one of them to another
\* zone or account, the controllers implement the ledger, for any number of Records and
\* providers, whatever users, crashes, stale reads and failing calls do.
THEOREM ImplementsLedger ==
    ASSUME AllNumbered, NobodyMoves
    PROVE  Spec => KeepsLedger
<1>1. TypeOK /\ TypeOK' /\ (CachesAreCurrent /\ Guarded) /\ Recorded /\ [Next]_vars
        => [Ledger!Next]_(Ledger!books)
  BY LedgerStep
<1> QED
  BY <1>1, LedgerInit, LedgerInvariant, TypeCorrectness, FinalizersGuard, PTL
  DEF Spec, KeepsLedger, Ledger!Spec
=============================================================================
