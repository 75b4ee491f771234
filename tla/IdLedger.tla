------------------------------ MODULE IdLedger ------------------------------
(***************************************************************************)
(* What the Record controller promises about RecordIDs, without caches,    *)
(* workers, finalizers or retries: a service hands out each id once, a     *)
(* Record holds at most one id for each provider, and it lets go of an id  *)
(* only after the entry is gone or the provider has left the cluster.      *)
(***************************************************************************)
EXTENDS Integers

CONSTANTS
    Records,
    Providers,
    NoId        \* a Record holds no id

VARIABLES
    next,       \* the id each provider's service hands out next
    live,       \* the ids of the entries it publishes
    closed,     \* the providers that have left the cluster
    held        \* the RecordID each Record's status has for each provider

books == <<next, live, closed, held>>

Issued(p) == 0..(next[p] - 1)

Init ==
    /\ next = [p \in Providers |-> 0] /\ live = [p \in Providers |-> {}]
    /\ closed = {} /\ held = [r \in Records |-> [p \in Providers |-> NoId]]

\* An entry is made, whether or not anybody hears of its id.
Issue(p) ==
    /\ next' = [next EXCEPT ![p] = @ + 1]
    /\ live' = [live EXCEPT ![p] = @ \cup {next[p]}]
    /\ UNCHANGED <<closed, held>>

\* An entry is deleted, whether or not anybody hears of it.
Withdraw(p) ==
    /\ \E id \in live[p] : live' = [live EXCEPT ![p] = @ \ {id}]
    /\ UNCHANGED <<next, closed, held>>

Close(p) == closed' = closed \cup {p} /\ UNCHANGED <<next, live, held>>

\* Nothing is lost when id is forgotten.
Spent(p, id) == id = NoId \/ id \notin live[p] \/ p \in closed

\* The status of r is written: for each provider the id it had, or another in its place.
Write(r) ==
    /\ \E ids \in [Providers -> {NoId} \cup UNION {Issued(p) : p \in Providers}] :
         /\ \A p \in Providers :
              ids[p] # held[r][p] => /\ ids[p] \in Issued(p) \cup {NoId}
                                     /\ Spent(p, held[r][p])
         /\ held' = [held EXCEPT ![r] = ids]
    /\ UNCHANGED <<next, live, closed>>

Next ==
    \/ \E p \in Providers : Issue(p) \/ Withdraw(p) \/ Close(p)
    \/ \E r \in Records : Write(r)

Spec == Init /\ [][Next]_books
=============================================================================
