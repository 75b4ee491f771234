---------------------------- MODULE DnsProviders ----------------------------
(***************************************************************************)
(* What one call of a DNS provider does to the provider's zone and to the  *)
(* payload.  An operation of internal/controller/dns/provider/<type> is an *)
(* operator that returns the set of its possible outcomes                  *)
(*                                                                         *)
(*   [zone, id, ok, faulty]                                                *)
(*                                                                         *)
(* zone is the zone after the call, id the payload's Id after the call, ok *)
(* says that the error returned is nil, and faulty that the network failed *)
(* during the call: either the request never arrived, or it was carried    *)
(* out and the response was lost.                                          *)
(*                                                                         *)
(* A zone holds all that one provider ever wrote, at every site it was set *)
(* up for: a site is what its client reaches by id, a Cloudflare zone, an  *)
(* Aliyun account or an AdGuard server.  The client sees the entries of    *)
(* one site, that of the spec it was built from, and no call reaches the   *)
(* others.  An entry has the id the service gave it, its site, the content *)
(* (name, type and value) it publishes, and the Record object it was made  *)
(* for; the last is a history component the code cannot read.  next is the *)
(* id of the next entry: a service never hands out an id twice, and two    *)
(* sites never the same.                                                   *)
(*                                                                         *)
(* The services themselves are external; what is used of them is what the  *)
(* code relies on: Cloudflare and Aliyun refuse an entry that repeats one  *)
(* they hold (adopted or reported, see below), AdGuard Home has no ids.    *)
(***************************************************************************)
EXTENDS Integers, FiniteSets

CONSTANTS
    NoId,       \* the empty RecordID
    MaxId,      \* the zone's quota: how many entries it will ever create
    Sites       \* where a provider may be set up to publish; named apart for each provider

ASSUME MaxIdAssumption == MaxId \in Nat

Outcome(zone, id, ok, faulty) ==
    [zone |-> zone, id |-> id, ok |-> ok, faulty |-> faulty]

EmptyZone == [entries |-> {}, next |-> 0]

Ids(zone) == {e.id : e \in zone.entries}

\* What a client at this site finds by content, and by id.
WithVal(zone, site, val) == {e \in zone.entries : e.at = site /\ e.val = val}

WithId(zone, site, id) == {e \in zone.entries : e.at = site /\ e.id = id}

Full(zone) == zone.next >= MaxId

\* The request did not reach the service.
Unsent(zone, id) == Outcome(zone, id, FALSE, TRUE)

\* The request was carried out; the caller sees its result or a network error.
Applied(zone, id, newId) ==
    {Outcome(zone, newId, TRUE, FALSE), Outcome(zone, id, FALSE, TRUE)}

Refused(zone, id) == Outcome(zone, id, FALSE, FALSE)

\* POST of a new entry, with the id the service chooses (external).
Insert(zone, site, val, rec) ==
    [entries |-> zone.entries
        \cup {[id |-> zone.next, at |-> site, val |-> val, rec |-> rec]},
     next |-> zone.next + 1]

Remove(zone, gone) == [zone EXCEPT !.entries = @ \ gone]

\* PUT of new content into the entry that has the id (external).
Overwrite(zone, id, val) ==
    [zone EXCEPT !.entries =
        {IF e.id = id THEN [e EXCEPT !.val = val] ELSE e : e \in @}]

-----------------------------------------------------------------------------
(***************************************************************************)
(* Cloudflare                                                              *)
(***************************************************************************)

\* Slip: the first entry of the site, whatever its content.
CloudflareFindAny(cfg, zone, val) ==
    {Outcome(zone, e.id, TRUE, FALSE) : e \in {d \in zone.entries : d.at = cfg.site}}

\* find: the first entry of this content, and no error if there is none (a service that has
\* just refused a duplicate has one).  The caller keeps "" when the lookup itself fails:
\* payload.Id is assigned from the failed call.
CloudflareFind(cfg, zone, val) ==
    {Unsent(zone, NoId)} \cup
    IF WithVal(zone, cfg.site, val) = {} THEN {Outcome(zone, NoId, TRUE, FALSE)}
    ELSE {Outcome(zone, e.id, TRUE, FALSE) : e \in WithVal(zone, cfg.site, val)}

CloudflareCreate(cfg, zone, id, val, rec) ==
    {Unsent(zone, id)} \cup
    IF WithVal(zone, cfg.site, val) # {}
    THEN IF cfg.match THEN CloudflareFind(cfg, zone, val) ELSE {Refused(zone, id)}
    ELSE IF Full(zone) THEN {Refused(zone, id)}
    ELSE Applied(Insert(zone, cfg.site, val, rec), id, zone.next)

\* An entry that is not found, in the zone the client was built for, is made again.
CloudflareUpdate(cfg, zone, id, val, rec) ==
    {Unsent(zone, id)} \cup
    IF WithId(zone, cfg.site, id) = {} THEN CloudflareCreate(cfg, zone, id, val, rec)
    ELSE IF \E e \in WithVal(zone, cfg.site, val) : e.id # id THEN {Refused(zone, id)}
    ELSE Applied(Overwrite(zone, id, val), id, id)

\* Slip: the payload's Id is cleared before the error is looked at.
CloudflareDeleteEager(cfg, zone, id) ==
    {Outcome(zone, NoId, FALSE, TRUE)}
        \cup Applied(Remove(zone, WithId(zone, cfg.site, id)), NoId, NoId)

\* A missing entry counts as deleted.
CloudflareDelete(cfg, zone, id) ==
    {Unsent(zone, id)} \cup Applied(Remove(zone, WithId(zone, cfg.site, id)), id, NoId)

-----------------------------------------------------------------------------
(***************************************************************************)
(* Aliyun DNS                                                              *)
(***************************************************************************)

\* A duplicate is always adopted; a lookup that fails leaves the payload alone.
AliyunCreate(cfg, zone, id, val, rec) ==
    {Unsent(zone, id)} \cup
    IF WithVal(zone, cfg.site, val) # {}
    THEN {Outcome(zone, e.id, TRUE, FALSE) : e \in WithVal(zone, cfg.site, val)}
    ELSE IF Full(zone) THEN {Refused(zone, id)}
    ELSE Applied(Insert(zone, cfg.site, val, rec), id, zone.next)

\* A duplicate is taken for "nothing to change", whichever entry it is.
AliyunUpdate(cfg, zone, id, val, rec) ==
    {Unsent(zone, id)} \cup
    IF WithId(zone, cfg.site, id) = {} THEN AliyunCreate(cfg, zone, id, val, rec)
    ELSE IF WithVal(zone, cfg.site, val) # {} THEN {Outcome(zone, id, TRUE, FALSE)}
    ELSE Applied(Overwrite(zone, id, val), id, id)

\* Every error is returned, that of a missing entry too.
AliyunDelete(cfg, zone, id) ==
    {Unsent(zone, id)} \cup
    IF WithId(zone, cfg.site, id) = {} THEN {Refused(zone, id)}
    ELSE Applied(Remove(zone, WithId(zone, cfg.site, id)), id, NoId)

-----------------------------------------------------------------------------
(***************************************************************************)
(* AdGuard Home: the id of a rewrite is its own content.                   *)
(***************************************************************************)

AdguardInsert(zone, site, val, rec) ==
    IF WithVal(zone, site, val) # {} THEN zone
    ELSE [zone EXCEPT !.entries = @ \cup {[id |-> val, at |-> site, val |-> val, rec |-> rec]}]

AdguardCreate(cfg, zone, id, val, rec) ==
    {Unsent(zone, id)} \cup Applied(AdguardInsert(zone, cfg.site, val, rec), id, val)

\* Delete the rewrite the id names, then create the new one: any of the two
\* calls may fail, and the id is still the old one when it does.
AdguardUpdate(cfg, zone, id, val, rec) ==
    IF id = val THEN {Outcome(zone, id, TRUE, FALSE)}
    ELSE LET removed == Remove(zone, WithVal(zone, cfg.site, id))
         IN {Unsent(zone, id), Unsent(removed, id)}
                \cup AdguardCreate(cfg, removed, id, val, rec)

\* The rewrite deleted is the one the spec describes now, not the one the id names.
AdguardDelete(cfg, zone, id, val) ==
    {Unsent(zone, id)} \cup Applied(Remove(zone, WithVal(zone, cfg.site, val)), id, NoId)

-----------------------------------------------------------------------------
(***************************************************************************)
(* The DNSProvider interface.  cfg is what the client was built from: the  *)
(* service, matchExistsRecord, the site, and whether the factory accepts   *)
(* it (credentials, a zone the service knows).                             *)
(***************************************************************************)

ProviderTypes == {"CLOUDFLARE", "ALIYUN", "ADGUARD"}

ClientConfig == [type : ProviderTypes, match : BOOLEAN, site : Sites, usable : BOOLEAN]

Create(cfg, zone, id, val, rec) ==
    CASE cfg.type = "CLOUDFLARE" -> CloudflareCreate(cfg, zone, id, val, rec)
      [] cfg.type = "ALIYUN"     -> AliyunCreate(cfg, zone, id, val, rec)
      [] cfg.type = "ADGUARD"    -> AdguardCreate(cfg, zone, id, val, rec)

Update(cfg, zone, id, val, rec) ==
    CASE cfg.type = "CLOUDFLARE" -> CloudflareUpdate(cfg, zone, id, val, rec)
      [] cfg.type = "ALIYUN"     -> AliyunUpdate(cfg, zone, id, val, rec)
      [] cfg.type = "ADGUARD"    -> AdguardUpdate(cfg, zone, id, val, rec)

Delete(cfg, zone, id, val) ==
    CASE cfg.type = "CLOUDFLARE" -> CloudflareDelete(cfg, zone, id)
      [] cfg.type = "ALIYUN"     -> AliyunDelete(cfg, zone, id)
      [] cfg.type = "ADGUARD"    -> AdguardDelete(cfg, zone, id, val)
=============================================================================
