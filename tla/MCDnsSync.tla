----------------------------- MODULE MCDnsSync -----------------------------
(***************************************************************************)
(* Instances of DnsSync for TLC.  One Record and one provider show every   *)
(* interleaving of a reconciliation with the rest; two Records show what   *)
(* they do to each other through one zone.                                 *)
(***************************************************************************)
EXTENDS DnsSyncInvariant

CONSTANTS r1, r2, p1, p2, v1, v2, here, there

\* Providers of one type, set up for one site; "badly" is a setup no client comes from, and
\* "moved" one for another site.
AllOf(type, match) ==
    [p \in Providers |-> [c \in Setups |->
        [type |-> type, match |-> match, site |-> IF c = "moved" THEN "away" ELSE "home",
         usable |-> c # "badly"]]]
Cloudflare == AllOf("CLOUDFLARE", FALSE)
CloudflareMatching == AllOf("CLOUDFLARE", TRUE)
Aliyun == AllOf("ALIYUN", FALSE)
Adguard == AllOf("ADGUARD", FALSE)

\* Selectors: everything, the label set "here" only, another domain, and an ill-formed one.
Everything == [domain |-> Values, labels |-> Labels, valid |-> TRUE]
HereOnly == [domain |-> Values, labels |-> {here}, valid |-> TRUE]
OtherDomain == [domain |-> {}, labels |-> Labels, valid |-> TRUE]
IllFormed == [domain |-> Values, labels |-> Labels, valid |-> FALSE]
SelectAll == {Everything}
SelectAllOrNone == {Everything, OtherDomain}
SelectAllOrHere == {Everything, HereOnly}
SelectAllOrFail == {Everything, IllFormed}
=============================================================================
