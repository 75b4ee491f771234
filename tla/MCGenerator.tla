----------------------------- MODULE MCGenerator -----------------------------
(***************************************************************************)
(* Small instances of GeneratorController for TLC.  Of the two resources   *)
(* one has a finalizer.                                                    *)
(***************************************************************************)
EXTENDS GeneratorController

CONSTANTS ingress, service, blue, green

MCResources == {ingress, service}
MCFinalized == {service}
MCAtStart == {service}
MCLabels == {blue, green}
MCSelectors == {{blue}, {green}}
MCWatcherIds == 1..4

\* Caches as they are, with the resync; and caches that never lag, without it.
MCModes == {[stale |-> TRUE, resync |-> TRUE], [stale |-> FALSE, resync |-> FALSE]}
=============================================================================
