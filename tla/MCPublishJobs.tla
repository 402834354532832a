---------------------------- MODULE MCPublishJobs ----------------------------
(***************************************************************************)
(* Values for the constants of PublishJobs.  Two targets share a relay and *)
(* a third has one of its own.  The resolutions cover: nothing resolved,   *)
(* only outcomes, only relays (two targets on one relay), both at once,    *)
(* and the same target failing twice.                                      *)
(***************************************************************************)
EXTENDS PublishJobs, TLC

CONSTANTS c1, c2, k1, t1, t2, t3, r1, r2, i1, i2

MCRelayOf == t1 :> r1 @@ t2 :> r1 @@ t3 :> r2

Outc(t, k) == [target |-> t, kind |-> k]
Pol(type, q, ts) == [type |-> type, quorum |-> q, targets |-> ts]

NothingResolved  == [targets |-> <<>>, outcomes |-> <<>>]
OnlyDeferred     == [targets |-> <<>>, outcomes |-> <<Outc(t3, "Deferred")>>]
OneRelay         == [targets |-> <<t1>>, outcomes |-> <<>>]
TwoScopes        == [targets |-> <<t1, t2>>, outcomes |-> <<>>]
RelayAndRejected == [targets |-> <<t1>>, outcomes |-> <<Outc(t3, "Terminal")>>]
FailsTwice       == [targets |-> <<>>, outcomes |-> <<Outc(t3, "Retryable"),
                                                      Outc(t3, "Retryable")>>]

DaemonResolutions == {NothingResolved, OnlyDeferred, OneRelay, TwoScopes,
                      RelayAndRejected, FailsTwice}
FewResolutions  == {NothingResolved, OneRelay, RelayAndRejected}
MixedResolution == {RelayAndRejected}
OneResolution == {OneRelay}

QuorumAndRequired == i1 :> Pol("Quorum", 2, {}) @@
                     i2 :> Pol("RequiredTargets", 0, {t1})
OneOrRequired     == i1 :> Pol("Quorum", 1, {}) @@
                     i2 :> Pol("RequiredTargets", 0, {t1})
SymmetricCalls == Permutations(Calls)

AnyAndAll == i1 :> Pol("Any", 0, {}) @@ i2 :> Pol("All", 0, {})
=============================================================================
