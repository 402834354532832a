---------------------------- MODULE MCJobQueries ----------------------------
(***************************************************************************)
(* Values for JobQueries: a call of a principal that sees its own jobs     *)
(* only, and one of an administrator.                                      *)
(***************************************************************************)
EXTENDS JobQueries, TLC

CONSTANTS c1, c2, t1, r1, i1, alice, admin

MCRelayOf == t1 :> r1
MCOwnerOf == c1 :> alice @@ c2 :> admin
MCPolicyOf == i1 :> [type |-> "Any", quorum |-> 0, targets |-> {}]

MCResolutions == {[targets |-> <<t1>>, outcomes |-> <<>>]}
=============================================================================
