---------------------------- MODULE MCPrincipals ----------------------------
(***************************************************************************)
(* Values for Principals: a scope for explicit targets, one for the relays *)
(* of the daemon, and one that is inconsistent; a request within each of   *)
(* them, and one of which only the first target is.                        *)
(***************************************************************************)
EXTENDS Principals, TLC

Explicit == [label |-> TRUE, pubkeys |-> {"author"}, kinds |-> {1},
             policies |-> {"explicit_targets"}, transports |-> {"local"},
             sources |-> {}, requestTargets |-> TRUE, visibility |-> "own"]
Relayed  == [Explicit EXCEPT !.policies = {"nostr"}, !.transports = {},
                             !.sources = {"daemon_default_only"},
                             !.requestTargets = FALSE]
Dangling == [Explicit EXCEPT !.policies = {"nostr"}]

MCArguments == {Explicit, Relayed, Dangling}

Mixed    == [method |-> "event", pubkey |-> "author", kind |-> 1,
             policy |-> "explicit_targets",
             transports |-> {"local", "nostr"}, source |-> "explicit_only",
             relays |-> 0]
Local    == [Mixed EXCEPT !.transports = {"local"}]
Defaults == [Mixed EXCEPT !.policy = "nostr", !.transports = {},
                          !.source = "daemon_default_only"]

MCRequests == {Mixed, Local, Defaults}

Symmetry == Permutations(Inits) \cup Permutations(Files)
=============================================================================
