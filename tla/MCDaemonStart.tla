---------------------------- MODULE MCDaemonStart ----------------------------
(***************************************************************************)
(* Settings for DaemonStart: good ones, and others that are refused before *)
(* the identity is loaded, when the relays are added and by the server.    *)
(***************************************************************************)
EXTENDS DaemonStart, TLC

CONSTANTS p1, p2

Limits == {"max_event_bytes", "max_targets_per_request", "job_list_limit",
           "max_concurrent_publish_jobs", "connect_timeout_secs"}

Metadata == [name |-> "valid", nip05 |-> "absent", bot |-> "absent",
             unsupported |-> {}]

Good == [limits |-> [f \in Limits |-> 1], metadata |-> Metadata,
         relays |-> "valid", addr |-> "valid", allow |-> TRUE]

Unannounced == [Good EXCEPT !.relays = "none", !.addr = "malformed",
                            !.allow = FALSE]
BadRelay    == [Good EXCEPT !.relays = "malformed"]
NoLimit     == [Good EXCEPT !.limits["job_list_limit"] = 0]

MCSettings == {Good, Unannounced, BadRelay, NoLimit}
=============================================================================
