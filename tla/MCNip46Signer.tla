---------------------------- MODULE MCNip46Signer ----------------------------
(***************************************************************************)
(* Values for the constants of Nip46Signer.  Client a connects with a      *)
(* secret, which a nip46.connect call may present, too, and without one,   *)
(* and asks for two things, one of which the permissions cover; client b   *)
(* only pings.                                                             *)
(***************************************************************************)
EXTENDS Nip46Signer, TLC

CONSTANTS a, b, secret, open_a, reopen_a, sign, decrypt, ping, rpc1, rpc2

MCClientOf == [r \in Requests |-> IF r = ping THEN b ELSE a]
MCKindOf   == [r \in Requests |->
                 CASE r \in {open_a, reopen_a} -> "connect"
                   [] r \in {sign, decrypt}    -> "use"
                   [] OTHER                    -> "public"]
MCSecretOf == [r \in Requests |->
                 IF r = open_a THEN secret ELSE None]
=============================================================================
