---------------------------- MODULE MCNip46Client ----------------------------
(* Three calls, two signers of which one holds the secret, a secret that   *)
(* is spelled in two ways, and a configuration that allows one kind of     *)
(* event.                                                                  *)
EXTENDS Nip46Client

CONSTANTS c1, c2, c3

MCConnects == {c1, c2}
MCUsers    == {c2, c3}
MCSigners == {"signer", "stranger"}
MCSecrets == {"secret", "secret ", " "}
MCTrim    == [s \in MCSecrets |-> IF s = " " THEN Blank ELSE "secret"]
MCHolders == [s \in MCSecrets |-> {"signer"}]

Sign(kind)    == [op |-> "sign", kind |-> kind]
MCConfigPerms == {Sign("k1")}

Nostrconnect == [mode |-> "nostrconnect", authority |-> "named",
                 relays |-> TRUE, keys |-> TRUE, signer |-> None,
                 secret |-> "secret", perms |-> {}]
Bunker == [Nostrconnect EXCEPT !.mode = "bunker", !.signer = "signer",
                               !.secret = "secret "]
MCUrls == {Nostrconnect, Bunker,
           [Bunker EXCEPT !.secret = None, !.perms = {Sign("k1"), Sign("k2")}],
           [Bunker EXCEPT !.secret = " "],
           [Nostrconnect EXCEPT !.keys = FALSE]}

Using(op, kind) == [op |-> op, kind |-> kind, sound |-> TRUE]
MCUses == {Using("public_key", None), Using("sign", "k1"), Using("sign", "k2"),
           Using("nip44", None)}

E(author, id, form, value) ==
  [author |-> author, id |-> id, body |-> [form |-> form, value |-> value]]
MCEvents == {E("stranger", None, "ack", None),
             E("stranger", Empty, "ack", None),
             E("stranger", None, "request", None),
             E("stranger", None, "garbled", None),
             E("signer", None, "secret", "secret"),
             E("signer", c3, "request", None),
             E("signer", None, "garbled", None)}
            \cup {E("signer", c, "ack", None) : c \in MCConnects}
            \cup {E("signer", c, "key", "user") : c \in MCUsers}
            \cup {E("signer", c, "error", None) : c \in MCUsers}
            \cup {E("signer", c, "event", d) : c, d \in MCUsers}
=============================================================================
