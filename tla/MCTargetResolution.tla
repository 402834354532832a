-------------------------- MODULE MCTargetResolution --------------------------
(***************************************************************************)
(* Values for the constants of TargetResolution: two relays, one of them   *)
(* spelled in two ways, a string that is no relay URL, and requests of     *)
(* every policy.                                                           *)
(***************************************************************************)
EXTENDS TargetResolution, TLC

CONSTANTS c1, c2, u1, u2, in1, in1b, in2, bad, scope

MCParse == [i \in Inputs |-> CASE i \in {in1, in1b} -> u1
                               [] i = in2           -> u2
                               [] OTHER             -> None]
MCTrim == [i \in Inputs |-> IF i = in1b THEN in1 ELSE i]
PlainParse == [i \in Inputs |-> IF i = in1 THEN u1 ELSE u2]

Ent(kind, i, s) == [kind |-> kind, input |-> i, scope |-> s]
Req(policy, entries) == [policy |-> policy, entries |-> entries]
RTag(i, marker) == [name |-> "r", relay |-> i, marker |-> marker]

ByAuthor == Req("author_then_default", <<>>)
NamedRequests ==
  {Req("explicit_targets", <<Ent("nostr", in1, None), Ent("nostr", in1, scope),
                             Ent("reticulum", in1b, None),
                             Ent("other", in2, None)>>),
   Req("explicit_targets", <<Ent("nostr", in2, None),
                             Ent("malformed", in2, None)>>),
   Req("explicit_only", <<Ent("nostr", in1, None), Ent("nostr", bad, None),
                          Ent("nostr", in1b, None)>>),
   Req("default_only", <<>>)}
AuthorRequests == {ByAuthor, Req("request_then_author_then_default", <<>>)}
AllRequests == NamedRequests \cup AuthorRequests \cup
  {Req("request_then_author_then_default", <<Ent("nostr", in2, None)>>)}
OnlyByAuthor == {ByAuthor}

MCDiscovery == <<in1, bad>>
OneList == {<<RTag(in1, "write")>>}
TwoLists == {<<RTag(in1, "write"), RTag(None, "none"), RTag(in1b, "none"),
               RTag(in2, "read")>>,
             <<RTag(in2, "none"), RTag(bad, "none"),
               [name |-> "other", relay |-> in1, marker |-> "none"]>>}
OneDefault == <<in2>>
OneDiscovery == <<in1>>
=============================================================================
