-------------------------- MODULE TargetResolution --------------------------
(***************************************************************************)
(* Which targets a publish request goes to: resolve_targets_for_request,   *)
(* with its passes over the relays of the request, the author's relays     *)
(* (cached, then discovered) and the daemon's default relays, the DNS      *)
(* check of every relay URL, and the cache of author relays that the calls *)
(* share.                                                                  *)
(*                                                                         *)
(* An Input is a relay string as written in a request, a configuration or  *)
(* a relay list; Parse gives the URL it stands for, if any, so several     *)
(* inputs may be the same relay.  A step is what happens up to the next    *)
(* await: one relay checked, one statement on the cache, the discovery.    *)
(* DNS may answer differently each time it is asked.  Calls for different  *)
(* authors share nothing here, so all calls are for one author.            *)
(***************************************************************************)
EXTENDS Naturals, Sequences, Functions

CONSTANTS
  Calls,
  Inputs,           \* relay strings
  Urls,             \* relay URLs
  Parse,            \* RadrootsRelayUrl::parse: a URL or None
  Trim,             \* str::trim on relay strings
  Scopes,           \* target scopes
  Requests,         \* target policies of requests
  Defaults,         \* config daemon_default_relays
  DiscoveryRelays,  \* config author_relay_discovery_relays
  RelayLists,       \* relay list events (kind 10002) of the author
  PublicPolicy,     \* is config relay_url_policy Public
  MaxFaults         \* bound on failing statements and dropped calls

None == "none"

Entry == [kind : {"nostr", "reticulum", "other", "malformed"},
          input : Inputs, scope : Scopes \cup {None}]
Policies == {"explicit_targets", "explicit_only",
             "request_then_author_then_default", "author_then_default",
             "default_only"}
Tag == [name : {"r", "other"}, relay : Inputs \cup {None},
        marker : {"none", "read", "write"}]

ASSUME ResolutionAssumption ==
  /\ None \notin Urls /\ None \notin Scopes /\ None \notin Inputs
  /\ Parse \in [Inputs -> Urls \cup {None}]
  /\ Trim \in [Inputs -> Inputs]
  /\ \A i \in Inputs : Trim[Trim[i]] = Trim[i]
  /\ Requests \subseteq [policy : Policies, entries : Seq(Entry)]
  /\ Defaults \in Seq(Inputs) /\ DiscoveryRelays \in Seq(Inputs)
  /\ RelayLists \subseteq Seq(Tag)
  /\ PublicPolicy \in BOOLEAN
  /\ MaxFaults \in Nat

VARIABLES
  stage,    \* where each call is
  request,  \* its target policy
  todo,     \* entries of the present pass still to be checked
  found,    \* targets and outcomes of the present pass; at the end, of all
  kept,     \* outcomes of earlier passes
  cache,    \* relays_json of transport_publish_nostr_author_cache
  passed,   \* history: URLs DNS has found public for each call, by source
  faults

vars == <<stage, request, todo, found, kept, cache, passed, faults>>

Passes  == {"request", "cached", "discovery", "discovered", "default"}
Places  == Passes \cup {"idle", "readCache", "fetch", "store", "done",
                        "failed"}
Sources == {"Request", "NostrAuthorWrite", "DaemonDefault", "Reticulum"}
Target  == [url : Urls, scope : Scopes \cup {None}, source : Sources]
Outcome == [kind : {"nostr", "reticulum", "other"},
            endpoint : Urls \cup Inputs, scope : Scopes \cup {None},
            source : Sources,
            outcome : {"ConnectionFailed", "TargetRejected",
                       "DeferredUntilImplemented", "Unsupported"}]
Nothing == [targets |-> <<>>, outcomes |-> <<>>]
NoRequest == [policy |-> None, entries |-> <<>>]

TypeOK ==
  /\ stage \in [Calls -> Places]
  /\ request \in [Calls -> Requests \cup {NoRequest}]
  /\ todo \in [Calls -> Seq(Entry)]
  /\ found \in [Calls -> [targets : Seq(Target), outcomes : Seq(Outcome)]]
  /\ kept \in [Calls -> Seq(Outcome)]
  /\ cache \in Seq(Inputs)
  /\ passed \in [Calls -> SUBSET (Urls \X Sources)]
  /\ faults \in Nat

Init ==
  /\ stage = [c \in Calls |-> "idle"]
  /\ request = [c \in Calls |-> NoRequest]
  /\ todo = [c \in Calls |-> <<>>]
  /\ found = [c \in Calls |-> Nothing]
  /\ kept = [c \in Calls |-> <<>>]
  /\ cache = <<>>
  /\ passed = [c \in Calls |-> {}]
  /\ faults = 0

-----------------------------------------------------------------------------
Plain(list) == [i \in DOMAIN list |-> [kind  |-> "nostr",
                                       input |-> list[i],
                                       scope |-> None]]

(* Start a pass over some entries, with the outcomes kept from before.     *)
Begin(c, pass, entries, outs) ==
  /\ stage' = [stage EXCEPT ![c] = pass]
  /\ todo' = [todo EXCEPT ![c] = entries]
  /\ found' = [found EXCEPT ![c] = Nothing]
  /\ kept' = [kept EXCEPT ![c] = outs]

(* The result: the targets of this pass, and the outcomes of all.          *)
Finish(c) ==
  /\ stage' = [stage EXCEPT ![c] = "done"]
  /\ found' = [found EXCEPT ![c].outcomes = @ \o kept[c]]
  /\ kept' = [kept EXCEPT ![c] = <<>>]
  /\ UNCHANGED todo

(* resolve_targets_for_request: where each target policy starts.           *)
Start(c, q) ==
  /\ stage[c] = "idle"
  /\ request' = [request EXCEPT ![c] = q]
  /\ \/ /\ \/ q.policy \in {"explicit_targets", "explicit_only"}
           \/ /\ q.policy = "request_then_author_then_default"
              /\ q.entries # <<>>
        /\ Begin(c, "request", q.entries, <<>>)
     \/ /\ \/ q.policy = "author_then_default"
           \/ /\ q.policy = "request_then_author_then_default"
              /\ q.entries = <<>>
        /\ Begin(c, "readCache", <<>>, <<>>)
     \/ /\ q.policy = "default_only"
        /\ Begin(c, "default", Plain(Defaults), <<>>)
  /\ UNCHANGED <<cache, passed, faults>>

-----------------------------------------------------------------------------
SourceOf(pass) ==
  CASE pass = "request"                   -> "Request"
    [] pass \in {"cached", "discovered"}  -> "NostrAuthorWrite"
    [] OTHER                              -> "DaemonDefault"

\* Mutant: a relay that is named twice is contacted twice.
PushAgain(targets, t) == Append(targets, t)

(* push_resolved_relay: once per URL and scope.                            *)
push_resolved_relay(targets, t) ==
  IF \E i \in DOMAIN targets : /\ targets[i].url = t.url
                               /\ targets[i].scope = t.scope
  THEN targets
  ELSE Append(targets, t)

Failure(c, kind, endpoint, scope, source, outcome) ==
  /\ found' = [found EXCEPT ![c].outcomes =
                 Append(@, [kind |-> kind, endpoint |-> endpoint,
                            scope |-> scope, source |-> source,
                            outcome |-> outcome])]
  /\ UNCHANGED passed

\* Mutant: relays of the author are trusted once they are in the cache.
NeedsLookupUnlessCached(pass) == PublicPolicy /\ pass # "cached"

(* Only under the public policy are relay names looked up.                 *)
NeedsLookup(pass) == PublicPolicy

(* push_checked_relay_target, DNS having answered.                         *)
CheckUrl(c, url, scope, answer) ==
  LET source == SourceOf(stage[c])
  IN
  \/ /\ NeedsLookup(stage[c]) => answer = "public"
     /\ found' = [found EXCEPT ![c].targets =
                    push_resolved_relay(@, [url |-> url, scope |-> scope,
                                            source |-> source])]
     /\ passed' = IF NeedsLookup(stage[c])
                  THEN [passed EXCEPT ![c] = @ \cup {<<url, source>>}]
                  ELSE passed
  \/ /\ NeedsLookup(stage[c]) /\ answer = "forbidden"
     /\ Failure(c, "nostr", url, scope, source, "TargetRejected")
  \/ /\ NeedsLookup(stage[c]) /\ answer = "no address"
     /\ Failure(c, "nostr", url, scope, source, "ConnectionFailed")

\* Mutant: a malformed relay of the request is passed over like one of a
\* relay list.
MalformedSkipped(c, e) == UNCHANGED <<found, passed>>

(* A relay string that is no URL: reported if the request named it,        *)
(* passed over if a relay list or the configuration did.                   *)
Malformed(c, e) ==
  IF stage[c] = "request"
  THEN Failure(c, "nostr", e.input, e.scope, "Request", "TargetRejected")
  ELSE UNCHANGED <<found, passed>>

(* One turn of the loops of resolve_explicit_targets,                      *)
(* resolve_request_relays, resolve_author_relay_inputs and                 *)
(* resolve_config_relays.  A transport kind that is not well-formed ends   *)
(* the call with an error.                                                 *)
CheckNext(c, answer) ==
  LET e == Head(todo[c])
  IN
  /\ stage[c] \in Passes
  /\ todo[c] # <<>>
  /\ todo' = [todo EXCEPT ![c] = Tail(@)]
  /\ stage' = IF e.kind = "malformed" THEN [stage EXCEPT ![c] = "failed"]
              ELSE stage
  /\ \/ /\ e.kind = "nostr" /\ Parse[e.input] # None
        /\ CheckUrl(c, Parse[e.input], e.scope, answer)
     \/ /\ e.kind = "nostr" /\ Parse[e.input] = None
        /\ Malformed(c, e)
     \/ /\ e.kind = "reticulum"
        /\ Failure(c, e.kind, Trim[e.input], e.scope, "Reticulum",
                   "DeferredUntilImplemented")
     \/ /\ e.kind = "other"
        /\ Failure(c, e.kind, Trim[e.input], e.scope, "Request",
                   "Unsupported")
     \/ /\ e.kind = "malformed"
        /\ UNCHANGED <<found, passed>>
  /\ UNCHANGED <<request, kept, cache, faults>>

-----------------------------------------------------------------------------
(* The relays of the request, or the defaults, have all been checked.      *)
LastPassDone(c) ==
  /\ stage[c] \in {"request", "default"}
  /\ todo[c] = <<>>
  /\ Finish(c)
  /\ UNCHANGED <<request, cache, passed, faults>>

(* resolve_author_write_relays: the cached relays ...                      *)
ReadCache(c) ==
  /\ stage[c] = "readCache"
  /\ Begin(c, "cached", Plain(cache), <<>>)
  /\ UNCHANGED <<request, cache, passed, faults>>

(* ... then discovery, if none of them can be used and any relay is        *)
(* configured for it.  Without author relays the defaults follow.          *)
CachedDone(c) ==
  LET outs == found[c].outcomes
  IN
  /\ stage[c] = "cached"
  /\ todo[c] = <<>>
  /\ \/ /\ found[c].targets # <<>>
        /\ Finish(c)
     \/ /\ found[c].targets = <<>>
        /\ DiscoveryRelays = <<>>
        /\ Begin(c, "default", Plain(Defaults), outs)
     \/ /\ found[c].targets = <<>>
        /\ DiscoveryRelays # <<>>
        /\ Begin(c, "discovery", Plain(DiscoveryRelays), outs)
  /\ UNCHANGED <<request, cache, passed, faults>>

DiscoveryDone(c) ==
  LET outs == found[c].outcomes
  IN
  /\ stage[c] = "discovery"
  /\ todo[c] = <<>>
  /\ \/ /\ found[c].targets = <<>>
        /\ Begin(c, "default", Plain(Defaults), outs \o kept[c])
     \/ /\ found[c].targets # <<>>
        /\ Begin(c, "fetch", <<>>, kept[c] \o outs)
  /\ UNCHANGED <<request, cache, passed, faults>>

(* The relays of a relay list the author writes to.                        *)
author_write_relays_from_nip65_event(list) ==
  LET write == SelectSeq(list, LAMBDA t : /\ t.name = "r"
                                          /\ t.relay # None
                                          /\ t.marker # "read")
  IN  [i \in DOMAIN write |-> Trim[write[i].relay]]

(* fetch_author_write_relays: the newest list the discovery relays hold,   *)
(* whichever that is, or nothing when they fail or hold none.              *)
Fetch(c) ==
  /\ stage[c] = "fetch"
  /\ stage' = [stage EXCEPT ![c] = "store"]
  /\ \E list \in RelayLists \cup {<<>>} :
       todo' = [todo EXCEPT ![c] =
                  Plain(author_write_relays_from_nip65_event(list))]
  /\ UNCHANGED <<request, found, kept, cache, passed, faults>>

(* cache_author_write_relays: whatever was discovered replaces the entry.  *)
StoreCache(c) ==
  /\ stage[c] = "store"
  /\ stage' = [stage EXCEPT ![c] = "discovered"]
  /\ cache' = [i \in DOMAIN todo[c] |-> todo[c][i].input]
  /\ UNCHANGED <<request, todo, found, kept, passed, faults>>

\* Mutant: the relays asked for the list stay among the targets.
DiscoveredDoneKeepingAll(c) ==
  LET ask == SelectSeq(DiscoveryRelays, LAMBDA i : Parse[i] # None)
      asked == [i \in DOMAIN ask |-> [url |-> Parse[ask[i]], scope |-> None,
                                      source |-> "DaemonDefault"]]
  IN
  /\ stage[c] = "discovered"
  /\ todo[c] = <<>>
  /\ stage' = [stage EXCEPT ![c] = "done"]
  /\ found' = [found EXCEPT ![c] = [targets |-> @.targets \o asked,
                                    outcomes |-> @.outcomes \o kept[c]]]
  /\ kept' = [kept EXCEPT ![c] = <<>>]
  /\ UNCHANGED <<request, todo, cache, passed, faults>>

\* Mutant: without a usable relay the author's relays are tried again.
DiscoveredDoneRetrying(c) ==
  /\ stage[c] = "discovered"
  /\ todo[c] = <<>>
  /\ IF found[c].targets # <<>> THEN Finish(c)
     ELSE Begin(c, "readCache", <<>>, <<>>)
  /\ UNCHANGED <<request, cache, passed, faults>>

(* The relays of the list have been checked; without one that can be used  *)
(* the defaults follow.                                                    *)
DiscoveredDone(c) ==
  LET outs == found[c].outcomes
  IN
  /\ stage[c] = "discovered"
  /\ todo[c] = <<>>
  /\ \/ /\ found[c].targets # <<>>
        /\ Finish(c)
     \/ /\ found[c].targets = <<>>
        /\ Begin(c, "default", Plain(Defaults), outs \o kept[c])
  /\ UNCHANGED <<request, cache, passed, faults>>

(* A statement on the cache fails, or the call is dropped at an await.     *)
GiveUp(c) ==
  /\ stage[c] \notin {"idle", "done", "failed"}
  /\ faults < MaxFaults
  /\ faults' = faults + 1
  /\ stage' = [stage EXCEPT ![c] = "failed"]
  /\ UNCHANGED <<request, todo, found, kept, cache, passed>>

-----------------------------------------------------------------------------
CallStep(c) ==
  \/ \E answer \in {"public", "forbidden", "no address"} :
       CheckNext(c, answer)
  \/ LastPassDone(c)
  \/ ReadCache(c)
  \/ CachedDone(c)
  \/ DiscoveryDone(c)
  \/ Fetch(c)
  \/ StoreCache(c)
  \/ DiscoveredDone(c)

Next ==
  \E c \in Calls :
    \/ \E q \in Requests : Start(c, q)
    \/ CallStep(c)
    \/ GiveUp(c)

Spec == Init /\ [][Next]_vars

(* DNS lookups end and the discovery has a timeout.                        *)
FairSpec == Spec /\ \A c \in Calls : WF_vars(CallStep(c))

-----------------------------------------------------------------------------
(* PROPERTIES                                                              *)

TargetKey(t)  == <<"nostr", t.url, t.scope>>
OutcomeKey(o) == <<o.kind, o.endpoint, o.scope>>

(* However relay lists, configuration and requests spell a relay, and      *)
(* whichever pass finds it, an event goes to it once per scope.            *)
TargetsAreDistinct ==
  \A c \in Calls : stage[c] = "done" =>
    \A i, j \in DOMAIN found[c].targets :
      TargetKey(found[c].targets[i]) = TargetKey(found[c].targets[j])
        => i = j

(* Under the public policy every relay an event goes to was found public   *)
(* during this call, also when an earlier call put it into the cache.      *)
TargetsCheckedByThisCall ==
  PublicPolicy =>
    \A c \in Calls : stage[c] = "done" =>
      \A t \in Range(found[c].targets) : <<t.url, t.source>> \in passed[c]

(* The daemon's default relays stand in for the author's: they are used    *)
(* only when no relay of the author passed the check, and the relays that  *)
(* are merely asked for the relay list never receive the event.            *)
DefaultsAreTheFallback ==
  \A c \in Calls :
    stage[c] = "done" /\ request[c].policy # "default_only" =>
      \A t \in Range(found[c].targets) : t.source = "DaemonDefault" =>
        /\ \A u \in Urls : <<u, "NostrAuthorWrite">> \notin passed[c]
        /\ \E i \in DOMAIN Defaults : Parse[Defaults[i]] = t.url

(* The key by which an entry is to be found among targets or outcomes.     *)
EntryKey(e) ==
  LET end == IF e.kind # "nostr" THEN Trim[e.input]
             ELSE IF Parse[e.input] # None THEN Parse[e.input]
             ELSE e.input
  IN  <<e.kind, end, e.scope>>

(* Nothing a request names is dropped silently: each of its entries is a   *)
(* target or has an outcome that says why not.                             *)
RequestIsAnswered ==
  \A c \in Calls :
    /\ stage[c] = "done"
    /\ request[c].policy \in {"explicit_targets", "explicit_only",
                              "request_then_author_then_default"}
    => \A e \in Range(request[c].entries) :
         EntryKey(e) \in
           {TargetKey(t) : t \in Range(found[c].targets)} \cup
           {OutcomeKey(o) : o \in Range(found[c].outcomes)}

(* publish_event_records_dns_failure_as_unattempted_retryable_outcome: a   *)
(* relay that cannot be looked up is one outcome of the job.  Outcomes are *)
(* stored one row per target, and a job with fewer rows than outcomes is   *)
(* invalid, so each target has to be reported once.                        *)
EveryTargetReportedOnce ==
  \A c \in Calls : stage[c] = "done" =>
    \A i, j \in DOMAIN found[c].outcomes :
      OutcomeKey(found[c].outcomes[i]) = OutcomeKey(found[c].outcomes[j])
        => i = j

(* Every resolution comes to an end, however DNS and discovery answer and  *)
(* whatever other calls do to the cache.                                   *)
EveryResolutionEnds ==
  \A c \in Calls : stage[c] # "idle" ~> stage[c] \in {"done", "failed"}
=============================================================================
