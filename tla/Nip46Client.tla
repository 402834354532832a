----------------------------- MODULE Nip46Client -----------------------------
(***************************************************************************)
(* The daemon as a client of remote signers: nip46.connect, which opens a  *)
(* session, and the methods that send one request in a session and wait    *)
(* for its answer (get_public_key, sign_event, ping, nip04 and nip44).     *)
(*                                                                         *)
(* Every RPC call is a task; a step is the code between two awaits that    *)
(* matter: waiting for relays, the relays' OK, the answer, the Mutexes of  *)
(* the session store.  A session has the name of the call that connected   *)
(* it (its UUID is fresh), and so has its Nostr client.  All calls of one  *)
(* session share that client: each has a broadcast receiver and a          *)
(* subscription of its own, and each sees whatever the client receives.    *)
(*                                                                         *)
(* Relays are not trusted: they deliver what they like in any order, and   *)
(* signers answer what they like.  Assumed of cryptography: nobody signs   *)
(* for another key, the id of a request is known to its addressee only,    *)
(* and a secret only to its holders.                                       *)
(***************************************************************************)
EXTENDS Naturals, FiniteSets

CONSTANTS
  Connects, Users,  \* calls of nip46.connect, calls of the other methods
  Signers,
  Secrets, Trim,    \* a secret and the secret without the blanks around it
  Holders,          \* who knows a secret
  Urls,             \* parameters of nip46.connect
  Uses,             \* parameters of the other methods, but for the session
  ConfigPerms,      \* nip46_config.perms
  Events,           \* what relays may deliver
  MaxEvents,        \* bound on the events relays deliver
  MaxIncidents      \* bound on expiries, lag, clients that disconnect and
                    \* the operator's calls

Calls   == Connects \cup Users
None    == "none"
Blank   == "blank"
Empty   == "empty"   \* the id of a response that has none
Garbled == [form |-> "garbled", value |-> None]

(* A permission is an operation, for sign_event perhaps of one event kind. *)
Permission == [op : {"sign", "nip04", "nip44"}, kind : STRING]
AnyKind    == "any"

Url == [mode      : {"bunker", "nostrconnect"},
        authority : {"none", "named", "blank"},   \* signer_authority
        relays    : BOOLEAN,   \* at least one relay
        keys      : BOOLEAN,   \* the client secret key fits, or none is needed
        signer    : Signers \cup {None},
        secret    : Secrets \cup {None},
        perms     : SUBSET Permission]
Methods == {"public_key", "sign", "nip04", "nip44", "ping"}
Use == [op : Methods, kind : STRING,
        sound : BOOLEAN]       \* the other parameters parse, and fit the signer
Body  == [form : {"ack", "secret", "key", "event", "text", "pong", "request",
                  "error", "garbled"}, value : STRING \cup Calls]
Event == [author : Signers, id : Calls \cup {None, Empty}, body : Body]

ASSUME ClientAssumption ==
  /\ None \notin Calls \cup Signers \cup Secrets /\ Blank \notin Secrets
  /\ Empty \notin Calls
  /\ Trim \in [Secrets -> Secrets \cup {Blank}]
  /\ Holders \in [Secrets -> SUBSET Signers]
  /\ Urls \subseteq Url /\ Uses \subseteq Use
  /\ Events \subseteq Event
  /\ MaxEvents \in Nat /\ MaxIncidents \in Nat

VARIABLES
  sessions,  \* Nip46SessionStore.inner, the sessions with remote signers
  used,      \* Nip46SessionStore.used_secrets
  call,      \* the RPC calls
  subs,      \* calls whose subscription is open
  mail,      \* events in the broadcast receiver of each call
  asked,     \* calls whose request has reached a relay
  answered,  \* calls whose client has received the signer's answer to them
  lagged,    \* calls whose receiver has dropped events
  events, incidents  \* how many so far

vars == <<sessions, used, call, subs, mail, asked, answered, lagged, events,
          incidents>>

NoSession == [present |-> FALSE, expired |-> FALSE, required |-> FALSE,
              authorized |-> FALSE, signer |-> None, user |-> None,
              perms |-> {}]
Idle == [at |-> "idle", op |-> None, kind |-> None, url |-> None, on |-> None,
         signer |-> None, user |-> None, answer |-> None]

Listening == {"transmit", "sending", "wait"}
Ended     == {"ok", "error", "dropped"}
Places    == {"idle", "join", "claim", "insert", "update"} \cup Listening \cup Ended

TypeOK ==
  /\ \A k \in Connects : sessions[k].user \in {e.body.value : e \in Events} \cup {None}
                      /\ sessions[k].signer \in Signers \cup {None}
  /\ used \subseteq {Trim[s] : s \in Secrets} \ {Blank}
  /\ \A c \in Calls : call[c].at \in Places
                      /\ call[c].on \in Calls \cup {None}
                      /\ call[c].signer \in Signers \cup {None}
  /\ subs \subseteq Calls /\ asked \subseteq Calls
  /\ answered \subseteq asked
  /\ lagged \subseteq Calls
  /\ mail \in [Calls -> SUBSET Events]
  /\ events \in 0..MaxEvents /\ incidents \in 0..MaxIncidents

Init ==
  /\ sessions = [k \in Connects |-> NoSession]
  /\ used = {}
  /\ call = [c \in Calls |-> Idle]
  /\ subs = {} /\ asked = {} /\ answered = {} /\ lagged = {}
  /\ mail = [c \in Calls |-> {}]
  /\ events = 0 /\ incidents = 0

-----------------------------------------------------------------------------
Live(k) == sessions[k].present /\ ~sessions[k].expired

\* Mutant: a kind of sign_event is granted whatever kinds are configured.
FilterPermsByOperation(requested) ==
  {p \in requested : \E q \in ConfigPerms : q.op = p.op}

filter_perms(requested) ==
  {p \in requested : \/ p \in ConfigPerms
                     \/ /\ p.op = "sign"
                        /\ [op |-> "sign", kind |-> AnyKind] \in ConfigPerms}

sign_event_allowed(perms, kind) ==
  \/ [op |-> "sign", kind |-> AnyKind] \in perms
  \/ [op |-> "sign", kind |-> kind] \in perms

require_permission(s, perm) ==
  (~s.required \/ s.authorized) /\ perm \in s.perms
require_sign_event_permission(s, kind) ==
  (~s.required \/ s.authorized) /\ sign_event_allowed(s.perms, kind)

(* get_public_key and ping ask for no permission.                          *)
Permits(s, use) ==
  CASE use.op \in {"public_key", "ping"} -> TRUE
    [] use.op = "sign" -> require_sign_event_permission(s, use.kind)
    [] OTHER -> require_permission(s, [op |-> use.op, kind |-> use.kind])

Unsubscribe(c) == subs' = subs \ {c}

(* The call returns, or is dropped, and its receiver with it.  Of a call   *)
(* that fails only the client matters, to which its subscription belongs.  *)
Return(c, how) ==
  /\ call' = [call EXCEPT ![c] = IF how = "ok" THEN [@ EXCEPT !.at = "ok"]
                                 ELSE [Idle EXCEPT !.at = how, !.on = call[c].on]]
  /\ mail' = [mail EXCEPT ![c] = {}]

-----------------------------------------------------------------------------
(* What connect_nip46 needs of its parameters, beside a URL that parses.   *)
normalize_authority(a)  == a # "blank"
connect_bunker(u)       == u.relays /\ u.signer # None
connect_nostrconnect(u) == u.relays /\ u.secret # None /\ u.keys

Refused(u) ==
  \/ ~normalize_authority(u.authority)
  \/ u.mode = "bunker" /\ ~connect_bunker(u)
  \/ u.mode = "nostrconnect" /\ ~connect_nostrconnect(u)

StartConnect(c, u) ==
  /\ call[c].at = "idle"
  /\ call' = [call EXCEPT ![c] =
                IF Refused(u) THEN [Idle EXCEPT !.at = "error"]
                ELSE [Idle EXCEPT !.at = "join", !.op = "connect", !.url = u,
                                  !.on = c, !.signer = u.signer]]
  /\ UNCHANGED <<sessions, used, subs, mail, asked, answered, lagged, events,
                 incidents>>

(* get_session and the checks of the method: the call goes on with a copy  *)
(* of the session.                                                         *)
StartUse(c, use, k) ==
  /\ call[c].at = "idle"
  /\ IF Live(k) THEN UNCHANGED sessions
                ELSE sessions' = [sessions EXCEPT ![k] = NoSession]
  /\ call' = [call EXCEPT ![c] =
                IF Live(k) /\ Permits(sessions[k], use) /\ use.sound
                THEN [Idle EXCEPT !.at = "join", !.op = use.op,
                                  !.kind = use.kind, !.on = k,
                                  !.signer = sessions[k].signer,
                                  !.user = sessions[k].user]
                ELSE [Idle EXCEPT !.at = "error"]]
  /\ UNCHANGED <<used, subs, mail, asked, answered, lagged, events, incidents>>

(* The relays are connected, or 10 s have passed: the call takes a         *)
(* receiver, subscribes, and, unless the signer is to speak first, goes on *)
(* to send.  add_relay and subscribe can fail.                             *)
Join(c) ==
  LET first == call[c].op = "connect" /\ call[c].url.mode = "nostrconnect"
  IN
  /\ call[c].at = "join"
  /\ \/ /\ subs' = subs \cup {c}
        /\ call' = [call EXCEPT ![c].at = IF first THEN "wait" ELSE "transmit"]
        /\ UNCHANGED mail
     \/ Return(c, "error") /\ UNCHANGED subs
  /\ UNCHANGED <<sessions, used, asked, answered, lagged, events, incidents>>

(* The request is on the wire; send_event still waits for the relays' OK.  *)
Transmit(c) ==
  /\ call[c].at = "transmit"
  /\ asked' = asked \cup {c}
  /\ call' = [call EXCEPT ![c].at = "sending"]
  /\ UNCHANGED <<sessions, used, subs, mail, answered, lagged, events, incidents>>

SendDone(c) ==
  /\ call[c].at = "sending"
  /\ call' = [call EXCEPT ![c].at = "wait"]
  /\ UNCHANGED <<sessions, used, subs, mail, asked, answered, lagged, events,
                 incidents>>

(* No relay took the request, or none said so.                             *)
SendFails(c) ==
  /\ call[c].at \in {"transmit", "sending"}
  /\ Unsubscribe(c)
  /\ Return(c, "error")
  /\ UNCHANGED <<sessions, used, asked, answered, lagged, events, incidents>>

\* Mutant: the receiver is taken when the request has been sent.
HearsAfterSending(c) == call[c].at = "wait"

Hears(c) == call[c].at \in Listening

(* NostrConnectMessage::is_response; anybody may use any id in a request.  *)
is_response(e) == e.body.form # "request"

(* A relay delivers an event to the client of k, which all its receivers   *)
(* get; a receiver that is behind loses what it has.                       *)
Deliver(k, e) ==
  /\ events < MaxEvents
  /\ \E c \in subs : call[c].on = k
  /\ e.id \in Calls => e.id \in asked /\ call[e.id].on = k
                       /\ call[e.id].signer = e.author
  /\ e.body.form = "secret" => e.author \in Holders[e.body.value]
  /\ events' = events + 1
  /\ answered' = IF e.id \in Calls /\ is_response(e)
                  THEN answered \cup {e.id} ELSE answered
  /\ mail' = [c \in Calls |-> IF call[c].on = k /\ Hears(c)
                              THEN mail[c] \cup {e} ELSE mail[c]]
  /\ UNCHANGED <<sessions, used, call, subs, asked, lagged, incidents>>

Incident == incidents < MaxIncidents /\ incidents' = incidents + 1

Lag(c) ==
  /\ call[c].at = "wait" /\ mail[c] # {}
  /\ Incident
  /\ mail' = [mail EXCEPT ![c] = {}]
  /\ lagged' = lagged \cup {c}
  /\ UNCHANGED <<sessions, used, call, subs, asked, answered, events>>

-----------------------------------------------------------------------------
\* Mutant: any answer of the signer ends the call.
ConcernsAnyAnswer(c, e) == e.author = call[c].signer

(* Whether the call looks at an event, and once it has decrypted, whether  *)
(* it is the answer: the response to its request, or, before a session by  *)
(* nostrconnect URL has a signer, the first response of anyone that has an *)
(* id.                                                                     *)
Addressed(c, e) == call[c].signer \in {None, e.author}
FirstResponse(c, e) == call[c].signer = None /\ e.id # Empty
OwnResponse(c, e)   == call[c].signer = e.author /\ e.id = c
Concerns(c, e) ==
  is_response(e) /\ (FirstResponse(c, e) \/ OwnResponse(c, e))

validate_connect_response(b, secret) ==
  b.form = "ack" \/ (b.form = "secret" /\ b.value = secret)

\* Mutant: "ack" is an answer to a nostrconnect URL, too.
validate_like_bunker(b, secret) == validate_connect_response(b, secret)

validate_nostrconnect_response(b, secret) ==
  b.form = "secret" /\ b.value = secret

ValidConnect(c, b) ==
  IF call[c].url.mode = "bunker"
  THEN validate_connect_response(b, call[c].url.secret)
  ELSE validate_nostrconnect_response(b, call[c].url.secret)

(* The answer as each method needs it.  A signed event must be the one     *)
(* asked for, by the signer, with a valid signature: its value is the call *)
(* whose event it is.                                                      *)
get_public_key(b) == b.form = "key"
nip04(b) == b.form = "text"
nip44(b) == b.form = "text"
ping(b)  == b.form = "pong"
validate_signed_event_response(c, b) == b.form = "event" /\ b.value = c

ValidUse(c, b) ==
  CASE call[c].op = "public_key" -> get_public_key(b)
    [] call[c].op = "sign"       -> validate_signed_event_response(c, b)
    [] call[c].op = "nip04"      -> nip04(b)
    [] call[c].op = "nip44"      -> nip44(b)
    [] call[c].op = "ping"       -> ping(b)

Valid(c, b) == IF call[c].op = "connect" THEN ValidConnect(c, b)
                                         ELSE ValidUse(c, b)

(* Where a valid answer leads.  get_public_key compares it with its copy   *)
(* of the session.                                                         *)
After(c, b) ==
  CASE call[c].op = "connect" -> "claim"
    [] call[c].op = "public_key" /\ b.value # call[c].user -> "update"
    [] OTHER -> "ok"

Ignore(c, e) ==
  /\ mail' = [mail EXCEPT ![c] = @ \ {e}]
  /\ UNCHANGED <<call, subs>>

(* One turn of wait_for_response, wait_for_connect_response or             *)
(* wait_for_nostrconnect_response.  An event that does not decrypt ends    *)
(* the call and leaves its subscription; so does an invalid answer to a    *)
(* nostrconnect URL.                                                       *)
Take(c, e) ==
  /\ call[c].at = "wait"
  /\ e \in mail[c]
  /\ \/ ~Addressed(c, e) /\ Ignore(c, e)
     \/ /\ Addressed(c, e) /\ e.body = Garbled
        /\ Return(c, "error")
        /\ UNCHANGED subs
     \/ Addressed(c, e) /\ e.body # Garbled /\ ~Concerns(c, e) /\ Ignore(c, e)
     \/ /\ Addressed(c, e) /\ e.body # Garbled /\ Concerns(c, e)
        /\ Valid(c, e.body)
        /\ Unsubscribe(c)
        /\ call' = [call EXCEPT ![c].at = After(c, e.body), ![c].answer = e,
                                ![c].signer = e.author]
        /\ mail' = [mail EXCEPT ![c] = {}]
     \/ /\ Addressed(c, e) /\ e.body # Garbled /\ Concerns(c, e)
        /\ ~Valid(c, e.body)
        /\ IF call[c].signer = None THEN UNCHANGED subs ELSE Unsubscribe(c)
        /\ Return(c, "error")
  /\ UNCHANGED <<sessions, used, asked, answered, lagged, events, incidents>>

\* Mutant: the wait has no end of its own.
TimeoutOnceAnswered(c) ==
  /\ call[c].at = "wait" /\ c \in answered
  /\ Unsubscribe(c)
  /\ Return(c, "error")
  /\ UNCHANGED <<sessions, used, asked, answered, lagged, events, incidents>>

(* 10 s without the answer.  (The channel stays open while the call holds  *)
(* its client.)                                                            *)
Timeout(c) ==
  /\ call[c].at = "wait"
  /\ Unsubscribe(c)
  /\ Return(c, "error")
  /\ UNCHANGED <<sessions, used, asked, answered, lagged, events, incidents>>

Claimed(s) == Trim[s]

(* claim_secret: a URL without a secret claims none, an empty one and a    *)
(* used one are refused.                                                   *)
ClaimSecret(c) ==
  LET s == call[c].url.secret
  IN
  /\ call[c].at = "claim"
  /\ \/ /\ s = None
        /\ call' = [call EXCEPT ![c].at = "insert"]
        /\ UNCHANGED <<used, mail>>
     \/ /\ s # None /\ Trim[s] # Blank /\ Claimed(s) \notin used
        /\ used' = used \cup {Claimed(s)}
        /\ call' = [call EXCEPT ![c].at = "insert"]
        /\ UNCHANGED mail
     \/ /\ s # None /\ (Trim[s] = Blank \/ Claimed(s) \in used)
        /\ Return(c, "error")
        /\ UNCHANGED used
  /\ UNCHANGED <<sessions, subs, asked, answered, lagged, events, incidents>>

InsertSession(c) ==
  /\ call[c].at = "insert"
  /\ sessions' = [sessions EXCEPT ![c] =
                    [present |-> TRUE, expired |-> FALSE, required |-> FALSE,
                     authorized |-> TRUE, signer |-> call[c].signer,
                     user |-> None, perms |-> filter_perms(call[c].url.perms)]]
  /\ Return(c, "ok")
  /\ UNCHANGED <<used, subs, asked, answered, lagged, events, incidents>>

\* Mutant: the copy of the session is stored again, with its new key.
UpdateUserFromCopy(c) ==
  /\ call[c].at = "update"
  /\ sessions' = [sessions EXCEPT ![call[c].on].user = call[c].answer.body.value,
                                  ![call[c].on].present = TRUE]
  /\ Return(c, "ok")
  /\ UNCHANGED <<used, subs, asked, answered, lagged, events, incidents>>

(* set_user_pubkey, on the session as it is by now.                        *)
UpdateUser(c) ==
  LET k == call[c].on
  IN
  /\ call[c].at = "update"
  /\ IF Live(k)
     THEN /\ sessions' = [sessions EXCEPT ![k].user = call[c].answer.body.value]
          /\ Return(c, "ok")
     ELSE /\ sessions' = [sessions EXCEPT ![k] = NoSession]
          /\ Return(c, "error")
  /\ UNCHANGED <<used, subs, asked, answered, lagged, events, incidents>>

(* The RPC client disconnects: the call is dropped at an await, and nobody *)
(* unsubscribes for it.                                                    *)
Drop(c) ==
  /\ call[c].at \notin Ended \cup {"idle"}
  /\ Incident
  /\ Return(c, "dropped")
  /\ UNCHANGED <<sessions, used, subs, asked, answered, lagged, events>>

-----------------------------------------------------------------------------
(* nip46.session.require_auth, authorize and close, and session_ttl_secs.  *)
OnSession(k, change) ==
  /\ Incident
  /\ sessions[k].present
  /\ sessions' = [sessions EXCEPT ![k] = IF Live(k) THEN change ELSE NoSession]
  /\ UNCHANGED <<used, call, subs, mail, asked, answered, lagged, events>>

RequireAuth(k) ==
  OnSession(k, [sessions[k] EXCEPT !.required = TRUE, !.authorized = FALSE])
Authorize(k)    == OnSession(k, [sessions[k] EXCEPT !.authorized = TRUE])
CloseSession(k) == OnSession(k, NoSession)
Expire(k) ==
  Live(k) /\ OnSession(k, [sessions[k] EXCEPT !.expired = TRUE])

-----------------------------------------------------------------------------
CallStep(c) ==
  \/ Join(c) \/ Transmit(c) \/ SendDone(c) \/ SendFails(c)
  \/ Timeout(c) \/ ClaimSecret(c) \/ InsertSession(c) \/ UpdateUser(c)
  \/ \E e \in mail[c] : Take(c, e)

Next ==
  \/ \E c \in Connects, u \in Urls : StartConnect(c, u)
  \/ \E c \in Users, use \in Uses, k \in Connects : StartUse(c, use, k)
  \/ \E c \in Calls : CallStep(c) \/ Lag(c) \/ Drop(c)
  \/ \E k \in Connects, e \in Events : Deliver(k, e)
  \/ \E k \in Connects : \/ RequireAuth(k) \/ Authorize(k)
                         \/ CloseSession(k) \/ Expire(k)

Spec == Init /\ [][Next]_vars

(* The runtime polls calls that can go on and fires their timers.  Nothing *)
(* is assumed of relays, signers and operators.                            *)
FairSpec == Spec /\ \A c \in Calls : WF_vars(CallStep(c))

-----------------------------------------------------------------------------
(* PROPERTIES                                                              *)

(* A call that succeeds returns what the signer of its session answered to *)
(* this very request, other calls of the session, late answers and other   *)
(* authors notwithstanding; a signature is on the event that was sent.     *)
AnswersAreGenuine ==
  \A c \in Calls : call[c].at = "ok" /\ call[c].op # "connect" =>
    /\ call[c].answer.author = call[call[c].on].signer
    /\ call[c].answer.id = c
    /\ call[c].op = "sign" => call[c].answer.body.value = c

Connected(c) == call[c].at = "ok" /\ call[c].op = "connect"

(* A session is with the signer the bunker URL names, or with one that     *)
(* knows the secret of the nostrconnect URL, and no secret, however it is  *)
(* spelled, opens two sessions, two connects waiting at once included.     *)
SessionsAreProven ==
  \A c \in Connects : Connected(c) =>
    LET u == call[c].url
    IN /\ sessions[c].present => sessions[c].signer = call[c].signer
       /\ u.mode = "bunker" => call[c].signer = u.signer
       /\ u.mode = "nostrconnect" => call[c].signer \in Holders[u.secret]
       /\ \A d \in Connects \ {c} :
            Connected(d) /\ u.secret # None /\ call[d].url.secret # None =>
              Trim[u.secret] # Trim[call[d].url.secret]

(* A call that waits can be reached, however the other calls of its        *)
(* session end, and the answer to its request reaches it, also when it     *)
(* overtakes the OK of the relays; only lag can lose it.                   *)
AnswerIsHeard ==
  \A c \in Calls : call[c].at \in Listening =>
    /\ c \in subs
    /\ c \in answered \ lagged => \E e \in mail[c] : e.id = c /\ is_response(e)

(* A signer is asked to sign or to encrypt only what the configuration     *)
(* allows, whatever the connection URL asked for.                          *)
AskedWithinConfiguration ==
  \A c \in asked :
    /\ call[c].op = "sign" => sign_event_allowed(ConfigPerms, call[c].kind)
    /\ call[c].op \in {"nip04", "nip44"} =>
         [op |-> call[c].op, kind |-> call[c].kind] \in ConfigPerms

(* A session that was closed or has expired does not come back, whatever   *)
(* calls are still at work with copies of it.                              *)
ClosedStaysClosed ==
  [][\A k \in Connects : Connected(k) /\ ~Live(k) => ~Live(k)']_vars

(* Every call ends, whether relays and signers answer or not.              *)
EveryCallEnds ==
  \A c \in Calls : call[c].at # "idle" ~> call[c].at \in Ended
=============================================================================
