----------------------------- MODULE Nip46Signer -----------------------------
(***************************************************************************)
(* The daemon as a NIP-46 remote signer: the listener that handles the     *)
(* requests of clients, the session store both it and the RPC methods use, *)
(* and the operator's nip46.session.* methods.                             *)
(*                                                                         *)
(* The listener is one task that handles one request at a time; every RPC  *)
(* call is a task of its own.  They meet in the two Mutexes of             *)
(* Nip46SessionStore, so a step is one store method, together with the     *)
(* code up to the next await.  After the session has been read there is no *)
(* await before the keys are used: reading and serving are one step.       *)
(*                                                                         *)
(* A client is its public key, which is also the id of its session.  All   *)
(* sessions of clients have the permissions of the configuration, so       *)
(* Permitted is a set of requests.  Sessions with remote signers have ids  *)
(* of their own; here they only matter for the secrets they claim.         *)
(***************************************************************************)
EXTENDS Naturals, FiniteSets

CONSTANTS
  Clients,
  Requests,       \* NIP-46 requests
  ClientOf,       \* who sends a request
  KindOf,         \* "connect", "use" (sign_event, nip04, nip44) or "public"
  SecretOf,       \* secret of a connect request, or none
  Permitted,      \* the requests the configured permissions cover
  Secrets,
  Rpcs,           \* RPC calls that run over several awaits
  MaxDeliveries,  \* bound on the deliveries of one request
  MaxOperator,    \* bound on the operator's calls and listener failures
  MaxRestarts     \* bound on restarts of the daemon

None == "none"

ASSUME SignerAssumption ==
  /\ None \notin Requests /\ None \notin Secrets
  /\ "listener" \notin Rpcs /\ IsFiniteSet(Rpcs)
  /\ ClientOf \in [Requests -> Clients]
  /\ KindOf \in [Requests -> {"connect", "use", "public"}]
  /\ SecretOf \in [Requests -> Secrets \cup {None}]
  /\ Permitted \subseteq Requests
  /\ MaxDeliveries \in Nat /\ MaxOperator \in Nat /\ MaxRestarts \in Nat

VARIABLES
  sessions,   \* Nip46SessionStore.inner, the sessions of clients
  used,       \* Nip46SessionStore.used_secrets
  task,       \* what the listener and the RPC calls are doing
  delivered,  \* how often each request has reached the listener
  served,     \* how often a request has passed the gate to the keys
  admitted,   \* sessions created with each secret since the last start
  operator,
  restarts

vars == <<sessions, used, task, delivered, served, admitted, operator,
          restarts>>

Handlers == {"listener"} \cup Rpcs

Session   == [present : BOOLEAN, expired : BOOLEAN, required : BOOLEAN,
              authorized : BOOLEAN, pending : Requests \cup {None}]
NoSession == [present |-> FALSE, expired |-> FALSE, required |-> FALSE,
              authorized |-> FALSE, pending |-> None]
Task == [at : {"idle", "claim", "insert", "read", "park", "stopped"},
         request : Requests \cup {None}, secret : Secrets \cup {None}]
Idle == [at |-> "idle", request |-> None, secret |-> None]

TypeOK ==
  /\ sessions \in [Clients -> Session]
  /\ used \subseteq Secrets
  /\ task \in [Handlers -> Task]
  /\ delivered \in [Requests -> Nat]
  /\ served \in [Requests -> Nat]
  /\ admitted \in [Secrets -> Nat]
  /\ operator \in Nat
  /\ restarts \in Nat

Init ==
  /\ sessions = [c \in Clients |-> NoSession]
  /\ used = {}
  /\ task = [h \in Handlers |-> Idle]
  /\ delivered = [r \in Requests |-> 0]
  /\ served = [r \in Requests |-> 0]
  /\ admitted = [s \in Secrets |-> 0]
  /\ operator = 0
  /\ restarts = 0

-----------------------------------------------------------------------------
(* A session the store methods work with: an expired one is removed by     *)
(* whichever of them meets it.                                             *)
Live(c) == sessions[c].present /\ ~sessions[c].expired

Remove(c) == sessions' = [sessions EXCEPT ![c] = NoSession]

Finish(h) == task' = [task EXCEPT ![h] = Idle]

(* Where handle_request starts.                                            *)
StartOf(r) ==
  [at      |-> CASE KindOf[r] = "use" -> "read"
                 [] KindOf[r] = "connect" /\ SecretOf[r] # None -> "claim"
                 [] KindOf[r] = "connect" /\ SecretOf[r] = None -> "insert"
                 [] OTHER -> "idle",
   request |-> IF KindOf[r] = "public" THEN None ELSE r,
   secret  |-> IF KindOf[r] = "connect" THEN SecretOf[r] ELSE None]

(* An event of a client reaches the listener: the first time, again from a *)
(* client that repeats it, or never when the notification channel lags.    *)
(* Ping, get_public_key and connects that are malformed are answered at    *)
(* once.  Sending a response touches no state and is left out.             *)
Receive(r) ==
  /\ task["listener"].at = "idle"
  /\ delivered[r] < MaxDeliveries
  /\ delivered' = [delivered EXCEPT ![r] = @ + 1]
  /\ task' = [task EXCEPT !["listener"] = StartOf(r)]
  /\ UNCHANGED <<sessions, used, served, admitted, operator, restarts>>

(* nip46.connect has the remote signer's answer and is about to claim the  *)
(* secret of the connection URL.                                           *)
ConnectOutbound(h, s) ==
  /\ task[h].at = "idle"
  /\ operator < MaxOperator
  /\ operator' = operator + 1
  /\ task' = [task EXCEPT ![h] = [at |-> "claim", request |-> None,
                                  secret |-> s]]
  /\ UNCHANGED <<sessions, used, delivered, served, admitted, restarts>>

\* Mutant: the secret is remembered but not looked up.
SecretTakenUnchecked(s) == FALSE

SecretTaken(s) == s \in used

(* claim_secret: the connect request ends here if the secret was used.     *)
ClaimSecret(h) ==
  /\ task[h].at = "claim"
  /\ IF SecretTaken(task[h].secret)
     THEN Finish(h) /\ UNCHANGED used
     ELSE /\ used' = used \cup {task[h].secret}
          /\ task' = [task EXCEPT ![h].at = "insert"]
  /\ UNCHANGED <<sessions, delivered, served, admitted, operator, restarts>>

(* insert: a connect replaces whatever session the client had.             *)
InsertSession(h) ==
  LET s == task[h].secret
      r == task[h].request
  IN
  /\ task[h].at = "insert"
  /\ admitted' = IF s = None THEN admitted ELSE [admitted EXCEPT ![s] = @ + 1]
  /\ sessions' = IF r = None THEN sessions
                 ELSE [sessions EXCEPT ![ClientOf[r]] =
                         [present |-> TRUE, expired |-> FALSE,
                          required |-> FALSE, authorized |-> TRUE,
                          pending |-> None]]
  /\ Finish(h)
  /\ UNCHANGED <<used, delivered, served, operator, restarts>>

\* Mutant: a replayed request is served on the strength of its approval.
ReadSessionTrustingReplay(h) ==
  LET r == task[h].request
      c == ClientOf[r]
      serve == h \in Rpcs \/ (Live(c) /\ (~sessions[c].required
                                          \/ sessions[c].authorized))
  IN
  /\ task[h].at = "read"
  /\ served' = IF serve THEN [served EXCEPT ![r] = @ + 1] ELSE served
  /\ task' = [task EXCEPT ![h] = IF serve \/ ~Live(c) THEN Idle
                                 ELSE [@ EXCEPT !.at = "park"]]
  /\ UNCHANGED <<sessions, used, delivered, admitted, operator, restarts>>

(* session_for_client, the permission check and the first half of          *)
(* auth_challenge: no session or no permission is an error, an unanswered  *)
(* challenge parks the request, and otherwise the keys are used (or an     *)
(* error of the operation itself is answered, as for an event to be signed *)
(* with another key).                                                      *)
ReadSession(h) ==
  LET r == task[h].request
      c == ClientOf[r]
      s == sessions[c]
  IN
  /\ task[h].at = "read"
  /\ \/ /\ ~Live(c)
        /\ Remove(c)
        /\ Finish(h)
        /\ UNCHANGED served
     \/ /\ Live(c) /\ r \notin Permitted
        /\ Finish(h)
        /\ UNCHANGED <<sessions, served>>
     \/ /\ Live(c) /\ r \in Permitted /\ s.required /\ ~s.authorized
        /\ task' = [task EXCEPT ![h].at = "park"]
        /\ UNCHANGED <<sessions, served>>
     \/ /\ Live(c) /\ r \in Permitted /\ (~s.required \/ s.authorized)
        /\ served' = [served EXCEPT ![r] = @ + 1]
        /\ Finish(h)
        /\ UNCHANGED sessions
  /\ UNCHANGED <<used, delivered, admitted, operator, restarts>>

\* Mutant: a request whose session has gone meanwhile waits for it.
ParkRequestWaiting(h) ==
  LET r == task[h].request
      c == ClientOf[r]
  IN
  /\ task[h].at = "park"
  /\ Live(c)
  /\ sessions' = [sessions EXCEPT ![c].pending = r]
  /\ Finish(h)
  /\ UNCHANGED <<used, delivered, served, admitted, operator, restarts>>

(* set_pending_request, on the session as it is by now; the client gets    *)
(* the auth URL either way.  An earlier pending request is overwritten.    *)
ParkRequest(h) ==
  LET r == task[h].request
      c == ClientOf[r]
  IN
  /\ task[h].at = "park"
  /\ IF Live(c) THEN sessions' = [sessions EXCEPT ![c].pending = r]
                ELSE Remove(c)
  /\ Finish(h)
  /\ UNCHANGED <<used, delivered, served, admitted, operator, restarts>>

(* The listener ends for good when a response cannot be built or the       *)
(* notification channel closes.                                            *)
ListenerStops ==
  /\ task["listener"].at = "idle"
  /\ operator < MaxOperator
  /\ operator' = operator + 1
  /\ task' = [task EXCEPT !["listener"].at = "stopped"]
  /\ UNCHANGED <<sessions, used, delivered, served, admitted, restarts>>

-----------------------------------------------------------------------------
OperatorCall ==
  /\ operator < MaxOperator
  /\ operator' = operator + 1
  /\ UNCHANGED restarts

(* nip46.session.require_auth                                              *)
RequireAuth(c) ==
  /\ OperatorCall
  /\ IF Live(c)
     THEN sessions' = [sessions EXCEPT ![c].required = TRUE,
                                       ![c].authorized = FALSE,
                                       ![c].pending = None]
     ELSE Remove(c)
  /\ UNCHANGED <<used, task, delivered, served, admitted>>

\* Mutant: the pending request stays in the session when it is replayed.
AuthorizeKeepingPending(h, c) ==
  LET r == sessions[c].pending
  IN
  /\ task[h].at = "idle"
  /\ OperatorCall
  /\ IF Live(c)
     THEN /\ sessions' = [sessions EXCEPT ![c].authorized = TRUE]
          /\ task' = IF r = None THEN task
                     ELSE [task EXCEPT ![h] = StartOf(r)]
     ELSE Remove(c) /\ UNCHANGED task
  /\ UNCHANGED <<used, delivered, served, admitted>>

(* nip46.session.authorize: the pending request is taken out of the        *)
(* session and handled again by this call, as if it had just arrived.      *)
Authorize(h, c) ==
  LET r == sessions[c].pending
  IN
  /\ task[h].at = "idle"
  /\ OperatorCall
  /\ IF Live(c)
     THEN /\ sessions' = [sessions EXCEPT ![c].authorized = TRUE,
                                          ![c].pending = None]
          /\ task' = IF r = None THEN task
                     ELSE [task EXCEPT ![h] = StartOf(r)]
     ELSE Remove(c) /\ UNCHANGED task
  /\ UNCHANGED <<used, delivered, served, admitted>>

(* nip46.session.close                                                     *)
CloseSession(c) ==
  /\ OperatorCall
  /\ sessions[c].present
  /\ Remove(c)
  /\ UNCHANGED <<used, task, delivered, served, admitted>>

(* nip46.session.status: an expired session is removed.                    *)
SessionStatus(c) ==
  /\ sessions[c].present /\ sessions[c].expired
  /\ Remove(c)
  /\ UNCHANGED <<used, task, delivered, served, admitted, operator, restarts>>

(* nip46.session.list: all expired sessions are removed.                   *)
ListSessions ==
  /\ \E c \in Clients : sessions[c].present /\ sessions[c].expired
  /\ sessions' = [c \in Clients |-> IF Live(c) THEN sessions[c] ELSE NoSession]
  /\ UNCHANGED <<used, task, delivered, served, admitted, operator, restarts>>

(* session_ttl_secs have passed.                                           *)
Expire(c) ==
  /\ Live(c)
  /\ sessions' = [sessions EXCEPT ![c].expired = TRUE]
  /\ UNCHANGED <<used, task, delivered, served, admitted, operator, restarts>>

(* The client of an RPC call disconnects: the call is dropped at an await. *)
DropRpc(h) ==
  /\ task[h].at # "idle"
  /\ Finish(h)
  /\ UNCHANGED <<sessions, used, delivered, served, admitted, operator,
                 restarts>>

(* Sessions and used secrets live in memory only.                          *)
Restart ==
  /\ restarts < MaxRestarts
  /\ restarts' = restarts + 1
  /\ sessions' = [c \in Clients |-> NoSession]
  /\ used' = {}
  /\ task' = [h \in Handlers |-> Idle]
  /\ admitted' = [s \in Secrets |-> 0]
  /\ UNCHANGED <<delivered, served, operator>>

-----------------------------------------------------------------------------
HandlerStep(h) ==
  ClaimSecret(h) \/ InsertSession(h) \/ ReadSession(h) \/ ParkRequest(h)

Next ==
  \/ \E r \in Requests : Receive(r)
  \/ \E h \in Handlers : HandlerStep(h)
  \/ \E h \in Rpcs : \E s \in Secrets : ConnectOutbound(h, s)
  \/ \E h \in Rpcs : \E c \in Clients : Authorize(h, c)
  \/ \E h \in Rpcs : DropRpc(h)
  \/ \E c \in Clients : RequireAuth(c) \/ CloseSession(c)
                      \/ SessionStatus(c) \/ Expire(c)
  \/ ListSessions
  \/ ListenerStops
  \/ Restart

Spec == Init /\ [][Next]_vars

(* The runtime polls tasks that can go on; nothing is assumed of clients,  *)
(* the operator or the clock.                                              *)
FairSpec == Spec /\ \A h \in Handlers : WF_vars(HandlerStep(h))

-----------------------------------------------------------------------------
(* PROPERTIES                                                              *)

Handling(r) == {h \in Handlers : task[h].request = r}
Parked(r)   == IF sessions[ClientOf[r]].pending = r THEN 1 ELSE 0

(* A request is served at most once for each time it arrived: parking,     *)
(* challenging again and replaying by concurrent authorize calls move a    *)
(* delivery around and never copy it.                                      *)
ServedOncePerDelivery ==
  \A r \in Requests : KindOf[r] = "use" =>
    served[r] + Cardinality(Handling(r)) + Parked(r) <= delivered[r]

(* The keys are used only for a client whose session, at that very moment, *)
(* exists, has not expired, and is not waiting for the operator; replays   *)
(* are no exception.                                                       *)
ServedThroughTheGate ==
  [][\A r \in Requests : served'[r] # served[r] =>
       LET s == sessions[ClientOf[r]]
       IN  /\ s.present /\ ~s.expired
           /\ ~s.required \/ s.authorized
           /\ r \in Permitted]_vars

(* A connect secret admits one session between two restarts, whether a     *)
(* client or the daemon's own nip46.connect presents it first.             *)
SecretAdmitsOne == \A s \in Secrets : admitted[s] <= 1

(* The listener is never stuck in a request: every request it takes up is  *)
(* answered, also when its session disappears meanwhile.                   *)
EveryRequestAnswered ==
  task["listener"].at \in {"claim", "insert", "read", "park"}
    ~> task["listener"].at \in {"idle", "stopped"}
=============================================================================
