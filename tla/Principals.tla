----------------------------- MODULE Principals -----------------------------
(***************************************************************************)
(* Who may publish: `radrootsd transport-publish principal init`, which    *)
(* creates a principal and the file with its bearer token, and the RPC     *)
(* server, which finds the principal of a request by the hash of its token *)
(* and checks the event against what the principal may do.                 *)
(*                                                                         *)
(* Several inits may run at once, with the same token file or different    *)
(* ones, and be killed between two steps.  A token is 256 random bits and  *)
(* the table has its hash, so a token, its hash and its principal are all  *)
(* named by the init that made them.                                       *)
(*                                                                         *)
(* A connection is one HTTP request, or a WebSocket: the middleware of the *)
(* server sees the upgrade request only, and its result goes with every    *)
(* call on the socket (jsonrpsee, external).  Nothing in the code revokes  *)
(* a principal or sets its expiry, but every look-up honours both columns; *)
(* the operator sets them with other tools (external).                     *)
(***************************************************************************)
EXTENDS Naturals

CONSTANTS
  Inits,         \* runs of principal init
  Arguments,     \* what they are run with
  Files,         \* token files
  Conns,         \* connections to the RPC server
  Requests,      \* events that are offered for publication
  Enabled,       \* config transport_publish.enabled
  MaxTime,       \* bound on the clock, in seconds
  MaxIncidents   \* bound on kills and failing operations

(* Arguments are whatever the operator has typed.                          *)
ASSUME PrincipalsAssumption ==
  /\ {"none", "new", "foreign", "missing", "invalid"} \cap Inits = {}
  /\ Arguments \subseteq [label : BOOLEAN, pubkeys : SUBSET STRING,
                          kinds : SUBSET Nat, policies : SUBSET STRING,
                          transports : SUBSET STRING, sources : SUBSET STRING,
                          requestTargets : BOOLEAN, visibility : STRING]
  /\ Enabled \in BOOLEAN
  /\ MaxTime \in Nat /\ MaxIncidents \in Nat

VARIABLES
  table,      \* the rows of transport_publish_principals
  init,       \* the runs of principal init
  file,       \* the token files
  conn,       \* the connections
  now,
  incidents

vars == <<table, init, file, conn, now, incidents>>

Policies       == {"explicit_targets", "nostr"}
TransportKinds == {"local", "nostr", "reticulum"}
Sources        == {"explicit_only", "daemon_default_only",
                   "author_write_then_daemon_default",
                   "request_then_author_write_then_daemon_default"}
Visibilities   == {"own", "admin"}
Never == MaxTime + 1

(* What a principal may do; the arguments of an init are such a scope,     *)
(* with whatever the operator has typed in it.                             *)
Scope == [pubkeys : SUBSET {"author", "other"}, kinds : SUBSET Nat,
          policies : SUBSET Policies, transports : SUBSET TransportKinds,
          sources : SUBSET Sources, requestTargets : BOOLEAN]
NoScope == [pubkeys |-> {}, kinds |-> {}, policies |-> {}, transports |-> {},
            sources |-> {}, requestTargets |-> FALSE]

Row   == [present : BOOLEAN, scope : Scope, expires : 0..Never,
          revoked : 0..Never]
NoRow == [present |-> FALSE, scope |-> NoScope, expires |-> Never,
          revoked |-> Never]

NoArgs  == [label |-> FALSE, pubkeys |-> {}, kinds |-> {}, policies |-> {},
            transports |-> {}, sources |-> {}, requestTargets |-> FALSE,
            visibility |-> "none"]
InitRun == [at : {"off", "opening", "creating", "reading", "creatingFile",
                  "writing", "reporting", "reported", "failed"},
            args : Arguments \cup {NoArgs}, file : Files \cup {"none"}]
Idle    == [at |-> "off", args |-> NoArgs, file |-> "none"]

(* The last call of a connection, and what came of it.  A query is any of  *)
(* capabilities, job.get and job.list.                                     *)
NoRequest == [method |-> "none", pubkey |-> "none", kind |-> 0,
              policy |-> "none", transports |-> {}, source |-> "none",
              relays |-> 0]
Query     == [NoRequest EXCEPT !.method = "query"]
NoCall == [form |-> "none", request |-> NoRequest, outcome |-> "none"]
Conn   == [at : {"closed", "ready", "done"}, socket : BOOLEAN,
           auth : Inits \cup {"missing", "invalid"}, scope : Scope,
           since : 0..MaxTime,
           last : [form : {"none", "call", "notification"},
                   request : Requests \cup {NoRequest, Query},
                   outcome : {"none", "unknown", "rejected", "unauthorized",
                              "out_of_scope", "served", "admitted"}]]
Closed == [at |-> "closed", socket |-> FALSE, auth |-> "missing",
           scope |-> NoScope, since |-> 0, last |-> NoCall]

TypeOK ==
  /\ table \in [Inits -> Row]
  /\ init \in [Inits -> InitRun]
  /\ file \in [Files -> Inits \cup {"none", "new", "foreign"}]
  /\ conn \in [Conns -> Conn]
  /\ now \in 0..MaxTime
  /\ incidents \in 0..MaxIncidents

(* Some of the token files may exist before.                               *)
Init ==
  /\ table = [i \in Inits |-> NoRow]
  /\ init = [i \in Inits |-> Idle]
  /\ file \in [Files -> {"none", "foreign"}]
  /\ conn = [c \in Conns |-> Closed]
  /\ now = 0 /\ incidents = 0

-----------------------------------------------------------------------------
(* PRINCIPAL INIT                                                          *)

Incident == incidents < MaxIncidents /\ incidents' = incidents + 1

InitAt(i, at) == init' = [init EXCEPT ![i].at = at]

(* The label is checked by clap and trimmed; names that do not parse are   *)
(* members of the sets that are not among the known ones.                  *)
parses(s) ==
  /\ s.policies \subseteq Policies
  /\ s.transports \subseteq TransportKinds
  /\ s.sources \subseteq Sources
  /\ s.visibility \in Visibilities

validate_principal_init(s) ==
  /\ s.label
  /\ s.pubkeys # {} /\ s.pubkeys \subseteq {"author", "other"}
  /\ s.kinds # {}
  /\ s.policies # {}
  /\ "explicit_targets" \in s.policies <=> s.transports # {}
  /\ "nostr" \in s.policies => s.sources # {}

Run(i, args, f) ==
  /\ init[i].at = "off"
  /\ init' = [init EXCEPT ![i] = [at |-> "opening", args |-> args, file |-> f]]
  /\ UNCHANGED <<table, file, conn, now, incidents>>

(* The store is opened, then the arguments are parsed and validated.       *)
OpenAndParse(i) ==
  /\ init[i].at = "opening"
  /\ InitAt(i, IF /\ parses(init[i].args)
                  /\ validate_principal_init(init[i].args)
               THEN "creating" ELSE "failed")
  /\ UNCHANGED <<table, file, conn, now, incidents>>

(* The INSERT of create_principal, and the look-up by id that follows it.  *)
ScopeOf(args) == [f \in DOMAIN NoScope |-> args[f]]

CreatePrincipal(i) ==
  /\ init[i].at = "creating"
  /\ table' = [table EXCEPT ![i] =
                 [NoRow EXCEPT !.present = TRUE, !.scope = ScopeOf(init[i].args)]]
  /\ InitAt(i, "reading")
  /\ UNCHANGED <<file, conn, now, incidents>>

PrincipalById(i) ==
  /\ init[i].at = "reading"
  /\ InitAt(i, IF table[i].present THEN "creatingFile" ELSE "failed")
  /\ UNCHANGED <<table, file, conn, now, incidents>>

\* Mutant: an existing file is truncated.
CreateTokenFileAnyway(i) ==
  /\ init[i].at = "creatingFile"
  /\ file' = [file EXCEPT ![init[i].file] = "new"]
  /\ InitAt(i, "writing")
  /\ UNCHANGED <<table, conn, now, incidents>>

(* write_token_file: create_new refuses a path that exists ...             *)
CreateTokenFile(i) ==
  /\ init[i].at = "creatingFile"
  /\ IF file[init[i].file] = "none"
     THEN file' = [file EXCEPT ![init[i].file] = "new"] /\ InitAt(i, "writing")
     ELSE UNCHANGED file /\ InitAt(i, "failed")
  /\ UNCHANGED <<table, conn, now, incidents>>

(* ... the token is written, and a newline, without which it is as good ... *)
WriteToken(i) ==
  /\ init[i].at = "writing"
  /\ file' = [file EXCEPT ![init[i].file] = i]
  /\ InitAt(i, "reporting")
  /\ UNCHANGED <<table, conn, now, incidents>>

(* ... and the init prints the new principal's id and the path.            *)
Report(i) ==
  /\ init[i].at = "reporting"
  /\ InitAt(i, "reported")
  /\ UNCHANGED <<table, file, conn, now, incidents>>

\* Mutant: the token file comes first, the principal last.
InitStepFileFirst(i) ==
  \/ OpenAndParse(i) /\ init[i].at = "opening"
  \/ /\ init[i].at = "creating"
     /\ IF file[init[i].file] = "none"
        THEN file' = [file EXCEPT ![init[i].file] = i] /\ InitAt(i, "writing")
        ELSE UNCHANGED file /\ InitAt(i, "failed")
     /\ UNCHANGED <<table, conn, now, incidents>>
  \/ /\ init[i].at = "writing"
     /\ table' = [table EXCEPT ![i] =
          [NoRow EXCEPT !.present = TRUE, !.scope = ScopeOf(init[i].args)]]
     /\ InitAt(i, "reported")
     /\ UNCHANGED <<file, conn, now, incidents>>

(* handle_command                                                          *)
InitStep(i) ==
  \/ OpenAndParse(i)
  \/ CreatePrincipal(i)
  \/ PrincipalById(i)
  \/ CreateTokenFile(i)
  \/ WriteToken(i)
  \/ Report(i)

(* The process is killed, or the operation it is at fails.                 *)
InitDies(i) ==
  /\ init[i].at \notin {"off", "reported", "failed"}
  /\ Incident
  /\ InitAt(i, "failed")
  /\ UNCHANGED <<table, file, conn, now>>

-----------------------------------------------------------------------------
(* THE RPC SERVER                                                          *)

\* Mutant: a principal is good through the second in which it expires.
ActiveThrough(row) == row.present /\ row.revoked = Never /\ row.expires >= now

(* The WHERE clause of principal_for_token_hash.                           *)
Active(row) == row.present /\ row.revoked = Never /\ row.expires > now

(* Headers: none; one that is not a single bearer token; a token from a    *)
(* file; a token this database has never seen.                             *)
Tokens  == {file[f] : f \in Files} \cap Inits
Headers == {"none", "malformed", "unknown"} \cup Tokens

(* authorize_transport_publish_request                                     *)
authorize(header) ==
  IF header = "none" THEN "missing"
  ELSE IF header \in Inits /\ Active(table[header]) THEN header
  ELSE "invalid"

Accept(c, socket, auth) ==
  /\ conn[c].at = "closed"
  /\ conn' = [conn EXCEPT ![c] =
                [Closed EXCEPT !.at = "ready", !.socket = socket,
                               !.auth = auth, !.since = now,
                               !.scope = IF auth \in Inits
                                         THEN table[auth].scope ELSE NoScope]]
  /\ UNCHANGED <<table, init, file, now>>

Connect(c, socket, header) ==
  Accept(c, socket, authorize(header)) /\ UNCHANGED incidents

(* A look-up that fails counts as an invalid token.                        *)
ConnectFails(c) == Accept(c, FALSE, "invalid") /\ Incident

(* PublishPrincipal::allows_event                                          *)
allows_event(s, r) ==
  /\ r.pubkey \in s.pubkeys
  /\ r.kind \in s.kinds
  /\ r.policy \in s.policies
  /\ r.policy = "explicit_targets" =>
       /\ s.requestTargets \/ r.transports = {}
       /\ \A t \in r.transports : t \in s.transports
  /\ r.policy = "nostr" =>
       /\ r.source \in s.sources
       /\ s.requestTargets \/ r.relays = 0

(* RejectPublishNotifications: the methods here all are transport.publish. *)
Rejects(form) == form = "notification"

(* register_all registers the methods if transport_publish is enabled.     *)
Registered == Enabled

require_publish_principal(c) == conn[c].auth \in Inits

(* A method call: the middleware, the registry, require_publish_principal, *)
(* then the method.  Queries need a principal, publishing also its scope.  *)
Outcome(c, form, r) ==
  IF Rejects(form) THEN "rejected"
  ELSE IF ~Registered THEN "unknown"
  ELSE IF ~require_publish_principal(c) THEN "unauthorized"
  ELSE IF r.method = "query" THEN "served"
  ELSE IF allows_event(conn[c].scope, r) THEN "admitted" ELSE "out_of_scope"

Call(c, form, r) ==
  /\ conn[c].at = "ready"
  /\ conn' = [conn EXCEPT ![c].at = IF conn[c].socket THEN "ready" ELSE "done",
                          ![c].last = [form |-> form, request |-> r,
                                       outcome |-> Outcome(c, form, r)]]
  /\ UNCHANGED <<table, init, file, now, incidents>>

Close(c) ==
  /\ conn[c].at \in {"ready", "done"}
  /\ conn' = [conn EXCEPT ![c] = Closed]
  /\ UNCHANGED <<table, init, file, now, incidents>>

-----------------------------------------------------------------------------
(* THE OPERATOR (external)                                                 *)

Revoke(i) ==
  /\ table[i].present /\ table[i].revoked = Never
  /\ table' = [table EXCEPT ![i].revoked = now]
  /\ UNCHANGED <<init, file, conn, now, incidents>>

LimitUntil(i, t) ==
  /\ table[i].present /\ table[i].expires = Never /\ t > now
  /\ table' = [table EXCEPT ![i].expires = t]
  /\ UNCHANGED <<init, file, conn, now, incidents>>

Tick ==
  /\ now < MaxTime
  /\ now' = now + 1
  /\ UNCHANGED <<table, init, file, conn, incidents>>

-----------------------------------------------------------------------------
Next ==
  \/ \E i \in Inits : InitStep(i) \/ InitDies(i) \/ Revoke(i)
  \/ \E i \in Inits, args \in Arguments, f \in Files : Run(i, args, f)
  \/ \E i \in Inits, t \in 1..MaxTime : LimitUntil(i, t)
  \/ \E c \in Conns, socket \in BOOLEAN, h \in Headers : Connect(c, socket, h)
  \/ \E c \in Conns : ConnectFails(c) \/ Close(c)
  \/ \E c \in Conns, form \in {"call", "notification"},
        r \in Requests \cup {Query} : Call(c, form, r)
  \/ Tick

Spec == Init /\ [][Next]_vars

-----------------------------------------------------------------------------
(* PROPERTIES                                                              *)

(* A token somebody can read opens the door: a token file that has been    *)
(* written names a principal that is in the database, whenever inits are   *)
(* killed, and however many share a path.                                  *)
TokenFilesWork ==
  \A f \in Files : file[f] \in Inits => table[file[f]].present

(* An init that reports success has handed its token over, and another     *)
(* init with the same path never takes it away again; a principal without  *)
(* a token is one whose init has not, or not yet, reported success.        *)
ReportedMeansDelivered ==
  \A i \in Inits : init[i].at = "reported" => file[init[i].file] = i

(* An existing file, a token of an earlier init or anything else, is never *)
(* written over.                                                           *)
FilesAreKept ==
  [][\A f \in Files : file[f] \in Inits \cup {"foreign"} =>
       file'[f] = file[f]]_vars

(* What is published was asked for with authority: in a call that expects  *)
(* an answer, on a connection whose principal had been neither revoked nor *)
(* expired when the connection was accepted, and within its scope: the     *)
(* author, the kind and every target.                                      *)
AdmittedWithAuthority ==
  \A c \in Conns : conn[c].last.outcome = "admitted" =>
    LET i == conn[c].auth
        r == conn[c].last.request
        s == conn[c].scope
    IN  /\ conn[c].last.form = "call"
        /\ table[i].scope = s
        /\ table[i].revoked >= conn[c].since
        /\ table[i].expires > conn[c].since
        /\ r.pubkey \in s.pubkeys /\ r.kind \in s.kinds
        /\ IF r.policy = "explicit_targets" THEN r.transports \subseteq s.transports
           ELSE r.relays > 0 => s.requestTargets
=============================================================================
