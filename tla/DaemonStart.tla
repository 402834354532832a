----------------------------- MODULE DaemonStart -----------------------------
(***************************************************************************)
(* run(): a process checks its settings, loads the identity (module        *)
(* IdentityStorage), opens the store, adds its relays, starts two tasks -  *)
(* the announcement of the service and the NIP-46 listener - and only then *)
(* binds the address of the RPC server, which fails if another daemon has  *)
(* it.  Processes that start at the same time or one after the other share *)
(* the identity files and the address.  The tasks end with the process.    *)
(***************************************************************************)
EXTENDS IdentityStorage

CONSTANTS
  Settings,    \* the settings processes may be started with
  Nobody       \* the address is not bound

ASSUME StartAssumption == Nobody \notin Procs

ASSUME SettingsAssumption == \A s \in Settings : s.allow \in BOOLEAN

VARIABLES
  daemon,     \* how far each process is once its identity is loaded
  presence,   \* the task that announces the service
  listening,  \* processes with a NIP-46 listener
  server,     \* the process that has the address
  announced   \* identities published, which should last

vars == <<storageVars, daemon, presence, listening, server, announced>>
startVars == <<daemon, presence, listening, server, announced>>

Daemon == [at : {"none", "relays", "bind", "up"},
           settings : Settings \cup {Nobody}]
NoDaemon == [at |-> "none", settings |-> Nobody]

TypeOK ==
  /\ StorageTypeOK
  /\ daemon \in [Procs -> Daemon]
  /\ presence \in [Procs -> {"none", "connect", "profile", "handler",
                             "ended"}]
  /\ listening \subseteq {p \in Procs : daemon[p].at \in {"bind", "up"}}
  /\ server \in {p \in Procs : daemon[p].at = "up"} \cup {Nobody}
  /\ announced \subseteq Starts

Init ==
  /\ StorageInit
  /\ daemon = [p \in Procs |-> NoDaemon]
  /\ presence = [p \in Procs |-> "none"]
  /\ listening = {}
  /\ server = Nobody
  /\ announced = {}

-----------------------------------------------------------------------------
(* The strict profile: a valid name, a valid NIP-05 identifier if any, a   *)
(* Boolean bot if any, and none of the fields that cannot be authored.     *)
authored_profile(m) ==
  /\ m.name = "valid"
  /\ m.nip05 \in {"absent", "valid"}
  /\ m.bot \in {"absent", "boolean"}
  /\ m.unsupported = {}

(* Settings::validate: no limit of transport_publish is zero.              *)
validate(s) == (\A f \in DOMAIN s.limits : s.limits[f] > 0)
               /\ authored_profile(s.metadata)

(* allow: whether --allow-generate-identity is among the arguments.        *)
StartDaemon(p, s) ==
  /\ Start(p, s.allow, IF validate(s) THEN "check" ELSE "failed")
  /\ daemon' = [daemon EXCEPT ![p].settings = s]
  /\ UNCHANGED <<presence, listening, server, announced>>

Fails(p) == proc' = [proc EXCEPT ![p].at = "failed"]

(* Radrootsd::new with the identity in hand: the store is opened.          *)
New(p) ==
  /\ proc[p].at = "loaded" /\ daemon[p].at = "none"
  /\ daemon' = [daemon EXCEPT ![p].at = "relays"]
  /\ UNCHANGED <<storageVars, presence, listening, server, announced>>

StoreFails(p) ==
  /\ proc[p].at = "loaded" /\ daemon[p].at = "none"
  /\ Incident
  /\ Fails(p)
  /\ UNCHANGED <<key, envelope, durable, doubled, starts, startVars>>

(* add_relay for each relay; with relays the two tasks are spawned.        *)
Relays(p) ==
  /\ proc[p].at = "loaded" /\ daemon[p].at = "relays"
  /\ \/ /\ daemon[p].settings.relays = "malformed"
        /\ Fails(p)
        /\ UNCHANGED <<daemon, presence, listening>>
     \/ /\ daemon[p].settings.relays = "valid"
        /\ presence' = [presence EXCEPT ![p] = "connect"]
        /\ listening' = listening \cup {p}
        /\ daemon' = [daemon EXCEPT ![p].at = "bind"]
        /\ UNCHANGED proc
     \/ /\ daemon[p].settings.relays = "none"
        /\ daemon' = [daemon EXCEPT ![p].at = "bind"]
        /\ UNCHANGED <<proc, presence, listening>>
  /\ UNCHANGED <<key, envelope, durable, doubled, starts, incidents,
                 server, announced>>

\* Mutant: the address is waited for.
BindOnceFree(p) ==
  /\ proc[p].at = "loaded" /\ daemon[p].at = "bind"
  /\ server = Nobody
  /\ IF daemon[p].settings.addr = "valid"
     THEN /\ server' = p
          /\ daemon' = [daemon EXCEPT ![p].at = "up"]
          /\ UNCHANGED proc
     ELSE Fails(p) /\ UNCHANGED <<server, daemon>>
  /\ UNCHANGED <<key, envelope, durable, doubled, starts, incidents,
                 presence, listening, announced>>

(* The address is parsed and bound, and the server started.                *)
Bind(p) ==
  /\ proc[p].at = "loaded" /\ daemon[p].at = "bind"
  /\ IF server = Nobody /\ daemon[p].settings.addr = "valid"
     THEN /\ server' = p
          /\ daemon' = [daemon EXCEPT ![p].at = "up"]
          /\ UNCHANGED proc
     ELSE Fails(p) /\ UNCHANGED <<server, daemon>>
  /\ UNCHANGED <<key, envelope, durable, doubled, starts, incidents,
                 presence, listening, announced>>

-----------------------------------------------------------------------------
(* bootstrap_presence: without a connected relay after five seconds, or    *)
(* with an event no relay accepts, the task ends with a warning.           *)
Connected(p) ==
  /\ presence[p] = "connect"
  /\ \E to \in {"profile", "ended"} : presence' = [presence EXCEPT ![p] = to]
  /\ UNCHANGED <<storageVars, daemon, listening, server, announced>>

(* An identity counts as announced for good if the process has stored it   *)
(* itself, or if the file with it is the one a power cut would leave.      *)
Identity(p) == proc[p].env.identity
Backed(p)   == proc[p].fresh \/ durable.identity = Identity(p)

PublishProfile(p) ==
  /\ presence[p] = "profile"
  /\ \/ /\ presence' = [presence EXCEPT ![p] = "handler"]
        /\ announced' = IF Backed(p) THEN announced \cup {Identity(p)}
                        ELSE announced
     \/ presence' = [presence EXCEPT ![p] = "ended"] /\ UNCHANGED announced
  /\ UNCHANGED <<storageVars, daemon, listening, server>>

PublishHandler(p) ==
  /\ presence[p] = "handler"
  /\ presence' = [presence EXCEPT ![p] = "ended"]
  /\ UNCHANGED <<storageVars, daemon, listening, server, announced>>

-----------------------------------------------------------------------------
\* Mutant: the listener outlives run().
GoneKeepingListener(p) ==
  /\ daemon' = [daemon EXCEPT ![p] = NoDaemon]
  /\ presence' = [presence EXCEPT ![p] = "none"]
  /\ server' = IF server = p THEN Nobody ELSE server
  /\ UNCHANGED <<listening, announced>>

(* What ends with a process: its tasks, and its hold on the address.       *)
Gone(p) ==
  /\ daemon' = [daemon EXCEPT ![p] = NoDaemon]
  /\ presence' = [presence EXCEPT ![p] = "none"]
  /\ listening' = listening \ {p}
  /\ server' = IF server = p THEN Nobody ELSE server
  /\ UNCHANGED announced

(* A signal, or the server has stopped: run() returns.                     *)
Shutdown(p) ==
  /\ daemon[p].at = "up"
  /\ Ends(p)
  /\ Gone(p)
  /\ UNCHANGED <<key, envelope, durable, doubled, starts, incidents>>

PowerFails ==
  /\ PowerCut
  /\ daemon' = [p \in Procs |-> NoDaemon]
  /\ presence' = [p \in Procs |-> "none"]
  /\ listening' = {}
  /\ server' = Nobody
  /\ UNCHANGED announced

-----------------------------------------------------------------------------
StartStep(p) ==
  \/ StorageStep(p) /\ UNCHANGED startVars
  \/ New(p) \/ Relays(p) \/ Bind(p)
  \/ Exit(p) /\ Gone(p)

PresenceStep(p) == Connected(p) \/ PublishProfile(p) \/ PublishHandler(p)

Environment ==
  \/ \E p \in Procs, s \in Settings : StartDaemon(p, s)
  \/ \E p \in Procs :
       \/ OperationFails(p) /\ UNCHANGED startVars
       \/ CheckFails(p) /\ UNCHANGED startVars
       \/ StoreFails(p)
       \/ Kill(p) /\ Gone(p)
       \/ Shutdown(p)
  \/ PowerFails

Next ==
  \/ \E p \in Procs : StartStep(p) \/ PresenceStep(p)
  \/ Environment

Spec == Init /\ [][Next]_vars

(* A process runs until it is killed; connecting and publishing time out.  *)
FairSpec ==
  /\ Spec
  /\ \A p \in Procs : WF_vars(StartStep(p)) /\ WF_vars(PresenceStep(p))

-----------------------------------------------------------------------------
(* PROPERTIES                                                              *)

(* The name the service has published is the name it keeps: an identity    *)
(* announced for good is in the file, and in the file a power cut leaves,  *)
(* for ever, by whatever kills, failures and power cuts; until a start     *)
(* generates one because its look at the file failed, or while another     *)
(* start was generating one.                                               *)
AnnouncedIdentityIsKept ==
  ~doubled => \A i \in announced : \A env \in {envelope, durable} :
                   env.version # "none" /\ env.identity = i

(* A start fails only for a reason that lies outside it: settings that are *)
(* refused, no identity found and no permission to generate one, the       *)
(* address taken or malformed, an identity that was unreadable from the    *)
(* beginning, an operation that failed; never because another start,       *)
(* migration or shutdown was under way, unless both generate the identity. *)
CleanStartsSucceed ==
  \A p \in Procs :
    proc[p].at = "failed" /\ incidents = 0 /\ ~doubled =>
      \/ ~validate(daemon[p].settings)
      \/ daemon[p].settings.relays = "malformed"
      \/ ~proc[p].allow /\ proc[p].env = NoEnvelope
      \/ daemon[p].at = "bind"
      \/ envelope.version = "unknown"
      \/ envelope.version = "current" /\ key.state = "absent"

(* Every start comes to an end: the daemon is up, or the process is gone.  *)
EveryStartEnds ==
  \A p \in Procs :
    proc[p].at # "off" ~> daemon[p].at = "up" \/ proc[p].at = "off"
=============================================================================
