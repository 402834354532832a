--------------------------- MODULE IdentityStorage ---------------------------
(***************************************************************************)
(* The service identity on disk: an encrypted envelope and, beside it, the *)
(* key that wraps its data key.  A process that starts loads the envelope, *)
(* migrates one of the old format, or generates an identity and stores it. *)
(*                                                                         *)
(* A step is one file operation; any number of processes may start at the  *)
(* same time, each may be killed between two operations, operations may    *)
(* fail, and the power may fail.  Power failure: what has been written to  *)
(* a file but not synced may be gone, and a rename may be undone until the *)
(* directory is synced; a file that is synced keeps its name, too.         *)
(*                                                                         *)
(* Identities, wrapping keys and nonces are random: what a start generates *)
(* is named by the number of the start, what was there before by zero.     *)
(***************************************************************************)
EXTENDS Naturals

CONSTANTS
  Procs,         \* processes that may run at the same time
  MaxStarts,     \* bound on starts
  MaxIncidents   \* bound on killed processes, failed operations, power cuts

ASSUME StorageAssumption == MaxStarts \in Nat /\ MaxIncidents \in Nat

VARIABLES
  key,        \* the wrapping key file
  envelope,   \* the identity file
  durable,    \* the identity file a power cut may bring back
  proc,       \* where each start is
  doubled,    \* a start has generated an identity although there was one,
              \* or another start was generating one
  starts, incidents

storageVars == <<key, envelope, durable, proc, doubled, starts, incidents>>

Starts == 0..MaxStarts

(* borrowed: wrapped with a key that another process had not yet synced.   *)
Envelope   == [version : {"none", "legacy", "current", "unknown"},
               identity : Starts, key : Starts, borrowed : BOOLEAN]
NoEnvelope == [version |-> "none", identity |-> 0, key |-> 0,
               borrowed |-> FALSE]
KeyFile == [state : {"absent", "empty", "full"}, value : Starts,
            synced : BOOLEAN]
NoKey   == [state |-> "absent", value |-> 0, synced |-> FALSE]

Proc == [at : {"off", "check", "read", "open", "wrap", "create", "write",
               "sync", "verify", "persist", "syncdir", "loaded", "failed"},
         start : Starts, allow : BOOLEAN, fresh : BOOLEAN,
         env : Envelope]      \* the envelope read or sealed
Off  == [at |-> "off", start |-> 0, allow |-> FALSE, fresh |-> FALSE,
         env |-> NoEnvelope]

StorageTypeOK ==
  /\ key \in KeyFile
  /\ envelope \in Envelope
  /\ durable \in Envelope
  /\ proc \in [Procs -> Proc]
  /\ doubled \in BOOLEAN
  /\ starts \in Starts
  /\ incidents \in 0..MaxIncidents

(* A new directory; an identity of either format with its key; one whose   *)
(* key file is missing; one of a format this code does not know.           *)
Stored(version) == [NoEnvelope EXCEPT !.version = version]
StoredKey       == [state |-> "full", value |-> 0, synced |-> TRUE]

StorageInit ==
  /\ \/ key = NoKey /\ envelope = NoEnvelope
     \/ /\ key = StoredKey
        /\ \E v \in {"legacy", "current", "unknown"} : envelope = Stored(v)
     \/ key = NoKey /\ envelope = Stored("current")
  /\ durable = envelope
  /\ proc = [p \in Procs |-> Off]
  /\ doubled = FALSE
  /\ starts = 0 /\ incidents = 0

-----------------------------------------------------------------------------
Goto(p, at) == proc' = [proc EXCEPT ![p].at = at]

Generating(p) == proc[p].fresh /\ proc[p].at \notin {"off", "loaded", "failed"}

(* key_from_bytes: a file that is not a whole key is an error.             *)
Usable == key.state = "full"

(* A process starts; "failed" when it does not come to load the identity.  *)
Start(p, allow, at) ==
  /\ proc[p].at = "off"
  /\ starts < MaxStarts
  /\ starts' = starts + 1
  /\ proc' = [proc EXCEPT ![p] = [Off EXCEPT !.at = at,
                                             !.start = starts + 1,
                                             !.allow = allow]]
  /\ UNCHANGED <<key, envelope, durable, doubled, incidents>>

(* load_service_identity goes on to generate an identity.                  *)
Generate(p) ==
  /\ proc' = [proc EXCEPT ![p].at = "wrap", ![p].fresh = TRUE,
                          ![p].env.identity = proc[p].start]
  /\ doubled' = (\/ doubled
                 \/ envelope.version # "none"
                 \/ \E q \in Procs \ {p} : Generating(q))

(* load_service_identity: the only look at whether there is an identity.   *)
Check(p) ==
  /\ proc[p].at = "check"
  /\ \/ envelope.version # "none" /\ Goto(p, "read") /\ UNCHANGED doubled
     \/ /\ envelope.version = "none" /\ ~proc[p].allow
        /\ Goto(p, "failed")
        /\ UNCHANGED doubled
     \/ envelope.version = "none" /\ proc[p].allow /\ Generate(p)
  /\ UNCHANGED <<key, envelope, durable, starts, incidents>>

(* load_encrypted_identity                                                 *)
Read(p) ==
  /\ proc[p].at = "read"
  /\ proc' = [proc EXCEPT ![p].env = envelope,
                          ![p].at = IF envelope.version \in {"legacy", "current"}
                                    THEN "open" ELSE "failed"]
  /\ UNCHANGED <<key, envelope, durable, doubled, starts, incidents>>

\* Mutant: a legacy envelope is opened like a current one.
OpensCurrent(env) == env.version = "current" /\ Usable /\ key.value = env.key

(* unwrap_with_aad: the tag fits only under the key that wrapped it.       *)
Opens(env) == Usable /\ key.value = env.key

\* Mutant: an identity that cannot be opened is replaced.
OpenOrReplace(p) ==
  /\ proc[p].at = "open"
  /\ proc' = [proc EXCEPT ![p].at = IF ~Opens(proc[p].env)
                                       \/ proc[p].env.version = "legacy"
                                    THEN "wrap" ELSE "loaded",
                          ![p].env.identity = IF Opens(proc[p].env) THEN @
                                              ELSE proc[p].start]
  /\ UNCHANGED <<key, envelope, durable, doubled, starts, incidents>>

(* open_identity; a legacy envelope is opened and sealed again.            *)
Open(p) ==
  /\ proc[p].at = "open"
  /\ Goto(p, IF ~Opens(proc[p].env) THEN "failed"
             ELSE IF proc[p].env.version = "legacy" THEN "wrap" ELSE "loaded")
  /\ UNCHANGED <<key, envelope, durable, doubled, starts, incidents>>

(* Sealing an envelope for the identity in hand with the key of the file.  *)
Sealed(p, own) ==
  [version |-> "current", identity |-> proc[p].env.identity,
   key |-> key.value, borrowed |-> ~own /\ ~key.synced]

(* A migrated envelope is opened once more before it replaces the old one. *)
AfterSealing(p) == IF proc[p].fresh THEN "persist" ELSE "verify"

(* The key of the file, whoever wrote it, is used if it is a whole key.    *)
UseFoundKey(p) ==
  proc' = [proc EXCEPT ![p].at = IF Usable THEN AfterSealing(p) ELSE "failed",
                       ![p].env = IF Usable THEN Sealed(p, FALSE) ELSE @]

(* load_or_create_key: a key file that can be read is used.                *)
WrapWithKey(p) ==
  /\ proc[p].at = "wrap"
  /\ key.state # "absent"
  /\ UseFoundKey(p)
  /\ UNCHANGED <<key, envelope, durable, doubled, starts, incidents>>

WrapWithoutKey(p) ==
  /\ proc[p].at = "wrap"
  /\ key.state = "absent"
  /\ Goto(p, "create")
  /\ UNCHANGED <<key, envelope, durable, doubled, starts, incidents>>

(* create_new: if another process was faster its key is used.              *)
CreateKey(p) ==
  /\ proc[p].at = "create"
  /\ \/ /\ key.state = "absent"
        /\ key' = [NoKey EXCEPT !.state = "empty"]
        /\ Goto(p, "write")
     \/ /\ key.state # "absent"
        /\ UseFoundKey(p)
        /\ UNCHANGED key
  /\ UNCHANGED <<envelope, durable, doubled, starts, incidents>>

WriteKey(p) ==
  /\ proc[p].at = "write"
  /\ key' = [state |-> "full", value |-> proc[p].start, synced |-> FALSE]
  /\ Goto(p, "sync")
  /\ UNCHANGED <<envelope, durable, doubled, starts, incidents>>

\* Mutant: the key is not synced before it is used.
SyncKeyLater(p) ==
  /\ proc[p].at = "sync"
  /\ proc' = [proc EXCEPT ![p].at = AfterSealing(p),
                          ![p].env = Sealed(p, TRUE)]
  /\ UNCHANGED <<key, envelope, durable, doubled, starts, incidents>>

SyncKey(p) ==
  /\ proc[p].at = "sync"
  /\ key' = [key EXCEPT !.synced = TRUE]
  /\ proc' = [proc EXCEPT ![p].at = AfterSealing(p),
                          ![p].env = Sealed(p, TRUE)]
  /\ UNCHANGED <<envelope, durable, doubled, starts, incidents>>

Verify(p) ==
  /\ proc[p].at = "verify"
  /\ Goto(p, IF Opens(proc[p].env) THEN "persist" ELSE "failed")
  /\ UNCHANGED <<key, envelope, durable, doubled, starts, incidents>>

\* Mutant: the directory is not synced.
PersistWithoutSync(p) ==
  /\ proc[p].at = "persist"
  /\ envelope' = proc[p].env
  /\ Goto(p, "loaded")
  /\ UNCHANGED <<key, durable, doubled, starts, incidents>>

(* persist_envelope: a temporary file, written and synced, is renamed.     *)
Persist(p) ==
  /\ proc[p].at = "persist"
  /\ envelope' = proc[p].env
  /\ Goto(p, "syncdir")
  /\ UNCHANGED <<key, durable, doubled, starts, incidents>>

SyncParent(p) ==
  /\ proc[p].at = "syncdir"
  /\ durable' = envelope
  /\ Goto(p, "loaded")
  /\ UNCHANGED <<key, envelope, doubled, starts, incidents>>

-----------------------------------------------------------------------------
Incident == incidents < MaxIncidents /\ incidents' = incidents + 1

(* A file operation fails, and the start with it; but a key file that      *)
(* cannot be read to seal with is taken for a missing one at first.        *)
OperationFails(p) ==
  /\ proc[p].at \in {"read", "open", "wrap", "create", "write", "sync",
                     "verify", "persist", "syncdir"}
  /\ Incident
  /\ Goto(p, IF proc[p].at = "wrap" THEN "create" ELSE "failed")
  /\ UNCHANGED <<key, envelope, durable, doubled, starts>>

(* path.exists() is false, too, when it cannot be found out whether there  *)
(* is an identity: one that is there is then taken for a missing one.      *)
CheckFails(p) ==
  /\ proc[p].at = "check"
  /\ Incident
  /\ \/ proc[p].allow /\ Generate(p)
     \/ ~proc[p].allow /\ Goto(p, "failed") /\ UNCHANGED doubled
  /\ UNCHANGED <<key, envelope, durable, starts>>

(* The process ends: killed during the start or later, or by itself.       *)
Ends(p) == proc' = [proc EXCEPT ![p] = Off]

Kill(p) ==
  /\ proc[p].at \notin {"off", "failed"}
  /\ Incident
  /\ Ends(p)
  /\ UNCHANGED <<key, envelope, durable, doubled, starts>>

Exit(p) ==
  /\ proc[p].at = "failed"
  /\ Ends(p)
  /\ UNCHANGED <<key, envelope, durable, doubled, starts, incidents>>

PowerCut ==
  /\ Incident
  /\ proc' = [p \in Procs |-> Off]
  /\ envelope' \in {envelope, durable}
  /\ durable' = envelope'
  /\ IF key.synced \/ key.state = "absent" THEN UNCHANGED key
     ELSE \E k \in {key, [key EXCEPT !.state = "empty", !.value = 0], NoKey} :
            key' = [k EXCEPT !.synced = k.state # "absent"]
  /\ UNCHANGED <<doubled, starts>>

-----------------------------------------------------------------------------
StorageStep(p) ==
  \/ Check(p) \/ Read(p) \/ Open(p) \/ WrapWithKey(p) \/ WrapWithoutKey(p)
  \/ CreateKey(p) \/ WriteKey(p) \/ SyncKey(p) \/ Verify(p) \/ Persist(p)
  \/ SyncParent(p)

-----------------------------------------------------------------------------
(* PROPERTIES                                                              *)

(* What the identity file needs to be opened is on disk, and stays there   *)
(* through kills, failed operations and power cuts; except for an envelope *)
(* wrapped with a key that its creator had not synced yet, and one whose   *)
(* key was missing from the start.                                         *)
StoredIdentityOpens ==
  \A env \in {envelope, durable} :
    env.version = "current" /\ env.key > 0 /\ ~env.borrowed =>
      Opens(env) /\ key.synced

(* The identity in the file never changes, by migration, by the second of  *)
(* two starts that migrate at once, by a start that could not open it or   *)
(* by a power cut, until a start generates one because its look at the     *)
(* file failed, or while another start was generating one.                 *)
IdentityIsKept ==
  [][envelope.version # "none" /\ ~doubled' =>
       \/ envelope'.version = "none"
       \/ envelope'.identity = envelope.identity]_storageVars

(* What the help of --allow-generate-identity suggests: no start generates *)
(* an identity in the place of one that is there.  It holds only where no  *)
(* start has the flag (proved): the look at the file may fail, and two     *)
(* first starts may overlap.                                               *)
PresentIdentityIsKept ==
  [][envelope.version # "none" =>
       \/ envelope'.version = "none"
       \/ envelope'.identity = envelope.identity]_storageVars
=============================================================================
