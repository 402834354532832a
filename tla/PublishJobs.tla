----------------------------- MODULE PublishJobs -----------------------------
(***************************************************************************)
(* The life of publish jobs: TransportPublish::publish_event, the SQLite   *)
(* store behind it (TransportPublishStore) and the recovery every open of  *)
(* the store performs.                                                     *)
(*                                                                         *)
(* Processes.  The daemon runs one task per RPC call; a second process may *)
(* open the same database: `radrootsd transport-publish principal init`,   *)
(* here "cli".  Steps are database statements and await points: within the *)
(* daemon a Mutex guards the connection for as long as one store method    *)
(* holds the guard, between the processes only single statements and the   *)
(* BEGIN .. COMMIT of record_publish_job are atomic.                       *)
(*                                                                         *)
(* A call records at most one job, so the call also names the job (the     *)
(* code draws a fresh UUID).  A key stands for (principal, idempotency     *)
(* key); an intent for the request fingerprint, which covers the event,    *)
(* both policies and the timeout, so it determines the delivery policy.    *)
(***************************************************************************)
EXTENDS DeliveryPolicy

CONSTANTS
  Calls,          \* publish_event calls
  Keys,           \* idempotency keys
  Intents,        \* request fingerprints
  PolicyOf,       \* delivery policy of each intent
  Resolutions,    \* results target resolution can have
  ReplyKinds,     \* kinds of answer relays give
  MaxConcurrent,  \* config max_concurrent_publish_jobs
  FaultKinds,     \* which of "crash", "disconnect", "io" may happen
  MaxFaults,      \* bound on the number of faults
  MaxCliRuns      \* bound on the number of principal-init runs

None == "none"

ASSUME PublishAssumption ==
  /\ None \notin Calls
  /\ None \notin Keys
  /\ None \notin Intents
  /\ Calls \cap {"daemon", "cli"} = {}
  /\ PolicyOf \in [Intents -> Policy]
  /\ Resolutions \subseteq Resolution
  /\ ReplyKinds \subseteq Kinds \ {"Deferred"}
  /\ MaxConcurrent \in Nat \ {0}
  /\ FaultKinds \subseteq {"crash", "disconnect", "io"}
  /\ MaxFaults \in Nat
  /\ MaxCliRuns \in Nat

(* Target resolution decides failures and deferrals, never a delivery.     *)
ASSUME ResolutionAssumption ==
  \A r \in Resolutions : \A i \in DOMAIN r.outcomes :
    r.outcomes[i].kind # "Accepted"

VARIABLES
  \* the database
  jobs,       \* rows of transport_publish_jobs
  snapshots,  \* rows of transport_publish_target_snapshots, per job
  results,    \* rows of transport_publish_target_results, per job
  \* the calls of the daemon
  pc,         \* where each call is
  req,        \* the request of each call, copied into its job row
  res,        \* the resolution a call is working with
  replies,    \* what the relays contacted by a call have answered
  seen,       \* the job row a call has read and not yet completed
  permits,    \* free permits of the publish_jobs semaphore
  \* statements and processes
  write,      \* the status change each writer is carrying out
  store,      \* per process: is the store open, which jobs to recover
  \* history and bounds
  epoch,      \* how often the daemon has opened the store
  born,       \* the epoch in which each call was admitted
  faults,
  cliRuns

vars == <<jobs, snapshots, results, pc, req, res, replies, seen, permits,
          write, store, epoch, born, faults, cliRuns>>

dbVars   == <<jobs, snapshots, results>>
histVars == <<epoch, born, faults, cliRuns>>

Procs   == {"daemon", "cli"}
Writers == Calls \cup Procs

(* Call steps that are database statements of the daemon's connection.     *)
DbSteps == {"lookup", "lookupRead", "insert", "recordRow", "recordRead",
            "completing", "finalRow", "finalRead"}
Awaiting == {"resolving", "publishing"}
Active   == DbSteps \cup Awaiting
Ended    == {"refused", "conflict", "deduplicated", "completed", "failed",
             "dropped", "lost"}

Request   == [key : Keys \cup {None}, intent : Intents]
NoRequest == [key |-> None, intent |-> None]
Errors    == {None, "delivery_unsatisfied", "no_transport_publish_targets",
              "delivery_deferred_until_implemented",
              "delivery_quorum_exceeds_target_count",
              "publish_attempt_interrupted",
              "publish_attempt_interrupted_missing_target_snapshot"}
Row       == [status : FinalStatus \cup {"Absent", "Publishing"},
              count : Nat, lastError : Errors]
NoRow     == [status |-> "Absent", count |-> 0, lastError |-> None]
NoRes     == [targets |-> <<>>, outcomes |-> <<>>]
NoSeen    == [job |-> None, row |-> NoRow]
NoWrite   == [stage |-> "idle", job |-> None, status |-> None,
              lastError |-> None, rows |-> <<>>]

Places   == {"idle"} \cup Active \cup Ended
SeenRow  == [job : Calls \cup {None}, row : Row]
Writing  == [stage : {"idle", "update", "delete", "insert"},
             job : Calls \cup {None}, status : FinalStatus \cup {None},
             lastError : Errors, rows : Seq(Outcome)]
OpenState == [state : {"closed", "selecting", "recovering", "open"},
              todo : SUBSET Calls]

TypeOK ==
  /\ jobs \in [Calls -> Row]
  /\ snapshots \in [Calls -> Seq(Outcome)]
  /\ results \in [Calls -> SUBSET Outcome]
  /\ pc \in [Calls -> Places]
  /\ req \in [Calls -> Request \cup {NoRequest}]
  /\ res \in [Calls -> Resolution]
  /\ replies \in [Calls -> [Relays -> Kinds \cup {None}]]
  /\ seen \in [Calls -> SeenRow]
  /\ permits \in 0..MaxConcurrent
  /\ write \in [Writers -> Writing]
  /\ store \in [Procs -> OpenState]
  /\ epoch \in Nat
  /\ born \in [Calls -> Nat]
  /\ faults \in Nat
  /\ cliRuns \in Nat

Init ==
  /\ jobs = [c \in Calls |-> NoRow]
  /\ snapshots = [c \in Calls |-> <<>>]
  /\ results = [c \in Calls |-> {}]
  /\ pc = [c \in Calls |-> "idle"]
  /\ req = [c \in Calls |-> NoRequest]
  /\ res = [c \in Calls |-> NoRes]
  /\ replies = [c \in Calls |-> [r \in Relays |-> None]]
  /\ seen = [c \in Calls |-> NoSeen]
  /\ permits = MaxConcurrent
  /\ write = [w \in Writers |-> NoWrite]
  /\ store = [p \in Procs |-> [state |-> "closed", todo |-> {}]]
  /\ epoch = 0
  /\ born = [c \in Calls |-> 0]
  /\ faults = 0
  /\ cliRuns = 0

-----------------------------------------------------------------------------
Recorded(c)  == jobs[c].status # "Absent"
PolicyFor(c) == PolicyOf[req[c].intent]

\* Mutant: the Mutex is released between the statements.
LockedPerStatement == FALSE

(* A call that is between two statements of complete_publish_job holds the *)
(* Mutex around the daemon's connection.                                   *)
Locked == \E c \in Calls : write[c].stage \in {"delete", "insert"}

\* Mutant: the permit is lost when the future of the call is dropped.
EndLeakingPermit(c, how) ==
  /\ pc' = [pc EXCEPT ![c] = how]
  /\ res' = [res EXCEPT ![c] = NoRes]
  /\ permits' = IF how = "dropped" THEN permits ELSE permits + 1

(* publish_event returns or is dropped; either way _permit is dropped.     *)
End(c, how) ==
  /\ pc' = [pc EXCEPT ![c] = how]
  /\ res' = [res EXCEPT ![c] = NoRes]
  /\ permits' = permits + 1

(* Rows of one job in the order of the ORDER BY of target_outcomes.        *)
Listing(S) == CHOOSE s \in [1..Cardinality(S) -> S] :
                {s[i] : i \in 1..Cardinality(S)} = S

(* Job::validate of the protocol crate, as this code and its tests use it: *)
(* a Publishing job without outcomes is valid, a finished job whose count  *)
(* differs from its outcome rows is not, and a finished job whose status   *)
(* is the one its outcomes give is.  Anything else may go either way.      *)
validate(row, policy, outs) ==
  LET final == row.status # "Publishing"
      fits  == row.count = Cardinality(outs)
  IN  CASE ~final /\ outs = {}        -> {TRUE}
        [] final /\ ~fits             -> {FALSE}
        [] final /\ fits /\ outs = {} -> {TRUE}
        [] /\ final /\ fits /\ outs # {}
           /\ row.status = delivery_status(policy, row.count, Listing(outs))
                                      -> {TRUE}
        [] OTHER                      -> BOOLEAN

-----------------------------------------------------------------------------
(* publish_event, up to the permit: a request that passes the checks.      *)
Admit(c, q) ==
  /\ store["daemon"].state = "open"
  /\ pc[c] = "idle"
  /\ permits > 0
  /\ permits' = permits - 1
  /\ pc' = [pc EXCEPT ![c] = "resolving"]
  /\ req' = [req EXCEPT ![c] = q]
  /\ born' = [born EXCEPT ![c] = epoch]
  /\ UNCHANGED <<dbVars, res, replies, seen, write, store, epoch, faults,
                 cliRuns>>

(* The request is invalid or out of scope, or no permit is free.           *)
Refuse(c) ==
  /\ store["daemon"].state = "open"
  /\ pc[c] = "idle"
  /\ pc' = [pc EXCEPT ![c] = "refused"]
  /\ UNCHANGED <<dbVars, req, res, replies, seen, permits, write, store,
                 histVars>>

validate_delivery_policy_for_resolution(policy, r) ==
  policy.type = "RequiredTargets" =>
    policy.targets \subseteq {r.targets[i] : i \in DOMAIN r.targets}
                        \cup {r.outcomes[i].target : i \in DOMAIN r.outcomes}

(* resolve_targets_for_request returns; a request without idempotency key  *)
(* skips the lookup.                                                       *)
Resolve(c, r) ==
  /\ pc[c] = "resolving"
  /\ IF validate_delivery_policy_for_resolution(PolicyFor(c), r)
     THEN /\ res' = [res EXCEPT ![c] = r]
          /\ pc' = [pc EXCEPT ![c] =
                      IF req[c].key = None THEN "insert" ELSE "lookup"]
          /\ UNCHANGED permits
     ELSE End(c, "failed")
  /\ UNCHANGED <<dbVars, req, replies, seen, write, store, histVars>>

(* job_for_principal_id_and_key: the row, under one acquisition of the     *)
(* Mutex ...                                                               *)
LookupKey(c) ==
  LET found == {d \in Calls : Recorded(d) /\ req[d].key = req[c].key}
  IN
  /\ pc[c] = "lookup"
  /\ ~Locked
  /\ \/ /\ found = {}
        /\ pc' = [pc EXCEPT ![c] = "insert"]
        /\ UNCHANGED seen
     \/ \E d \in found :
          /\ seen' = [seen EXCEPT ![c] = [job |-> d, row |-> jobs[d]]]
          /\ pc' = [pc EXCEPT ![c] = "lookupRead"]
  /\ UNCHANGED <<dbVars, req, res, replies, permits, write, store, histVars>>

(* ... and its outcomes under another; then the fingerprints are compared. *)
LookupReadOutcomes(c) ==
  LET d == seen[c].job
  IN
  /\ pc[c] = "lookupRead"
  /\ ~Locked
  /\ \E ok \in validate(seen[c].row, PolicyFor(d), results[d]) :
       End(c, CASE ~ok                               -> "failed"
                [] ok /\ req[d].intent # req[c].intent -> "conflict"
                [] OTHER                             -> "deduplicated")
  /\ seen' = [seen EXCEPT ![c] = NoSeen]
  /\ UNCHANGED <<dbVars, req, replies, write, store, histVars>>

\* Mutant: no unique index, the lookup alone has to find duplicates.
KeyTakenUnindexed(c) == FALSE

(* The unique index on (principal_id, idempotency_key).                    *)
KeyTaken(c) == /\ req[c].key # None
               /\ \E d \in Calls : Recorded(d) /\ req[d].key = req[c].key

(* The transaction of record_publish_job: the job row and its snapshots,   *)
(* or nothing when the unique index refuses the row.                       *)
InsertJob(c) ==
  /\ pc[c] = "insert"
  /\ ~Locked
  /\ IF KeyTaken(c)
     THEN /\ End(c, "conflict")
          /\ UNCHANGED <<jobs, snapshots>>
     ELSE /\ jobs' = [jobs EXCEPT ![c] = [status |-> "Publishing",
                                          count |-> target_count(res[c]),
                                          lastError |-> None]]
          /\ snapshots' = [snapshots EXCEPT ![c] =
                             target_snapshots_from_resolution(res[c])]
          /\ pc' = [pc EXCEPT ![c] = "recordRow"]
          /\ UNCHANGED <<res, permits>>
  /\ UNCHANGED <<results, req, replies, seen, write, store, histVars>>

(* job_by_id, the row: after recording the job and after completing it.    *)
ReadRow(c) ==
  /\ pc[c] \in {"recordRow", "finalRow"}
  /\ ~Locked
  /\ seen' = [seen EXCEPT ![c] = [job |-> c, row |-> jobs[c]]]
  /\ pc' = [pc EXCEPT ![c] =
              IF pc[c] = "recordRow" THEN "recordRead" ELSE "finalRead"]
  /\ UNCHANGED <<dbVars, req, res, replies, permits, write, store, histVars>>

(* Hand a status and outcomes to complete_publish_job.                     *)
Complete(c, status, error, rows) ==
  /\ write' = [write EXCEPT ![c] = [stage |-> "update", job |-> c,
                                    status |-> status, lastError |-> error,
                                    rows |-> rows]]
  /\ pc' = [pc EXCEPT ![c] = "completing"]

(* complete_job_execution, up to its only await: a job nothing can be sent *)
(* for is completed without contacting a relay.                            *)
Execute(c) ==
  LET n      == target_count(res[c])
      outs   == res[c].outcomes
      status == IF outs = <<>> THEN "Rejected"
                ELSE delivery_status(PolicyFor(c), n, outs)
  IN
  IF res[c].targets = <<>>
  THEN Complete(c, status, last_error_for_status(status), outs)
  ELSE IF required_target_count(PolicyFor(c), n) > n
  THEN Complete(c, "Rejected", "delivery_quorum_exceeds_target_count", outs)
  ELSE /\ pc' = [pc EXCEPT ![c] = "publishing"]
       /\ UNCHANGED write

(* job_by_id, the outcomes, inside record_publish_job: an invalid job ends *)
(* the call with the row still Publishing.                                 *)
RecordReadOutcomes(c) ==
  /\ pc[c] = "recordRead"
  /\ ~Locked
  /\ \E ok \in validate(seen[c].row, PolicyFor(c), results[c]) :
       \/ ok /\ Execute(c) /\ UNCHANGED <<res, permits>>
       \/ ~ok /\ End(c, "failed") /\ UNCHANGED write
  /\ seen' = [seen EXCEPT ![c] = NoSeen]
  /\ UNCHANGED <<dbVars, req, replies, store, histVars>>

-----------------------------------------------------------------------------
(* LiveRelayPublishAdapter: a relay of the target set is attempted and     *)
(* answers (or its connection fails).  The code attempts them one after    *)
(* the other in URL order; any order is allowed here, as no property       *)
(* depends on it.                                                          *)
RelayReplies(c, r, kind) ==
  /\ pc[c] = "publishing"
  /\ r \in RelaySet(res[c])
  /\ replies[c][r] = None
  /\ replies' = [replies EXCEPT ![c][r] = kind]
  /\ UNCHANGED <<dbVars, pc, req, res, seen, permits, write, store, histVars>>

(* Compute the status from the receipts and complete the job.              *)
CompleteWith(c, receipts) ==
  LET outs   == outcomes_from_receipts(res[c], receipts)
      status == delivery_status(PolicyFor(c), target_count(res[c]), outs)
  IN  Complete(c, status, last_error_for_status(status), outs)

PublishDone(c) ==
  /\ pc[c] = "publishing"
  /\ \A r \in RelaySet(res[c]) : replies[c][r] # None
  /\ CompleteWith(c, replies[c])
  /\ UNCHANGED <<dbVars, req, res, replies, seen, permits, store, histVars>>

(* The publish timeout fires or the adapter returns an error: every relay  *)
(* counts as failed, also the ones that have accepted the event.           *)
PublishAborted(c) ==
  /\ pc[c] = "publishing"
  /\ CompleteWith(c, aborted_receipts(res[c]))
  /\ UNCHANGED <<dbVars, req, res, replies, seen, permits, store, histVars>>

-----------------------------------------------------------------------------
(* The statements that settle a job, each committed on its own: UPDATE the *)
(* row, DELETE the old outcomes, INSERT OR REPLACE one outcome at a time.  *)
(* complete_publish_job runs them under the daemon's Mutex, the recovery   *)
(* of an opening process on its own connection.                            *)
UpdateJob(w) ==
  /\ write[w].stage = "update"
  /\ w \in Calls => ~Locked
  /\ jobs' = [jobs EXCEPT ![write[w].job] =
                [status |-> write[w].status, count |-> Len(write[w].rows),
                 lastError |-> write[w].lastError]]
  /\ write' = [write EXCEPT ![w].stage = "delete"]
  /\ UNCHANGED <<snapshots, results, pc, req, res, replies, seen, permits,
                 store, histVars>>

(* After the last row the writer is done, and a call reads the job back.   *)
ContinueWith(w, rest) ==
  IF rest = <<>>
  THEN /\ write' = [write EXCEPT ![w] = NoWrite]
       /\ pc' = IF w \in Calls THEN [pc EXCEPT ![w] = "finalRow"] ELSE pc
  ELSE /\ write' = [write EXCEPT ![w].stage = "insert", ![w].rows = rest]
       /\ UNCHANGED pc

DeleteResults(w) ==
  /\ write[w].stage = "delete"
  /\ results' = [results EXCEPT ![write[w].job] = {}]
  /\ ContinueWith(w, write[w].rows)
  /\ UNCHANGED <<jobs, snapshots, req, res, replies, seen, permits, store,
                 histVars>>

InsertResult(w) ==
  LET row == Head(write[w].rows)
  IN
  /\ write[w].stage = "insert"
  /\ results' = [results EXCEPT ![write[w].job] =
                   {o \in @ : o.target # row.target} \cup {row}]
  /\ ContinueWith(w, Tail(write[w].rows))
  /\ UNCHANGED <<jobs, snapshots, req, res, replies, seen, permits, store,
                 histVars>>

(* The last read of publish_event: the completed job is returned.          *)
FinalReadOutcomes(c) ==
  /\ pc[c] = "finalRead"
  /\ ~Locked
  /\ \E ok \in validate(seen[c].row, PolicyFor(c), results[c]) :
       End(c, IF ok THEN "completed" ELSE "failed")
  /\ seen' = [seen EXCEPT ![c] = NoSeen]
  /\ UNCHANGED <<dbVars, req, replies, write, store, histVars>>

-----------------------------------------------------------------------------
(* TransportPublishStore::open, by the daemon or by principal init.        *)
OpenStore(p) ==
  /\ store[p].state = "closed"
  /\ p = "cli" => cliRuns < MaxCliRuns
  /\ store' = [store EXCEPT ![p].state = "selecting"]
  /\ epoch' = IF p = "daemon" THEN epoch + 1 ELSE epoch
  /\ cliRuns' = IF p = "cli" THEN cliRuns + 1 ELSE cliRuns
  /\ UNCHANGED <<dbVars, pc, req, res, replies, seen, permits, write, born,
                 faults>>

\* Mutant: jobs recorded without targets are not looked for.
InterruptedWithTargets ==
  {c \in Calls : jobs[c].status = "Publishing" /\ snapshots[c] # <<>>}

\* Mutant: every job that is not delivered is taken for interrupted.
InterruptedOrUnsatisfied ==
  {c \in Calls : jobs[c].status \notin {"Absent", "DeliverySatisfied"}}

(* The jobs recover_interrupted_publish_jobs selects; the order of the     *)
(* rows is unspecified.                                                    *)
Interrupted == {c \in Calls : jobs[c].status = "Publishing"}

SelectInterrupted(p) ==
  /\ store[p].state = "selecting"
  /\ store' = [store EXCEPT ![p] =
                 [state |-> "recovering",
                  todo  |-> Interrupted]]
  /\ UNCHANGED <<dbVars, pc, req, res, replies, seen, permits, write,
                 histVars>>

(* The status recovery gives an interrupted job.                           *)
RecoveredStatus(c) ==
  IF snapshots[c] = <<>> THEN "Rejected"
  ELSE delivery_status(PolicyFor(c), Len(snapshots[c]), snapshots[c])

RecoveredError(c) ==
  CASE snapshots[c] = <<>>
         -> "publish_attempt_interrupted_missing_target_snapshot"
    [] snapshots[c] # <<>> /\
       RecoveredStatus(c) = "DeliveryUnsatisfiedRetryable"
         -> "publish_attempt_interrupted"
    [] OTHER -> last_error_for_status(RecoveredStatus(c))

RecoverJob(p, c) ==
  /\ store[p].state = "recovering"
  /\ c \in store[p].todo
  /\ write[p].stage = "idle"
  /\ write' = [write EXCEPT ![p] =
                 [stage |-> "update", job |-> c, status |-> RecoveredStatus(c),
                  lastError |-> RecoveredError(c), rows |-> snapshots[c]]]
  /\ store' = [store EXCEPT ![p].todo = @ \ {c}]
  /\ UNCHANGED <<dbVars, pc, req, res, replies, seen, permits, histVars>>

\* Mutant: the store is open once the interrupted jobs are known.
RecoveryDoneOnSelect(p) == write[p].stage = "idle"

(* The loop over the interrupted jobs has ended.                           *)
RecoveryDone(p) == store[p].todo = {} /\ write[p].stage = "idle"

(* The daemon starts serving; principal init inserts its principal and     *)
(* exits.                                                                  *)
FinishOpen(p) ==
  /\ store[p].state = "recovering"
  /\ RecoveryDone(p)
  /\ store' = [store EXCEPT ![p] =
                 [state |-> IF p = "daemon" THEN "open" ELSE "closed",
                  todo  |-> {}]]
  /\ UNCHANGED <<dbVars, pc, req, res, replies, seen, permits, write,
                 histVars>>

-----------------------------------------------------------------------------
Fault(kind) ==
  /\ kind \in FaultKinds
  /\ faults < MaxFaults
  /\ faults' = faults + 1
  /\ UNCHANGED <<epoch, born, cliRuns>>

(* The daemon is killed, exits on a signal without waiting for its calls,  *)
(* or fails to open the store.                                             *)
DaemonGone ==
  /\ store["daemon"].state # "closed"
  /\ Fault("crash")
  /\ store' = [store EXCEPT !["daemon"] = [state |-> "closed", todo |-> {}]]
  /\ pc' = [c \in Calls |-> IF pc[c] \in Active THEN "lost" ELSE pc[c]]
  /\ res' = [c \in Calls |-> NoRes]
  /\ seen' = [c \in Calls |-> NoSeen]
  /\ write' = [w \in Writers |-> IF w = "cli" THEN write[w] ELSE NoWrite]
  /\ permits' = MaxConcurrent
  /\ UNCHANGED <<req, replies>>

(* Committed statements stay.                                              *)
CrashDaemon == DaemonGone /\ UNCHANGED dbVars

CrashCli ==
  /\ store["cli"].state # "closed"
  /\ Fault("crash")
  /\ store' = [store EXCEPT !["cli"] = [state |-> "closed", todo |-> {}]]
  /\ write' = [write EXCEPT !["cli"] = NoWrite]
  /\ UNCHANGED <<dbVars, pc, req, res, replies, seen, permits>>

(* The HTTP connection of the call goes away: the server drops the future  *)
(* of the call at the await it is suspended in.                            *)
Disconnect(c) ==
  /\ pc[c] \in Awaiting
  /\ Fault("disconnect")
  /\ End(c, "dropped")
  /\ UNCHANGED <<dbVars, req, replies, seen, write, store>>

(* A statement of the call fails (disk full, I/O error, database busy):    *)
(* `?` returns at once, the transaction of record_publish_job rolls back,  *)
(* the statements complete_publish_job has already run stay.               *)
StatementFails(c) ==
  /\ pc[c] \in DbSteps \cup {"resolving"}
  /\ Fault("io")
  /\ End(c, "failed")
  /\ seen' = [seen EXCEPT ![c] = NoSeen]
  /\ write' = [write EXCEPT ![c] = NoWrite]
  /\ UNCHANGED <<dbVars, req, replies, store>>

-----------------------------------------------------------------------------
(* The steps of a call the daemon itself takes, as opposed to its inputs.  *)
CallStep(c) ==
  \/ \E r \in Resolutions : Resolve(c, r)
  \/ LookupKey(c)
  \/ LookupReadOutcomes(c)
  \/ InsertJob(c)
  \/ ReadRow(c)
  \/ RecordReadOutcomes(c)
  \/ PublishDone(c)
  \/ PublishAborted(c)
  \/ UpdateJob(c)
  \/ DeleteResults(c)
  \/ InsertResult(c)
  \/ FinalReadOutcomes(c)

RecoveryStep(p) ==
  \/ SelectInterrupted(p)
  \/ \E c \in Calls : RecoverJob(p, c)
  \/ UpdateJob(p)
  \/ DeleteResults(p)
  \/ InsertResult(p)
  \/ FinishOpen(p)

Environment ==
  \/ \E c \in Calls : \E q \in Request : Admit(c, q)
  \/ \E c \in Calls : Refuse(c)
  \/ \E c \in Calls : \E r \in Relays : \E kind \in ReplyKinds :
       RelayReplies(c, r, kind)
  \/ \E p \in Procs : OpenStore(p)
  \/ CrashDaemon
  \/ CrashCli
  \/ \E c \in Calls : Disconnect(c)
  \/ \E c \in Calls : StatementFails(c)

Next ==
  \/ \E c \in Calls : CallStep(c)
  \/ \E p \in Procs : RecoveryStep(p)
  \/ Environment

Spec == Init /\ [][Next]_vars

(* The runtime keeps polling a call that can go on (DNS, discovery and the *)
(* publish timeout all end), and an opening process runs its statements.   *)
(* Nothing is assumed of relays, clients, operators or faults.             *)
FairSpec == /\ Spec
            /\ \A c \in Calls : WF_vars(CallStep(c))
            /\ \A p \in Procs : WF_vars(RecoveryStep(p))

-----------------------------------------------------------------------------
(* PROPERTIES                                                              *)

Settled(c) == jobs[c].status \in FinalStatus

(* No writer has a status change of job c under way.                       *)
Quiet(c) == \A w \in Writers : write[w].job # c

Contacted(c) == \E r \in Relays : replies[c][r] # None

(* Idempotency in the database: the lookup and the insert of               *)
(* record_publish_job are separate critical sections, and still no two     *)
(* jobs ever carry the same (principal, key).                              *)
OneJobPerKey ==
  \A c, d \in Calls :
    /\ Recorded(c) /\ Recorded(d)
    /\ req[c].key # None /\ req[c].key = req[d].key
    => c = d

(* Idempotency on the network: however calls, retries, crashes and         *)
(* restarts interleave, relays see at most one call per key.               *)
AtMostOnePublisherPerKey ==
  \A c, d \in Calls :
    /\ Contacted(c) /\ Contacted(d)
    /\ req[c].key # None /\ req[c].key = req[d].key
    => c = d

(* Write-ahead: before a relay is contacted the job is in the database,    *)
(* with a snapshot that names the relay, so that no crash can forget it.   *)
SnapshotBeforeContact ==
  \A c \in Calls : \A r \in Relays :
    replies[c][r] # None =>
      /\ Recorded(c)
      /\ \E i \in DOMAIN snapshots[c] : RelayOf[snapshots[c][i].target] = r

(* The targets of job c whose relay really accepted the event.             *)
Delivered(c) ==
  {i \in DOMAIN snapshots[c] :
     /\ snapshots[c][i].kind = "Retryable"
     /\ replies[c][RelayOf[snapshots[c][i].target]] = "Accepted"}

(* Whether these places of a snapshot are as many as the policy asks for,  *)
(* or the ones it asks for.                                                *)
Fulfils(p, snap, accepted) ==
  LET n == Cardinality(accepted)
  IN  CASE p.type = "Any"    -> n >= 1
        [] p.type = "All"    -> n = Len(snap)
        [] p.type = "Quorum" -> n >= p.quorum
        [] OTHER -> p.targets \subseteq {snap[i].target : i \in accepted}

(* No false success: a job stored as DeliverySatisfied was accepted by as  *)
(* many relays as its policy asks for, also when it was completed after a  *)
(* timeout, or recovered, or rewritten by another process.                 *)
SatisfiedIsDelivered ==
  \A c \in Calls : jobs[c].status = "DeliverySatisfied" =>
    Fulfils(PolicyFor(c), snapshots[c], Delivered(c))

(* Once the daemon has opened the store, every job still Publishing        *)
(* belongs to a call of this run of the daemon: recovery has missed none,  *)
(* and has not touched a later one.                                        *)
NoJobLeftBehind ==
  store["daemon"].state = "open" =>
    \A c \in Calls : jobs[c].status = "Publishing" => born[c] = epoch

(* The semaphore neither leaks nor invents permits: the free ones and the  *)
(* calls in progress always add up, whichever way calls end.               *)
PermitsAddUp ==
  permits + Cardinality({c \in Calls : pc[c] \in Active}) = MaxConcurrent

(* No target has two outcomes.                                             *)
DistinctTargets(s) ==
  \A i, j \in DOMAIN s : s[i].target = s[j].target => i = j

(* The targets of the attempt are enough for the quorum of the policy.     *)
QuorumFits(c) ==
  ~(required_target_count(PolicyFor(c), Len(snapshots[c])) > Len(snapshots[c]))

(* Egress never meets a malformed job that a call of this run of the       *)
(* daemon has completed, while only the daemon writes: a settled job has   *)
(* the outcome rows its row counts and a status they justify, and one row  *)
(* for every target of the attempt unless it was rejected before relays    *)
(* were contacted.  Two outcomes for the same target, which target         *)
(* resolution can produce, are the exception, and a completion that fails. *)
SettledJobsAreWhole ==
  \A c \in Calls :
    /\ Settled(c) /\ Quiet(c) /\ DistinctTargets(snapshots[c])
    /\ born[c] = epoch /\ pc[c] \notin {"lost", "failed"} /\ cliRuns = 0
    =>
      /\ jobs[c].count = Cardinality(results[c])
      /\ jobs[c].status # "Rejected" =>
           /\ {o.target : o \in results[c]} =
                {snapshots[c][i].target : i \in DOMAIN snapshots[c]}
           /\ jobs[c].status = delivery_status(PolicyFor(c), jobs[c].count,
                                               Listing(results[c]))

(* store_open_recovers_interrupted_publishing_jobs: a job whose publish    *)
(* was interrupted is valid after the store has been opened again.         *)
ReopenedJobsAreValid ==
  store["daemon"].state = "open" =>
    \A c \in Calls :
      /\ Settled(c) /\ Quiet(c) /\ born[c] < epoch
      /\ DistinctTargets(snapshots[c])
      => TRUE \in validate(jobs[c], PolicyFor(c), results[c])

(* publish_event_deduplicates_same_intent_and_conflicts_different_intent:  *)
(* a call answered with a conflict met a job of a different intent.        *)
ConflictMeansDifferentIntent ==
  \A c \in Calls : pc[c] = "conflict" =>
    \E d \in Calls : /\ Recorded(d)
                     /\ req[d].key = req[c].key
                     /\ req[d].intent # req[c].intent

(* The single-process store implements the ledger: one entry per key,      *)
(* relays contacted only for an entry that is recorded and open, every     *)
(* entry settled once and for all, across crashes and recoveries.          *)
Ledger == INSTANCE JobLedger WITH
            NoKey     <- None,
            Final     <- FinalStatus,
            ledger    <- [c \in Calls |-> jobs[c].status],
            keyOf     <- [c \in Calls |->
                            IF Recorded(c) THEN req[c].key ELSE None],
            contacted <- {c \in Calls : Contacted(c)}

ImplementsLedger == Ledger!LedgerSpec

(* Every call the daemon admits comes to an end, even if no relay answers. *)
EveryCallEnds ==
  \A c \in Calls : pc[c] \in Active ~> pc[c] \in Ended

(* A Publishing job is settled, unless the daemon is down or the call was  *)
(* dropped or failed in the present run of the daemon: a restart settles   *)
(* those too.                                                              *)
EveryJobSettles ==
  \A c \in Calls :
    jobs[c].status = "Publishing" ~>
      \/ Settled(c)
      \/ store["daemon"].state = "closed"
      \/ pc[c] \in {"dropped", "failed"} /\ born[c] = epoch
=============================================================================
