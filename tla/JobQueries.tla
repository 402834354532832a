----------------------------- MODULE JobQueries -----------------------------
(***************************************************************************)
(* transport.publish.job.get and transport.publish.job.list, next to the   *)
(* calls of PublishJobs that write the jobs they read, and the one way in  *)
(* which the daemon's connection loses its place: a COMMIT that fails.     *)
(*                                                                         *)
(* A query takes the Mutex of the connection once for the job rows and     *)
(* once more for the outcomes of each job, so calls complete in between.   *)
(*                                                                         *)
(* record_publish_job rolls back when a statement before COMMIT fails, but *)
(* not when COMMIT does (another process reads the database, the disk is   *)
(* full): the transaction stays open on the connection.  From then on what *)
(* the daemon reads and writes is the view of that transaction, a BEGIN    *)
(* fails, and the end of the process rolls everything back.                *)
(***************************************************************************)
EXTENDS PublishJobs

CONSTANTS
  Queries,     \* job.get and job.list calls
  Principals,  \* the principals of calls and queries
  OwnerOf,     \* whose call a publish_event call is
  Admins,      \* principals with job visibility admin
  ListLimit    \* config job_list_limit

ASSUME QueriesAssumption ==
  /\ OwnerOf \in [Calls -> Principals]
  /\ Admins \subseteq Principals
  /\ ListLimit \in Nat \ {0}

VARIABLES
  query,      \* the queries
  broken,     \* is a transaction left open on the daemon's connection
  committed   \* what the database had when that transaction began

queryVars == <<query, broken, committed>>
allVars   == <<vars, query, broken, committed>>

Database   == [jobs |-> jobs, snapshots |-> snapshots, results |-> results]
NoDatabase == [jobs |-> <<>>, snapshots |-> <<>>, results |-> <<>>]

(* What survives the daemon.                                               *)
Durable == IF broken THEN committed ELSE Database

(* todo: rows read whose outcomes are still to be read; views: jobs ready  *)
(* to be returned; touched: jobs whose outcomes were read; torn: the row   *)
(* of one of them was no longer its row at that time.                      *)
NoQuery == [at |-> "idle", todo |-> <<>>, views |-> {},
            touched |-> {}, torn |-> FALSE]

QInit ==
  /\ Init
  /\ query = [q \in Queries |-> NoQuery]
  /\ broken = FALSE
  /\ committed = NoDatabase

-----------------------------------------------------------------------------
(* PublishPrincipal::can_read_job, and the WHERE clause of a listing.      *)
can_read_job(p, c) == p \in Admins \/ OwnerOf[c] = p

(* The rows a query has read, with their outcomes to be read next.         *)
Reading(q, S) ==
  query' = [query EXCEPT ![q] = [NoQuery EXCEPT !.at = "reading",
                                   !.todo = [c \in S |-> jobs[c]]]]

Ready(q) == query[q].at = "idle" /\ store["daemon"].state = "open" /\ ~Locked

(* job.get: the row of a job the principal may read.                       *)
GetRow(q, p, c) ==
  /\ Ready(q)
  /\ IF Recorded(c) /\ can_read_job(p, c)
     THEN Reading(q, {c})
     ELSE query' = [query EXCEPT ![q].at = "unknown"]
  /\ UNCHANGED <<vars, broken, committed>>

(* The number of rows asked for: a limit of the request, where none is     *)
(* zero here, up to the configured one, clamped to 1..200.                 *)
Limit(n) == LET l == IF n = 0 \/ n > ListLimit THEN ListLimit ELSE n
            IN  IF l > 200 THEN 200 ELSE l

(* job.list: the rows of the newest jobs the principal may read.  Which    *)
(* ones are newest is up to clocks the model does not have.                *)
ListRows(q, p, n) ==
  LET visible == {c \in Calls : Recorded(c) /\ can_read_job(p, c)}
      most    == Limit(n)
  IN
  /\ Ready(q)
  /\ \E S \in SUBSET visible :
       /\ Cardinality(S) = IF Cardinality(visible) < most
                           THEN Cardinality(visible) ELSE most
       /\ Reading(q, S)
  /\ UNCHANGED <<vars, broken, committed>>

(* A limit of zero is refused.                                             *)
ListNone(q) ==
  /\ Ready(q)
  /\ query' = [query EXCEPT ![q].at = "refused"]
  /\ UNCHANGED <<vars, broken, committed>>

\* Mutant: the job is returned without validation.
ReadOutcomesUnchecked(q, c) ==
  LET row == query[q].todo[c]
  IN
  /\ query[q].at = "reading"
  /\ c \in DOMAIN query[q].todo
  /\ ~Locked
  /\ query' = [query EXCEPT
                 ![q].todo = [d \in DOMAIN @ \ {c} |-> @[d]],
                 ![q].views = @ \cup {[job |-> c, row |-> row,
                                       outcomes |-> results[c]]},
                 ![q].touched = @ \cup {c},
                 ![q].torn = @ \/ row # jobs[c]]
  /\ UNCHANGED <<vars, broken, committed>>

(* finalize_job_row_for_egress for one job of the query: its outcomes, and *)
(* the validation of the whole; the first job that is invalid ends it all. *)
ReadOutcomes(q, c) ==
  LET row  == query[q].todo[c]
      rest == DOMAIN query[q].todo \ {c}
      view == [job |-> c, row |-> row, outcomes |-> results[c]]
  IN
  /\ query[q].at = "reading"
  /\ c \in DOMAIN query[q].todo
  /\ ~Locked
  /\ \E ok \in validate(row, PolicyFor(c), results[c]) :
       query' = [query EXCEPT
                   ![q].at = IF ok THEN "reading" ELSE "failed",
                   ![q].todo = IF ok THEN [d \in rest |-> @[d]] ELSE <<>>,
                   ![q].views = IF ok THEN @ \cup {view} ELSE {},
                   ![q].touched = @ \cup {c},
                   ![q].torn = @ \/ row # jobs[c]]
  /\ UNCHANGED <<vars, broken, committed>>

\* Mutant: a job that is still publishing is waited for.
AnswerOnceSettled(q) ==
  /\ query[q].at = "reading"
  /\ DOMAIN query[q].todo = {}
  /\ \A v \in query[q].views : jobs[v.job].status # "Publishing"
  /\ query' = [query EXCEPT ![q].at = "answered"]
  /\ UNCHANGED <<vars, broken, committed>>

Answer(q) ==
  /\ query[q].at = "reading"
  /\ DOMAIN query[q].todo = {}
  /\ query' = [query EXCEPT ![q].at = "answered"]
  /\ UNCHANGED <<vars, broken, committed>>

(* A statement of the query fails.                                         *)
QueryErrs(q) ==
  /\ query[q].at = "reading"
  /\ Fault("io")
  /\ query' = [query EXCEPT ![q] = [NoQuery EXCEPT !.at = "lost"]]
  /\ UNCHANGED <<dbVars, pc, req, res, replies, seen, permits, write, store,
                 broken, committed>>

QueryStep(q) == (\E c \in Calls : ReadOutcomes(q, c)) \/ Answer(q)

-----------------------------------------------------------------------------
(* COMMIT fails: the rows are in the open transaction, the call returns    *)
(* the error and lets go of the connection.                                *)
CommitFails(c) ==
  /\ pc[c] = "insert"
  /\ ~Locked /\ ~KeyTaken(c) /\ ~broken
  /\ Fault("io")
  /\ broken' = TRUE
  /\ committed' = Database
  /\ jobs' = [jobs EXCEPT ![c] = [status |-> "Publishing",
                                  count |-> target_count(res[c]),
                                  lastError |-> None]]
  /\ snapshots' = [snapshots EXCEPT ![c] =
                     target_snapshots_from_resolution(res[c])]
  /\ End(c, "failed")
  /\ UNCHANGED <<results, req, replies, seen, write, store, query>>

(* The next BEGIN fails, the call with it; nothing ends the transaction.   *)
BeginFails(c) ==
  /\ broken
  /\ pc[c] = "insert"
  /\ ~Locked
  /\ End(c, "failed")
  /\ UNCHANGED <<dbVars, req, replies, seen, write, store, histVars,
                 queryVars>>

\* Mutant: the job goes into the transaction that is open already.
BeginsAnyway(c) == TRUE

(* BEGIN succeeds on a connection that has no transaction.                 *)
Begins(c) == pc[c] = "insert" => ~broken

(* The end of the daemon: queries are lost, an open transaction is rolled  *)
(* back.                                                                   *)
Crash ==
  /\ DaemonGone
  /\ jobs' = Durable.jobs
  /\ snapshots' = Durable.snapshots
  /\ results' = Durable.results
  /\ query' = [q \in Queries |->
                 IF query[q].at = "reading"
                 THEN [NoQuery EXCEPT !.at = "lost"] ELSE query[q]]
  /\ broken' = FALSE
  /\ committed' = NoDatabase

-----------------------------------------------------------------------------
CallGoesOn(c) ==
  \/ Begins(c) /\ CallStep(c) /\ UNCHANGED queryVars
  \/ BeginFails(c)

(* The other steps of PublishJobs: a daemon with the database to itself.   *)
JobStep ==
  \/ RecoveryStep("daemon")
  \/ \E c \in Calls : \E r \in Request : Admit(c, r)
  \/ \E c \in Calls : \E r \in Relays : \E kind \in ReplyKinds :
       RelayReplies(c, r, kind)
  \/ OpenStore("daemon")
  \/ \E c \in Calls : Refuse(c) \/ Disconnect(c) \/ StatementFails(c)

QNext ==
  \/ JobStep /\ UNCHANGED queryVars
  \/ \E c \in Calls : CallGoesOn(c) \/ CommitFails(c)
  \/ Crash
  \/ \E q \in Queries, p \in Principals : \E c \in Calls : GetRow(q, p, c)
  \/ \E q \in Queries, p \in Principals, n \in 0..ListLimit : ListRows(q, p, n)
  \/ \E q \in Queries : ListNone(q) \/ QueryStep(q) \/ QueryErrs(q)

QSpec == QInit /\ [][QNext]_allVars

(* The daemon runs its calls, its queries and the recovery to their end.   *)
QFairSpec ==
  /\ QSpec
  /\ \A c \in Calls : WF_allVars(CallGoesOn(c))
  /\ WF_allVars(RecoveryStep("daemon") /\ UNCHANGED queryVars)
  /\ \A q \in Queries : WF_allVars(QueryStep(q))

-----------------------------------------------------------------------------
(* PROPERTIES                                                              *)

(* A query fails only because a call completed while it was reading: jobs  *)
(* that rest can always be read, and the outcomes of a completion are not  *)
(* seen half written.  Not so after a crash or a failed completion, which  *)
(* may leave a job that no query can read, or with two outcomes for one    *)
(* target; and of a job rejected because its quorum is out of reach it is  *)
(* not known here whether Job::validate accepts the outcomes stored.       *)
QueriesFailOnlyWhenTorn ==
  \A q \in Queries :
    /\ query[q].at = "failed" /\ epoch = 1
    /\ \A c \in query[q].touched :
         DistinctTargets(snapshots[c]) /\ QuorumFits(c) /\ pc[c] # "failed"
    => query[q].torn

(* No false success in an answer, torn or not: a job shown as satisfied    *)
(* has been accepted by its relays, and the outcomes shown with it are     *)
(* those of the completion that satisfied it.                              *)
AnswersTellTheTruth ==
  \A q \in Queries : query[q].at = "answered" =>
    \A v \in query[q].views : v.row.status = "DeliverySatisfied" =>
      /\ \A o \in v.outcomes : o.kind = "Accepted" =>
           replies[v.job][RelayOf[o.target]] = "Accepted"
      /\ v.row.status = delivery_status(PolicyFor(v.job), v.row.count,
                                        Listing(v.outcomes))

(* Write-ahead, also on a connection that has lost its place: a relay is   *)
(* contacted only for a job that is committed, with a snapshot that names  *)
(* the relay, so the end of the daemon cannot make it forget.              *)
ContactedIsCommitted ==
  \A c \in Calls : \A r \in Relays :
    replies[c][r] # None =>
      /\ Durable.jobs[c].status # "Absent"
      /\ \E i \in DOMAIN Durable.snapshots[c] :
           RelayOf[Durable.snapshots[c][i].target] = r

(* Every RPC call ends: queries, whatever calls complete in the meantime,  *)
(* and calls, whatever becomes of the connection and the relays.           *)
EveryRequestEnds ==
  /\ EveryCallEnds
  /\ \A q \in Queries : query[q].at = "reading" ~> query[q].at # "reading"
=============================================================================
