-------------------------- MODULE JobQueriesProofs --------------------------
(***************************************************************************)
(* Proofs about JobQueries, for any number of calls, queries, failed       *)
(* COMMITs and crashes.                                                    *)
(*                                                                         *)
(* The steps of PublishJobs are steps here, so its lemmas on Next carry    *)
(* its invariant through them.  What is new is that the end of the daemon  *)
(* may undo committed-looking rows: CommitInv relates the tables the       *)
(* daemon sees to the ones that survive it.                                *)
(*                                                                         *)
(* The second part is about answers: AnswerInv adds what the single-daemon *)
(* lemmas of PublishJobsProofs say of settled jobs, that a rollback leaves *)
(* those as they are, and that a query holds nothing a later step makes    *)
(* false.  The third part, FailInv, is about queries that fail: it carries *)
(* from the moment a validation fails who was to blame for it.             *)
(***************************************************************************)
EXTENDS JobQueries, PublishJobsProofs

(* No other process has the database open.                                 *)
CliInv == /\ store["cli"].todo = {}
          /\ write["cli"].stage = "idle"

(* What would be left after a rollback: jobs that are recorded, with the   *)
(* snapshots they have, and all those a call works with or a relay has     *)
(* heard of.                                                               *)
CommitInv ==
  broken =>
    /\ committed.jobs \in [Calls -> Row]
    /\ committed.snapshots \in [Calls -> Seq(Outcome)]
    /\ committed.results \in [Calls -> SUBSET Outcome]
    /\ \A c \in Calls : committed.jobs[c].status # "Absent" =>
         Recorded(c) /\ snapshots[c] = committed.snapshots[c]
    /\ \A c \in Calls : committed.jobs[c].status = "Absent" =>
         ~Contacted(c) /\ pc[c] \notin AfterInsert

QInv == IInv /\ CliInv /\ CommitInv

-----------------------------------------------------------------------------
(* THE STEPS                                                               *)

(* A step of PublishJobs, by a daemon that has the database to itself and  *)
(* begins no transaction in another one.                                   *)
Works == /\ JobStep \/ \E c \in Calls : Begins(c) /\ CallStep(c)
         /\ UNCHANGED queryVars

(* A step of a query.                                                      *)
Asks == /\ UNCHANGED <<jobs, snapshots, results, pc, req, res, replies, seen,
                       permits, write, store, epoch, born, cliRuns,
                       broken, committed>>
        /\ faults' = faults \/ faults' = faults + 1

(* Every step is one of these.                                             *)
LEMMA QueryKinds ==
  ASSUME QNext
  PROVE  \/ Works
         \/ \E c \in Calls : BeginFails(c)
         \/ \E c \in Calls : CommitFails(c)
         \/ Crash
         \/ Asks
<1>1. ASSUME NEW q \in Queries,
             \/ \E p \in Principals : \E c \in Calls : GetRow(q, p, c)
             \/ \E p \in Principals, n \in 0..ListLimit : ListRows(q, p, n)
             \/ ListNone(q) \/ QueryStep(q) \/ QueryErrs(q)
      PROVE  Asks
  BY <1>1 DEF GetRow, ListRows, ListNone, QueryStep, ReadOutcomes, Answer,
              QueryErrs, Fault, Asks, vars, dbVars
<1>2. ASSUME NEW c \in Calls, CallGoesOn(c) PROVE Works \/ BeginFails(c)
  BY <1>2 DEF CallGoesOn, Works
<1> QED BY <1>1, <1>2 DEF QNext, Works

(* The work of the daemon is that of PublishJobs.                          *)
LEMMA WorksIsNext ==
  ASSUME Works
  PROVE  Next
BY DEF Works, JobStep, Next, Environment, Procs

(* Work leaves the other process alone.                                    *)
LEMMA WorksCli ==
  ASSUME TypeOK, CliInv, Works
  PROVE  CliInv'
<1>1. "cli" \notin Calls /\ "cli" \in Writers /\ "daemon" \in Writers
  BY PublishAssumption DEF Writers, Procs
<1>2. ASSUME NEW w \in Writers \ {"cli"},
             UpdateJob(w) \/ DeleteResults(w) \/ InsertResult(w)
      PROVE  CliInv'
  BY <1>1, <1>2 DEF UpdateJob, DeleteResults, InsertResult, ContinueWith,
                    TypeOK, CliInv
<1>3. ASSUME NEW c \in Calls, CallStep(c) PROVE CliInv'
  BY <1>1, <1>2, <1>3
  DEF CallStep, Resolve, LookupKey, LookupReadOutcomes, InsertJob, ReadRow,
      RecordReadOutcomes, Execute, PublishDone, PublishAborted, CompleteWith,
      Complete, FinalReadOutcomes, TypeOK, CliInv, Writers
<1>4. ASSUME RecoveryStep("daemon") PROVE CliInv'
  BY <1>1, <1>2, <1>4
  DEF RecoveryStep, SelectInterrupted, RecoverJob, FinishOpen, TypeOK,
      CliInv, Procs, Writers
<1>5. ASSUME NEW c \in Calls, Refuse(c) \/ Disconnect(c) \/ StatementFails(c)
      PROVE  CliInv'
  BY <1>1, <1>5 DEF Refuse, Disconnect, StatementFails, TypeOK, CliInv
<1>6. ASSUME NEW c \in Calls, \/ \E r \in Request : Admit(c, r)
                              \/ \E r \in Relays : \E kind \in ReplyKinds :
                                   RelayReplies(c, r, kind)
      PROVE  CliInv'
  BY <1>6 DEF Admit, RelayReplies, CliInv
<1>7. ASSUME OpenStore("daemon") PROVE CliInv'
  BY <1>7 DEF OpenStore, TypeOK, CliInv, Procs
<1> QED BY <1>3, <1>4, <1>5, <1>6, <1>7 DEF Works, JobStep

(* On a connection with an open transaction no snapshot is written and no  *)
(* call gets past its INSERT.                                              *)
LEMMA BrokenFrame ==
  ASSUME TypeOK, WriteInv, broken, Works
  PROVE  /\ snapshots' = snapshots
         /\ \A c \in Calls : pc'[c] \in AfterInsert => pc[c] \in AfterInsert
         /\ \A c \in Calls : Contacted(c)' =>
              Contacted(c) \/ pc[c] = "publishing"
<1> USE DEF dbVars, histVars, AfterInsert
<1> DEFINE Stays == /\ snapshots' = snapshots
                    /\ \A d \in Calls : pc'[d] \in AfterInsert =>
                                          pc[d] \in AfterInsert
                    /\ \A d \in Calls : Contacted(d)' =>
                         Contacted(d) \/ pc[d] = "publishing"
<1>1. ASSUME NEW c \in Calls, NEW place, pc' = [pc EXCEPT ![c] = place],
             place \in AfterInsert => pc[c] \in AfterInsert,
             UNCHANGED <<snapshots, replies>>
      PROVE  Stays
  BY <1>1 DEF TypeOK, Contacted
<1>2. ASSUME UNCHANGED <<snapshots, replies, pc>> PROVE Stays
  BY <1>2 DEF Contacted
<1> HIDE DEF Stays
<1>3. ASSUME NEW c \in Calls,
             \/ \E q \in Request : Admit(c, q)
             \/ Refuse(c)
             \/ \E r \in Resolutions : Resolve(c, r)
             \/ LookupKey(c)
             \/ LookupReadOutcomes(c)
             \/ ReadRow(c)
             \/ FinalReadOutcomes(c)
             \/ Disconnect(c)
             \/ StatementFails(c)
      PROVE  Stays
  <2>1. UNCHANGED <<snapshots, replies>>
    BY <1>3 DEF Admit, Refuse, Resolve, LookupKey, LookupReadOutcomes,
                ReadRow, FinalReadOutcomes, Disconnect, StatementFails
  <2>2. \E place : /\ pc' = [pc EXCEPT ![c] = place]
                   /\ place \in AfterInsert => pc[c] \in AfterInsert
    BY <1>3 DEF Admit, Refuse, Resolve, LookupKey, LookupReadOutcomes,
                ReadRow, FinalReadOutcomes, Disconnect, StatementFails, End
  <2> QED BY <1>1, <2>1, <2>2
<1>4. ASSUME NEW c \in Calls, RecordReadOutcomes(c) \/ PublishDone(c)
                                \/ PublishAborted(c)
      PROVE  Stays
  <2>1. UNCHANGED <<snapshots, replies>> /\ pc[c] \in AfterInsert
    BY <1>4 DEF RecordReadOutcomes, PublishDone, PublishAborted
  <2>2. \E place : pc' = [pc EXCEPT ![c] = place]
    BY <1>4 DEF RecordReadOutcomes, PublishDone, PublishAborted,
                CompleteWith, Complete, Execute, End
  <2> QED BY <1>1, <2>1, <2>2
<1>5. ASSUME NEW w \in Writers, UpdateJob(w) PROVE Stays
  BY <1>2, <1>5 DEF UpdateJob
<1>6. ASSUME NEW w \in Writers, DeleteResults(w) \/ InsertResult(w)
      PROVE  Stays
  <2>1. /\ UNCHANGED <<snapshots, replies>>
        /\ write[w].stage # "idle"
        /\ \/ pc' = pc
           \/ w \in Calls /\ pc' = [pc EXCEPT ![w] = "finalRow"]
    BY <1>6 DEF DeleteResults, InsertResult, ContinueWith
  <2>2. w \in Calls => pc[w] \in AfterInsert
    BY <2>1 DEF WriteInv
  <2> QED BY <1>1, <1>2, <2>1, <2>2
<1>7. ASSUME NEW c \in Calls, NEW r \in Relays, NEW kind \in ReplyKinds,
             RelayReplies(c, r, kind)
      PROVE  Stays
  <2>1. UNCHANGED <<snapshots, pc>> /\ pc[c] = "publishing"
    BY <1>7 DEF RelayReplies
  <2>2. \A d \in Calls \ {c} : replies'[d] = replies[d]
    BY <1>7 DEF RelayReplies, TypeOK
  <2> QED BY <2>1, <2>2 DEF Stays, Contacted
<1>8. ASSUME \/ OpenStore("daemon") \/ SelectInterrupted("daemon")
             \/ FinishOpen("daemon")
             \/ \E c \in Calls : RecoverJob("daemon", c)
      PROVE  Stays
  BY <1>2, <1>8 DEF OpenStore, SelectInterrupted, FinishOpen, RecoverJob
<1>9. ASSUME NEW c \in Calls, CallStep(c), Begins(c) PROVE Stays
  <2>1. ~InsertJob(c)
    BY <1>9 DEF InsertJob, Begins
  <2>2. c \in Writers
    BY DEF Writers
  <2> QED BY <1>3, <1>4, <1>5, <1>6, <1>9, <2>1, <2>2 DEF CallStep
<1>10. "daemon" \in Writers
  BY DEF Writers, Procs
<1>11. Stays
  BY <1>3, <1>5, <1>6, <1>7, <1>8, <1>9, <1>10 DEF Works, JobStep, RecoveryStep
<1> QED BY <1>11 DEF Stays

(* The work of the daemon keeps the part that a rollback would leave.      *)
LEMMA WorksCommit ==
  ASSUME IInv, CommitInv, Works
  PROVE  CommitInv'
<1>1. /\ broken' = broken /\ committed' = committed
  BY DEF Works, queryVars
<1>2. \A c \in Calls : Recorded(c) => Recorded(c)'
  BY WorksIsNext, RecordedStays DEF IInv
<1>3. CASE broken
  <2>1. /\ snapshots' = snapshots
        /\ \A c \in Calls : pc'[c] \in AfterInsert => pc[c] \in AfterInsert
        /\ \A c \in Calls : Contacted(c)' =>
             Contacted(c) \/ pc[c] = "publishing"
    BY <1>3, BrokenFrame DEF IInv
  <2>2. "publishing" \in AfterInsert
    BY DEF AfterInsert
  <2> QED BY <1>1, <1>2, <1>3, <2>1, <2>2 DEF CommitInv
<1> QED BY <1>1, <1>3 DEF CommitInv

(* What a call that ends leaves of the type invariant.                     *)
LEMMA BeginFailsStep ==
  ASSUME QInv, NEW c \in Calls, BeginFails(c)
  PROVE  QInv'
<1> USE DEF dbVars, histVars, queryVars
<1>1. /\ UNCHANGED <<jobs, snapshots, results, req, replies, seen, write,
                     store, epoch, born, faults, cliRuns, broken, committed>>
      /\ End(c, "failed") /\ pc[c] = "insert"
  BY DEF BeginFails
<1>2. "failed" \in Ended /\ "insert" \in Active /\ "failed" \notin AfterInsert
  BY DEF Ended, Active, DbSteps, AfterInsert
<1>3. PermitInv'
  BY <1>1, <1>2, EndReturnsPermit DEF QInv, IInv
<1>4. TypeOK'
  <2>1. permits' \in 0..MaxConcurrent
    BY <1>3, PermitBounds
  <2>2. pc' \in [Calls -> Places] /\ res' \in [Calls -> Resolution]
    BY <1>1, <1>2, EndType DEF QInv, IInv
  <2> QED BY <1>1, <2>1, <2>2 DEF TypeOK, QInv, IInv
<1>5. \A d \in Calls : pc'[d] = IF d = c THEN "failed" ELSE pc[d]
  BY <1>1 DEF End, TypeOK, QInv, IInv
<1>6. PhaseInv'
  BY <1>1, <1>2, EndKeepsPhase DEF QInv, IInv
<1>7. WriteInv'
  BY <1>1, <1>5 DEF WriteInv, Recorded, QInv, IInv
<1>8. TodoInv' /\ OneJobPerKey' /\ SnapshotBeforeContact' /\ CliInv'
  BY <1>1 DEF TodoInv, OneJobPerKey, SnapshotBeforeContact, CliInv,
              Recorded, QInv, IInv
<1>9. CommitInv'
  BY <1>1, <1>2, <1>5 DEF CommitInv, Recorded, Contacted, QInv
<1> QED BY <1>3, <1>4, <1>6, <1>7, <1>8, <1>9 DEF QInv, IInv

(* A COMMIT that fails: what was there before it is what a rollback        *)
(* leaves, and no other job is in it.                                      *)
LEMMA CommitFailsStep ==
  ASSUME QInv, NEW c \in Calls, CommitFails(c)
  PROVE  QInv'
<1> USE DEF dbVars, histVars
<1>1. /\ UNCHANGED <<results, req, replies, seen, write, store, epoch, born,
                     cliRuns>>
      /\ faults' = faults + 1
      /\ jobs' = [jobs EXCEPT ![c] = [status |-> "Publishing",
                                      count |-> target_count(res[c]),
                                      lastError |-> None]]
      /\ snapshots' = [snapshots EXCEPT ![c] =
                         target_snapshots_from_resolution(res[c])]
      /\ broken' = TRUE /\ committed' = Database
      /\ End(c, "failed") /\ pc[c] = "insert" /\ ~KeyTaken(c)
  BY DEF CommitFails, Fault
<1>2. "failed" \in Ended /\ "insert" \in Active
  BY DEF Ended, Active, DbSteps
<1>3. PermitInv'
  BY <1>1, <1>2, EndReturnsPermit DEF QInv, IInv
<1>4. TypeOK'
  <2>1. permits' \in 0..MaxConcurrent
    BY <1>3, PermitBounds
  <2>2. pc' \in [Calls -> Places] /\ res' \in [Calls -> Resolution]
    BY <1>1, <1>2, EndType DEF QInv, IInv
  <2>3. res[c] \in Resolution
    BY DEF QInv, IInv, TypeOK
  <2>4. /\ target_snapshots_from_resolution(res[c]) \in Seq(Outcome)
        /\ target_count(res[c]) \in Nat
    BY <2>3, SnapshotType
  <2>5. [status |-> "Publishing", count |-> target_count(res[c]),
         lastError |-> None] \in Row
    BY <2>4 DEF Row, Errors
  <2>6. jobs' \in [Calls -> Row] /\ snapshots' \in [Calls -> Seq(Outcome)]
    BY <1>1, <2>4, <2>5 DEF QInv, IInv, TypeOK
  <2> QED BY <1>1, <2>1, <2>2, <2>6 DEF TypeOK, QInv, IInv
<1>5. /\ \A d \in Calls : pc'[d] = IF d = c THEN "failed" ELSE pc[d]
      /\ \A d \in Calls \ {c} : /\ res'[d] = res[d]
                                /\ jobs'[d] = jobs[d]
                                /\ snapshots'[d] = snapshots[d]
      /\ jobs'[c].status = "Publishing"
  BY <1>1 DEF End, TypeOK, QInv, IInv
<1>6. ~Recorded(c)
  BY <1>1 DEF QInv, IInv, PhaseInv, BeforeInsert
<1>7. /\ Recorded(c)'
      /\ \A d \in Calls \ {c} : Recorded(d)' <=> Recorded(d)
  BY <1>5 DEF Recorded
<1>8. PhaseInv'
  <2>1. "failed" \notin BeforeInsert \cup AfterInsert \cup Attempting
    BY DEF BeforeInsert, AfterInsert, Attempting
  <2> QED BY <1>5, <1>7, <2>1 DEF PhaseInv, QInv, IInv
<1>9. WriteInv'
  BY <1>1, <1>5, <1>7 DEF WriteInv, QInv, IInv
<1>10. TodoInv'
  <2>1. \A p \in Procs : store[p].todo \subseteq Calls
    BY DEF TypeOK, OpenState, QInv, IInv
  <2> QED BY <1>1, <1>7, <2>1 DEF TodoInv, QInv, IInv
<1>11. OneJobPerKey'
  <2>1. req[c].key # None =>
          \A d \in Calls : Recorded(d) => req[d].key # req[c].key
    BY <1>1 DEF KeyTaken
  <2> QED BY <1>1, <1>7, <2>1 DEF OneJobPerKey, QInv, IInv
<1>12. SnapshotBeforeContact'
  BY <1>1, <1>5, <1>6, <1>7 DEF SnapshotBeforeContact, QInv, IInv
<1>13. CliInv'
  BY <1>1 DEF CliInv, QInv
<1>14. CommitInv'
  <2>1. /\ committed'.jobs = jobs
        /\ committed'.snapshots = snapshots
        /\ committed'.results = results
    BY <1>1 DEF Database
  <2>2. \A d \in Calls : jobs[d].status # "Absent" =>
          Recorded(d)' /\ snapshots'[d] = snapshots[d]
    BY <1>5, <1>6, <1>7 DEF Recorded
  <2>3. \A d \in Calls : jobs[d].status = "Absent" =>
          ~Contacted(d)' /\ pc'[d] \notin AfterInsert
    <3>1. "failed" \notin AfterInsert
      BY DEF AfterInsert
    <3> QED BY <1>1, <1>5, <3>1 DEF SnapshotBeforeContact, Contacted,
                                    PhaseInv, Recorded, QInv, IInv
  <2> QED BY <2>1, <2>2, <2>3 DEF CommitInv, QInv, IInv, TypeOK
<1> QED
  BY <1>3, <1>4, <1>8, <1>9, <1>10, <1>11, <1>12, <1>13, <1>14 DEF QInv, IInv

(* What is durable agrees with what the daemon sees, as far as relays have *)
(* heard of it.                                                            *)
LEMMA DurableFacts ==
  ASSUME QInv
  PROVE  /\ Durable.jobs \in [Calls -> Row]
         /\ Durable.snapshots \in [Calls -> Seq(Outcome)]
         /\ Durable.results \in [Calls -> SUBSET Outcome]
         /\ \A c \in Calls : Durable.jobs[c].status # "Absent" =>
              Recorded(c) /\ Durable.snapshots[c] = snapshots[c]
         /\ \A c \in Calls : Contacted(c) => Durable.jobs[c].status # "Absent"
<1>1. CASE broken
  <2>1. Durable = committed
    BY <1>1 DEF Durable
  <2> QED BY <1>1, <2>1 DEF CommitInv, QInv
<1>2. CASE ~broken
  <2>1. /\ Durable.jobs = jobs /\ Durable.snapshots = snapshots
        /\ Durable.results = results
    BY <1>2 DEF Durable, Database
  <2> QED BY <2>1 DEF QInv, IInv, TypeOK, Recorded, SnapshotBeforeContact,
                      Contacted
<1> QED BY <1>1, <1>2

(* The end of the daemon, with a rollback or without.                      *)
LEMMA CrashStep ==
  ASSUME QInv, Crash
  PROVE  QInv'
<1>1. /\ UNCHANGED <<req, replies, epoch, born, cliRuns>>
      /\ faults' = faults + 1
      /\ store' = [store EXCEPT !["daemon"] = [state |-> "closed", todo |-> {}]]
      /\ pc' = [c \in Calls |-> IF pc[c] \in Active THEN "lost" ELSE pc[c]]
      /\ res' = [c \in Calls |-> NoRes]
      /\ seen' = [c \in Calls |-> NoSeen]
      /\ write' = [w \in Writers |-> IF w = "cli" THEN write[w] ELSE NoWrite]
      /\ permits' = MaxConcurrent
      /\ jobs' = Durable.jobs /\ snapshots' = Durable.snapshots
      /\ results' = Durable.results
      /\ broken' = FALSE
  BY DEF Crash, DaemonGone, Fault
<1>2. /\ "lost" \notin Active /\ "lost" \notin BeforeInsert
      /\ AfterInsert \cup Attempting \subseteq Active
  BY DEF Active, DbSteps, Awaiting, BeforeInsert, AfterInsert, Attempting
<1>3. PermitInv'
  <2>1. ActiveCalls' = {}
    BY <1>1, <1>2 DEF ActiveCalls
  <2>2. IsFiniteSet(ActiveCalls') /\ Cardinality(ActiveCalls') = 0
    BY <2>1, FS_EmptySet
  <2> QED
    BY <1>1, <2>2, PublishAssumption DEF PermitInv, PermitsAddUp, ActiveCalls
<1>4. TypeOK'
  <2>1. permits' \in 0..MaxConcurrent
    BY <1>3, PermitBounds
  <2>2. pc' \in [Calls -> Places]
    BY <1>1, PlaceType DEF TypeOK, QInv, IInv
  <2>3. [state |-> "closed", todo |-> {}] \in OpenState
    BY DEF OpenState
  <2>4. write' \in [Writers -> Writing] /\ store' \in [Procs -> OpenState]
    BY <1>1, <2>3, EmptyTypes DEF TypeOK, QInv, IInv
  <2>5. /\ jobs' \in [Calls -> Row]
        /\ snapshots' \in [Calls -> Seq(Outcome)]
        /\ results' \in [Calls -> SUBSET Outcome]
    BY <1>1, DurableFacts
  <2> QED BY <1>1, <2>1, <2>2, <2>4, <2>5, EmptyTypes DEF TypeOK, QInv, IInv
<1>5. CliInv'
  BY <1>1 DEF CliInv, QInv, IInv, TypeOK, Writers, Procs
<1>6. WriteInv'
  BY <1>1 DEF WriteInv, NoWrite, CliInv, QInv
<1>7. TodoInv'
  BY <1>1 DEF TodoInv, CliInv, QInv, IInv, TypeOK, Procs
<1>8. \A c \in Calls : Recorded(c)' =>
        Recorded(c) /\ snapshots'[c] = snapshots[c]
  BY <1>1, DurableFacts DEF Recorded
<1>9. PhaseInv'
  <2>1. \A c \in Calls : pc'[c] \in BeforeInsert => pc[c] \in BeforeInsert
    BY <1>1, <1>2
  <2>2. \A c \in Calls : pc'[c] \notin AfterInsert /\ pc'[c] \notin Attempting
    BY <1>1, <1>2
  <2> QED BY <1>8, <2>1, <2>2 DEF PhaseInv, QInv, IInv
<1>10. OneJobPerKey'
  BY <1>1, <1>8 DEF OneJobPerKey, QInv, IInv
<1>11. SnapshotBeforeContact'
  <2>1. \A c \in Calls : Contacted(c) => Recorded(c)'
    BY <1>1, DurableFacts DEF Recorded
  <2> QED BY <1>1, <1>8, <2>1 DEF SnapshotBeforeContact, Contacted, QInv, IInv
<1>12. CommitInv'
  BY <1>1 DEF CommitInv
<1> QED
  BY <1>3, <1>4, <1>5, <1>6, <1>7, <1>9, <1>10, <1>11, <1>12 DEF QInv, IInv

(* A query only reads.                                                     *)
LEMMA AsksStep ==
  ASSUME QInv, Asks
  PROVE  QInv'
<1>1. TypeOK'
  BY DEF Asks, QInv, IInv, TypeOK
<1>2. PermitInv' /\ WriteInv' /\ TodoInv' /\ PhaseInv'
  BY DEF Asks, QInv, IInv, PermitInv, PermitsAddUp, ActiveCalls, WriteInv,
         TodoInv, PhaseInv, Recorded
<1>3. OneJobPerKey' /\ SnapshotBeforeContact' /\ CliInv' /\ CommitInv'
  BY DEF Asks, QInv, IInv, OneJobPerKey, SnapshotBeforeContact, CliInv,
         CommitInv, Recorded, Contacted
<1> QED BY <1>1, <1>2, <1>3 DEF QInv, IInv

-----------------------------------------------------------------------------
(* THE FIRST THEOREM: WRITE-AHEAD                                          *)

(* The invariant holds at the start and is preserved by every step.        *)
LEMMA InitQInv == QInit => QInv
<1> SUFFICES ASSUME QInit PROVE QInv
  OBVIOUS
<1>1. IInv
  BY InitIInv DEF QInit
<1>2. CliInv /\ CommitInv
  BY DEF QInit, Init, CliInv, CommitInv, NoWrite, Writers, Procs
<1> QED BY <1>1, <1>2 DEF QInv

(* Every step, of a call, a query or the environment, preserves it.        *)
LEMMA StepQInv == QInv /\ [QNext]_allVars => QInv'
<1> SUFFICES ASSUME QInv, [QNext]_allVars PROVE QInv'
  OBVIOUS
<1>1. CASE Works
  <2>1. IInv'
    BY <1>1, WorksIsNext, StepIInv DEF QInv
  <2>2. CliInv' /\ CommitInv'
    BY <1>1, WorksCli, WorksCommit DEF QInv, IInv
  <2> QED BY <2>1, <2>2 DEF QInv
<1>2. CASE UNCHANGED allVars
  BY <1>2, AsksStep DEF allVars, vars, Asks
<1> QED
  BY <1>1, <1>2, QueryKinds, BeginFailsStep, CommitFailsStep, CrashStep,
     AsksStep

(* Relays are contacted only for jobs that survive the daemon, with a      *)
(* snapshot that names them, also when a COMMIT of record_publish_job has  *)
(* failed and left its transaction open: calls that write no new job go on *)
(* inside it, and no relay hears of a job that its rollback would forget.  *)
THEOREM CommittedBeforeContact == QSpec => []ContactedIsCommitted
<1>1. QInv => ContactedIsCommitted
  <2> SUFFICES ASSUME QInv PROVE ContactedIsCommitted
    OBVIOUS
  <2>1. ASSUME NEW c \in Calls, NEW r \in Relays, replies[c][r] # None
        PROVE  /\ Durable.jobs[c].status # "Absent"
               /\ \E i \in DOMAIN Durable.snapshots[c] :
                    RelayOf[Durable.snapshots[c][i].target] = r
    <3>1. /\ Durable.jobs[c].status # "Absent"
          /\ Durable.snapshots[c] = snapshots[c]
      BY <2>1, DurableFacts DEF Contacted
    <3>2. \E i \in DOMAIN snapshots[c] : RelayOf[snapshots[c][i].target] = r
      BY <2>1 DEF SnapshotBeforeContact, QInv, IInv
    <3> QED BY <3>1, <3>2
  <2> QED BY <2>1 DEF ContactedIsCommitted
<1>2. QSpec => []QInv
  BY InitQInv, StepQInv, PTL DEF QSpec
<1> QED BY <1>1, <1>2, PTL

-----------------------------------------------------------------------------
(* ANSWERS: WHAT A QUERY SHOWS OF A JOB                                    *)

(* The primary key (job_id, target) of the outcome rows.                   *)
RowKeyInv == \A c \in Calls : DistinctRows(results[c])

(* A rollback leaves the settled jobs as they are, and nobody is at work   *)
(* on one; a job it takes back to Publishing gets no outcomes.             *)
RollbackInv ==
  broken =>
    \A c \in Calls :
      /\ NothingAccepted(committed.snapshots[c])
      /\ committed.jobs[c].status \in FinalStatus =>
           /\ jobs[c] = committed.jobs[c]
           /\ results[c] = committed.results[c]
           /\ ~Busy(c)
      /\ committed.jobs[c].status \notin FinalStatus =>
           committed.results[c] = {}

(* What is shown of a satisfied job is true.                               *)
Truthful(c, row, outs) ==
  row.status = "DeliverySatisfied" =>
    /\ \A o \in outs : o.kind = "Accepted" =>
         replies[c][RelayOf[o.target]] = "Accepted"
    /\ row.status = delivery_status(PolicyFor(c), row.count, Listing(outs))

(* The records of the queries.                                             *)
QueryType ==
  /\ DOMAIN query = Queries
  /\ \A q \in Queries :
       /\ query[q] = [at |-> query[q].at, todo |-> query[q].todo,
                      views |-> query[q].views, touched |-> query[q].touched,
                      torn |-> query[q].torn]
       /\ DOMAIN query[q].todo \subseteq Calls

(* A settled row that has been read is still the row of its job, and what  *)
(* is ready to be returned is true.                                        *)
ViewInv ==
  \A q \in Queries :
    /\ query[q].at = "reading" => \A c \in DOMAIN query[q].todo :
         /\ pc[c] # "idle"
         /\ query[q].todo[c].status \in FinalStatus =>
              jobs[c] = query[q].todo[c]
    /\ \A v \in query[q].views :
         /\ v.job \in Calls /\ v.outcomes \subseteq Outcome
         /\ pc[v.job] # "idle"
         /\ Truthful(v.job, v.row, v.outcomes)

DaemonInv == /\ RunInv /\ RefusalInv /\ BornInv /\ PlanInv
             /\ SoleInv /\ OpenInv /\ FreshInv /\ RowsInv /\ RowKeyInv

AnswerInv == QInv /\ DaemonInv /\ RollbackInv /\ QueryType /\ ViewInv

-----------------------------------------------------------------------------
(* THE ROWS OF A JOB                                                       *)

(* INSERT OR REPLACE keeps one row per target.                             *)
LEMMA RowKeyStep ==
  ASSUME TypeOK, WriteInv, RowKeyInv, Next
  PROVE  RowKeyInv'
<1>1. CASE results' = results
  BY <1>1 DEF RowKeyInv
<1>2. ASSUME NEW w \in Writers, DeleteResults(w) \/ InsertResult(w),
             NEW c \in Calls
      PROVE  DistinctRows(results'[c])
  <2>1. CASE c # write[w].job
    <3>1. results'[c] = results[c]
      BY <1>2, <2>1 DEF DeleteResults, InsertResult, TypeOK
    <3> QED BY <3>1 DEF RowKeyInv
  <2>2. CASE c = write[w].job /\ DeleteResults(w)
    <3>1. results'[c] = {}
      BY <2>2 DEF DeleteResults, TypeOK
    <3> QED BY <3>1 DEF DistinctRows
  <2>3. CASE c = write[w].job /\ InsertResult(w)
    <3>1. PICK row : row = Head(write[w].rows)
      OBVIOUS
    <3>2. results'[c] = {o \in results[c] : o.target # row.target} \cup {row}
      BY <2>3, <3>1 DEF InsertResult, TypeOK
    <3> QED BY <3>2 DEF RowKeyInv, DistinctRows
  <2> QED BY <1>2, <2>1, <2>2, <2>3
<1> QED BY <1>1, <1>2, ResultsChange DEF RowKeyInv

(* As many distinct rows as a list has places, out of that list, are all   *)
(* of it.                                                                  *)
LEMMA RowsFillList ==
  ASSUME NEW S \in Seq(Outcome), NEW k \in 0..Len(S), NEW R,
         R \subseteq {S[i] : i \in 1..k}, Cardinality(R) = Len(S)
  PROVE  IsFiniteSet(R) /\ OneEach(S, R)
<1> DEFINE I == {S[i] : i \in 1..k}
           f == [i \in 1..k |-> S[i]]
<1>1. IsFiniteSet(1..k) /\ Cardinality(1..k) = k /\ Len(S) \in Nat /\ k <= Len(S)
  <2>1. Len(S) \in Nat /\ k \in Nat /\ k <= Len(S)
    OBVIOUS
  <2>2. IsFiniteSet(1..k) /\ Cardinality(1..k) = k
    BY <2>1, FS_Interval
  <2> QED BY <2>1, <2>2
<1>2. f \in Surjection(1..k, I)
  <2>1. f \in [1..k -> I] /\ \A o \in I : \E i \in 1..k : f[i] = o
    OBVIOUS
  <2> QED BY <2>1, Fun_IsSurj
<1>3. IsFiniteSet(I) /\ Cardinality(I) <= k
  <2> HIDE DEF f, I
  <2> QED BY <1>1, <1>2, FS_Surjection
<1>4. /\ IsFiniteSet(R) /\ Cardinality(R) <= Cardinality(I)
      /\ Cardinality(R) = Cardinality(I) => R = I
  <2>1. R \subseteq I
    OBVIOUS
  <2> HIDE DEF I
  <2> QED BY <1>3, <2>1, FS_Subset
<1>5. Cardinality(I) \in Nat
  <2> HIDE DEF I
  <2> QED BY <1>3, FS_CardinalityType
<1>6. k = Len(S) /\ Cardinality(I) = k /\ R = I
  BY <1>1, <1>3, <1>4, <1>5
<1>7. f \in Injection(1..k, I)
  <2> HIDE DEF f, I
  <2> QED BY <1>1, <1>2, <1>6, FS_SurjSameCardinalityImpliesInj
<1>8. \A i, j \in 1..k : S[i] = S[j] => i = j
  <2>1. \A i, j \in 1..k : f[i] = f[j] => i = j
    <3> HIDE DEF f, I
    <3> QED BY <1>7, Fun_InjectionProperties
  <2> QED BY <2>1
<1>9. DOMAIN S = 1..k /\ DOMAIN S \subseteq Nat
  <2>1. DOMAIN S = 1..Len(S)
    OBVIOUS
  <2>2. 1..k \subseteq Nat
    BY <1>1
  <2> QED BY <1>6, <2>1, <2>2
<1> QED BY <1>1, <1>4, <1>6, <1>8, <1>9 DEF OneEach

(* A satisfied job that passes validation is shown as it is.               *)
LEMMA ValidIsTrue ==
  ASSUME TypeOK, RowsInv, RowKeyInv, NEW c \in Calls,
         TRUE \in validate(jobs[c], PolicyFor(c), results[c])
  PROVE  Truthful(c, jobs[c], results[c])
<1> SUFFICES ASSUME jobs[c].status = "DeliverySatisfied"
             PROVE  /\ \A o \in results[c] : o.kind = "Accepted" =>
                         replies[c][RelayOf[o.target]] = "Accepted"
                    /\ jobs[c].status = delivery_status(PolicyFor(c),
                                          jobs[c].count, Listing(results[c]))
  BY DEF Truthful
<1>1. Settled(c)
  BY DEF Settled, FinalStatus
<1>2. PICK S \in Seq(Outcome), k \in Nat : SettledWith(c, S, k)
  BY <1>1 DEF RowsInv
<1>3. /\ Justified(c, jobs[c].status, S) /\ Len(S) = jobs[c].count
      /\ k \in 0..Len(S) /\ results[c] \subseteq {S[i] : i \in 1..k}
  BY <1>2 DEF SettledWith
<1>4. \A o \in results[c] : o.kind = "Accepted" =>
        replies[c][RelayOf[o.target]] = "Accepted"
  <2>1. \A i \in 1..k : i \in DOMAIN S
    BY <1>3
  <2> QED BY <1>3, <2>1 DEF Justified
<1>5. jobs[c].count = Cardinality(results[c])
  BY DEF validate
<1>6. IsFiniteSet(results[c]) /\ OneEach(S, results[c])
  BY <1>3, <1>5, RowsFillList
<1>7. OneEach(Listing(results[c]), results[c])
  BY <1>6, ListingLists
<1>8. delivery_status(PolicyFor(c), Len(S), S) =
        delivery_status(PolicyFor(c), Len(S), Listing(results[c]))
  BY <1>6, <1>7, SameStatus DEF RowKeyInv
<1>9. jobs[c].status = delivery_status(PolicyFor(c), Len(S), S)
  BY <1>3 DEF Justified
<1> QED BY <1>3, <1>4, <1>8, <1>9

-----------------------------------------------------------------------------
(* THE DAEMON AT WORK                                                      *)

(* The rows of a job stay with it.                                         *)
LEMMA SettledFrame ==
  ASSUME NEW c \in Calls, NEW S, NEW k, SettledWith(c, S, k),
         jobs'[c] = jobs[c], snapshots'[c] = snapshots[c],
         results'[c] = results[c], replies'[c] = replies[c],
         PolicyFor(c)' = PolicyFor(c),
         \A w \in Writers : write'[w] = write[w] \/ write'[w].stage = "idle",
         ~Busy(c)' /\ Sound(c)' => ~Busy(c) /\ Sound(c)
  PROVE  SettledWith(c, S, k)'
<1>1. Justified(c, jobs[c].status, S)'
  <2>1. PICK status : status = jobs[c].status
    OBVIOUS
  <2>2. Justified(c, status, S) /\ jobs'[c].status = status
    BY <2>1 DEF SettledWith
  <2>3. Justified(c, status, S)'
    BY <2>2, JustifiedStays
  <2> QED BY <2>2, <2>3 DEF Justified
<1>2. \A w \in Writers : write'[w].job = c =>
        /\ write'[w].stage = "delete" => k = 0 /\ write'[w].rows = S
        /\ write'[w].stage = "insert" => Remaining(S, k, write'[w].rows)
  BY DEF SettledWith
<1>3. ~Busy(c)' /\ Sound(c)' => k = Len(S)
  BY DEF SettledWith
<1> QED BY <1>1, <1>2, <1>3 DEF SettledWith, Remaining, DistinctTargets

(* A call that has begun does not begin again.                             *)
LEMMA BegunStays ==
  ASSUME TypeOK, Next, NEW c \in Calls, pc[c] # "idle"
  PROVE  pc'[c] # "idle" /\ PolicyFor(c)' = PolicyFor(c)
<1>1. ASSUME NEW d \in Calls, CallAction(d) PROVE pc'[c] # "idle"
  <2>1. pc' = pc \/ \E x : x # "idle" /\ pc' = [pc EXCEPT ![d] = x]
    BY <1>1
    DEF CallAction, CallStep, Resolve, LookupKey, LookupReadOutcomes,
        InsertJob, ReadRow, RecordReadOutcomes, PublishDone, PublishAborted,
        UpdateJob, DeleteResults, InsertResult, FinalReadOutcomes, Admit,
        Refuse, RelayReplies, Disconnect, StatementFails, CompleteWith,
        Complete, Execute, ContinueWith, End
  <2> QED BY <2>1 DEF TypeOK
<1>2. ASSUME NEW p \in Procs, RecoveryStep(p) PROVE pc'[c] # "idle"
  <2>1. p \notin Calls
    BY PublishAssumption DEF Procs
  <2> QED BY <1>2, <2>1
          DEF RecoveryStep, SelectInterrupted, RecoverJob, UpdateJob,
              DeleteResults, InsertResult, FinishOpen, ContinueWith
<1>3. ASSUME NEW p \in Procs, OpenStore(p) PROVE pc'[c] # "idle"
  BY <1>3 DEF OpenStore
<1>4. ASSUME CrashDaemon \/ CrashCli PROVE pc'[c] # "idle"
  BY <1>4 DEF CrashDaemon, DaemonGone, CrashCli
<1>5. pc'[c] # "idle"
  BY <1>1, <1>2, <1>3, <1>4, Zenon DEF Next, Environment, CallAction
<1>6. ASSUME NEW d \in Calls, NEW r \in Request, Admit(d, r)
      PROVE  req'[c] = req[c]
  BY <1>6 DEF Admit, TypeOK
<1>7. PolicyFor(c)' = PolicyFor(c)
  BY <1>6, RequestChange DEF PolicyFor
<1> QED BY <1>5, <1>7

(* The work of a daemon that is alone.                                     *)
LEMMA WorksDaemon ==
  ASSUME IInv, DaemonInv, Works
  PROVE  DaemonInv'
<1>1. Next
  BY WorksIsNext
<1>2. cliRuns' = cliRuns
  BY DEF Works, JobStep, CallStep, RecoveryStep, histVars,
         Resolve, LookupKey, LookupReadOutcomes, InsertJob, ReadRow,
         RecordReadOutcomes, PublishDone, PublishAborted, UpdateJob,
         DeleteResults, InsertResult, FinalReadOutcomes, SelectInterrupted,
         RecoverJob, FinishOpen, Refuse, RelayReplies, Admit, OpenStore,
         Disconnect, StatementFails, Fault
<1>3. cliRuns' = 0
  BY <1>2 DEF DaemonInv, SoleInv
<1>4. RunInv' /\ RefusalInv' /\ BornInv' /\ PlanInv'
  BY <1>1, RunStep, RefusalStep, BornStep, PlanStep DEF IInv, DaemonInv
<1>5. SoleInv' /\ OpenInv' /\ FreshInv' /\ RowsInv' /\ RowKeyInv'
  BY <1>1, <1>3, SoleStep, OpenStep, FreshStep, RowsStep, RowKeyStep
  DEF IInv, DaemonInv
<1> QED BY <1>4, <1>5 DEF DaemonInv

(* Nobody rewrites the row of a settled job.                               *)
LEMMA RowIsFinal ==
  ASSUME IInv, DaemonInv, Works, NEW c \in Calls, Settled(c)
  PROVE  jobs'[c] = jobs[c]
<1>1. Recorded(c) /\ ~Publishing(c)
  BY DEF Settled, Recorded, Publishing, FinalStatus
<1>2. ASSUME NEW w \in Writers, UpdateJob(w), write[w].job = c PROVE FALSE
  BY <1>1, <1>2 DEF UpdateJob, DaemonInv, OpenInv
<1> QED BY <1>1, <1>2, WorksIsNext, SettledRowStays DEF IInv

(* What a rollback would leave is not touched any more.                    *)
LEMMA WorksRollback ==
  ASSUME IInv, DaemonInv, RollbackInv, Works
  PROVE  RollbackInv'
<1> SUFFICES ASSUME broken, NEW c \in Calls,
                    committed.jobs[c].status \in FinalStatus
             PROVE  jobs'[c] = jobs[c] /\ results'[c] = results[c] /\ ~Busy(c)'
  BY DEF Works, queryVars, RollbackInv, NothingAccepted
<1>1. /\ jobs[c] = committed.jobs[c] /\ ~Busy(c)
      /\ Settled(c) /\ ~Publishing(c)
  BY DEF RollbackInv, Settled, Publishing, FinalStatus
<1>2. Next
  BY WorksIsNext
<1>3. ASSUME NEW w \in Writers, DeleteResults(w) \/ InsertResult(w)
      PROVE  results'[c] = results[c]
  <2>1. write[w].job # c
    BY <1>1, <1>3 DEF Busy, DeleteResults, InsertResult
  <2> QED BY <1>3, <2>1 DEF DeleteResults, InsertResult, IInv, TypeOK
<1>4. results'[c] = results[c]
  BY <1>2, <1>3, ResultsChange
<1>5. ASSUME NEW w \in Writers, write'[w].stage # "idle", write'[w].job = c
      PROVE  FALSE
  <2>1. write'[w].stage \in {"update", "delete", "insert"}
    <3>1. TypeOK'
      BY <1>2, StepIInv DEF IInv
    <3> QED BY <1>5, <3>1 DEF TypeOK, Writing
  <2>2. write'[w] # write[w]
    BY <1>1, <1>5 DEF Busy
  <2>3. CASE write'[w].stage = "update"
    <3>1. ~Publishing(c) /\ "daemon" \in Procs
      BY <1>1 DEF Procs
    <3>2. \/ w \in Calls /\ pc[w] \in Attempting /\ c = w
          \/ w \in Procs /\ c \in store[w].todo
      BY <1>2, <1>5, <2>2, <2>3, WriteNews DEF IInv
    <3> QED BY <3>1, <3>2 DEF DaemonInv, OpenInv, SoleInv, Procs
  <2>4. CASE write'[w].stage \in {"delete", "insert"}
    <3>1. /\ UpdateJob(w) \/ DeleteResults(w) \/ InsertResult(w)
          /\ write[w].job = c
      BY <1>2, <1>5, <2>2, <2>4, WriterComes DEF IInv
    <3>2. write[w].stage # "idle"
      BY <3>1 DEF UpdateJob, DeleteResults, InsertResult
    <3> QED BY <1>1, <3>1, <3>2 DEF Busy
  <2> QED BY <2>1, <2>3, <2>4
<1> QED BY <1>1, <1>4, <1>5, RowIsFinal DEF Busy

(* What has been shown stays true.                                         *)
LEMMA TruthStays ==
  ASSUME NEW c \in Calls, NEW row, NEW outs \in SUBSET Outcome,
         Truthful(c, row, outs), PolicyFor(c)' = PolicyFor(c),
         \A r \in Relays : replies[c][r] = "Accepted" =>
                             replies'[c][r] = "Accepted"
  PROVE  Truthful(c, row, outs)'
<1>1. \A o \in outs : RelayOf[o.target] \in Relays
  BY TargetAssumption DEF Outcome
<1> QED BY <1>1 DEF Truthful

(* Queries may go on while the daemon works.                               *)
LEMMA WorksViews ==
  ASSUME IInv, DaemonInv, QueryType, ViewInv, Works
  PROVE  ViewInv'
<1>1. query' = query /\ Next
  BY WorksIsNext DEF Works, queryVars
<1>2. \A c \in Calls : pc[c] # "idle" =>
        pc'[c] # "idle" /\ PolicyFor(c)' = PolicyFor(c)
  BY <1>1, BegunStays DEF IInv
<1>3. ASSUME NEW q \in Queries, query[q].at = "reading",
             NEW c \in DOMAIN query[q].todo
      PROVE  /\ pc'[c] # "idle"
             /\ query[q].todo[c].status \in FinalStatus =>
                  jobs'[c] = query[q].todo[c]
  <2>1. c \in Calls /\ pc[c] # "idle"
    BY <1>3 DEF QueryType, ViewInv
  <2>2. query[q].todo[c].status \in FinalStatus =>
          jobs[c] = query[q].todo[c] /\ Settled(c)
    BY <1>3, <2>1 DEF ViewInv, Settled
  <2> QED BY <1>2, <2>1, <2>2, RowIsFinal
<1>4. ASSUME NEW q \in Queries, NEW v \in query[q].views
      PROVE  /\ v.job \in Calls /\ v.outcomes \subseteq Outcome
             /\ pc'[v.job] # "idle" /\ Truthful(v.job, v.row, v.outcomes)'
  <2>1. /\ v.job \in Calls /\ v.outcomes \subseteq Outcome
        /\ pc[v.job] # "idle" /\ Truthful(v.job, v.row, v.outcomes)
    BY DEF ViewInv
  <2>2. \A r \in Relays : replies[v.job][r] = "Accepted" =>
                            replies'[v.job][r] = "Accepted"
    BY <1>1, <2>1, RepliesStay DEF None, IInv
  <2>3. v.outcomes \in SUBSET Outcome
    BY <2>1
  <2> QED BY <1>2, <2>1, <2>2, <2>3, TruthStays
<1> QED BY <1>1, <1>3, <1>4 DEF ViewInv

-----------------------------------------------------------------------------
(* A CONNECTION THAT HAS LOST ITS PLACE                                    *)

(* Calls that end, and nothing else.                                       *)
LEMMA DaemonFrame ==
  ASSUME IInv, DaemonInv,
         UNCHANGED <<jobs, snapshots, results, req, replies, write, store,
                     epoch, born, cliRuns>>,
         \A c \in Calls : /\ pc'[c] \in Active => pc[c] \in Active
                          /\ pc'[c] \in Attempting => pc[c] \in Attempting
                          /\ pc[c] \in {"lost", "failed"} =>
                               pc'[c] \in {"lost", "failed"}
                          /\ \/ res'[c] = res[c]
                             \/ NothingAccepted(res'[c].outcomes)
  PROVE  DaemonInv'
<1>1. RunInv' /\ BornInv' /\ SoleInv'
  BY DEF DaemonInv, RunInv, BornInv, SoleInv, Recorded
<1>2. RefusalInv'
  BY DEF DaemonInv, RefusalInv, NothingAccepted
<1>3. OpenInv' /\ FreshInv' /\ RowKeyInv'
  BY DEF DaemonInv, OpenInv, FreshInv, RowKeyInv, Publishing, Settled
<1>4. PlanInv'
  <2>1. \A c \in Calls : \A status, S :
          Justified(c, status, S) => Justified(c, status, S)'
    BY JustifiedStays DEF PolicyFor
  <2> SUFFICES ASSUME NEW w \in Writers, NEW c, c = write[w].job,
                      NEW status, status = write[w].status,
                      NEW S, S = write[w].rows, write[w].stage = "update"
               PROVE  Justified(c, status, S)'
    BY DEF PlanInv
  <2>2. c \in Calls /\ Justified(write[w].job, write[w].status, write[w].rows)
    BY DEF PlanInv, DaemonInv, WriteInv, IInv
  <2> QED BY <2>1, <2>2
<1>5. RowsInv'
  <2> SUFFICES ASSUME NEW c \in Calls, Settled(c)
               PROVE  \E S \in Seq(Outcome) : \E k \in Nat :
                        SettledWith(c, S, k)'
    BY DEF RowsInv, Settled
  <2>1. PICK S \in Seq(Outcome), k \in Nat : SettledWith(c, S, k)
    BY DEF DaemonInv, RowsInv
  <2>2. ~Busy(c)' /\ Sound(c)' => ~Busy(c) /\ Sound(c)
    BY DEF Busy, Sound
  <2>3. SettledWith(c, S, k)'
    BY <2>1, <2>2, SettledFrame DEF PolicyFor
  <2> QED BY <2>3
<1> QED BY <1>1, <1>2, <1>3, <1>4, <1>5 DEF DaemonInv

(* Queries see nothing of such a step.                                     *)
LEMMA ViewFrame ==
  ASSUME ViewInv, QueryType,
         UNCHANGED <<req, replies, query>>,
         \A c \in Calls : /\ pc[c] # "idle" => pc'[c] # "idle"
                          /\ Settled(c) => jobs'[c] = jobs[c]
  PROVE  ViewInv'
<1>1. ASSUME NEW q \in Queries, query[q].at = "reading",
             NEW c \in DOMAIN query[q].todo
      PROVE  /\ pc'[c] # "idle"
             /\ query[q].todo[c].status \in FinalStatus =>
                  jobs'[c] = query[q].todo[c]
  BY <1>1 DEF ViewInv, QueryType, Settled
<1>2. ASSUME NEW q \in Queries, NEW v \in query[q].views
      PROVE  /\ v.job \in Calls /\ v.outcomes \subseteq Outcome
             /\ pc'[v.job] # "idle" /\ Truthful(v.job, v.row, v.outcomes)'
  <2>1. /\ v.job \in Calls /\ v.outcomes \in SUBSET Outcome
        /\ pc[v.job] # "idle" /\ Truthful(v.job, v.row, v.outcomes)
    BY DEF ViewInv
  <2>2. Truthful(v.job, v.row, v.outcomes)'
    BY <2>1, TruthStays DEF PolicyFor
  <2> QED BY <2>1, <2>2
<1> QED BY <1>1, <1>2 DEF ViewInv

(* A BEGIN that fails ends its call.                                       *)
LEMMA BeginFailsAnswers ==
  ASSUME AnswerInv, NEW c \in Calls, BeginFails(c)
  PROVE  DaemonInv' /\ RollbackInv' /\ ViewInv'
<1> USE DEF dbVars, histVars, queryVars
<1>1. /\ UNCHANGED <<jobs, snapshots, results, req, replies, seen, write,
                     store, epoch, born, faults, cliRuns, query, broken,
                     committed>>
      /\ End(c, "failed") /\ pc[c] = "insert"
  BY DEF BeginFails
<1>2. /\ \A d \in Calls : pc'[d] = IF d = c THEN "failed" ELSE pc[d]
      /\ \A d \in Calls : res'[d] = IF d = c THEN NoRes ELSE res[d]
  BY <1>1 DEF End, TypeOK, QInv, IInv, AnswerInv
<1>3. "failed" \notin Active /\ "failed" \notin Attempting
      /\ NothingAccepted(NoRes.outcomes)
  BY DEF Active, DbSteps, Awaiting, Attempting, NothingAccepted, NoRes
<1>4. DaemonInv'
  BY <1>1, <1>2, <1>3, DaemonFrame DEF AnswerInv, QInv
<1>5. RollbackInv'
  BY <1>1 DEF AnswerInv, RollbackInv, Busy, NothingAccepted
<1>6. ViewInv'
  BY <1>1, <1>2, ViewFrame DEF AnswerInv
<1> QED BY <1>4, <1>5, <1>6

(* While the store is open and the Mutex is free nobody is at work on a    *)
(* settled job.                                                            *)
LEMMA NobodyAtWork ==
  ASSUME IInv, DaemonInv, store["daemon"].state = "open", ~Locked,
         NEW c \in Calls, Settled(c)
  PROVE  ~Busy(c)
<1> SUFFICES ASSUME NEW w \in Writers, write[w].stage # "idle",
                    write[w].job = c
             PROVE  FALSE
  BY DEF Busy
<1>1. w \in Calls
  BY DEF DaemonInv, SoleInv, Writers, Procs
<1>2. write[w].stage = "update"
  BY <1>1 DEF Locked, IInv, TypeOK, Writing
<1>3. Publishing(c)
  BY <1>2 DEF DaemonInv, OpenInv
<1> QED BY <1>3 DEF Publishing, Settled, FinalStatus

(* A COMMIT that fails.                                                    *)
LEMMA CommitFailsAnswers ==
  ASSUME AnswerInv, NEW c \in Calls, CommitFails(c)
  PROVE  DaemonInv' /\ RollbackInv' /\ ViewInv'
<1> USE DEF dbVars, histVars
<1>1. /\ UNCHANGED <<results, req, replies, seen, write, store, epoch, born,
                     cliRuns, query>>
      /\ jobs' = [jobs EXCEPT ![c] = [status |-> "Publishing",
                                      count |-> target_count(res[c]),
                                      lastError |-> None]]
      /\ snapshots' = [snapshots EXCEPT ![c] =
                         target_snapshots_from_resolution(res[c])]
      /\ broken' = TRUE /\ committed' = Database
      /\ End(c, "failed") /\ pc[c] = "insert" /\ ~Locked
  BY DEF CommitFails, Fault
<1>2. IInv /\ DaemonInv /\ QueryType /\ ViewInv
  BY DEF AnswerInv, QInv
<1>3. /\ \A d \in Calls : pc'[d] = IF d = c THEN "failed" ELSE pc[d]
      /\ \A d \in Calls : res'[d] = IF d = c THEN NoRes ELSE res[d]
      /\ \A d \in Calls \ {c} : /\ jobs'[d] = jobs[d]
                                /\ snapshots'[d] = snapshots[d]
      /\ jobs'[c].status = "Publishing"
      /\ snapshots'[c] = target_snapshots_from_resolution(res[c])
  BY <1>1, <1>2 DEF End, TypeOK, IInv
<1>4. ~Recorded(c) /\ store["daemon"].state = "open" /\ ~Settled(c)
  <2>1. "insert" \in Active /\ "insert" \in BeforeInsert
    BY DEF Active, DbSteps, BeforeInsert
  <2>2. ~Recorded(c) /\ store["daemon"].state = "open"
    BY <1>1, <1>2, <2>1 DEF IInv, PhaseInv, DaemonInv, RunInv
  <2> QED BY <2>2 DEF Recorded, Settled, FinalStatus
<1>5. "failed" \notin Active /\ "failed" \notin Attempting
      /\ NothingAccepted(NoRes.outcomes)
  BY DEF Active, DbSteps, Awaiting, Attempting, NothingAccepted, NoRes
<1>6. /\ Publishing(c)'
      /\ ~Settled(c)'
      /\ \A d \in Calls \ {c} : /\ Settled(d)' <=> Settled(d)
                                /\ Publishing(d)' <=> Publishing(d)
                                /\ Recorded(d)' <=> Recorded(d)
  BY <1>3 DEF Publishing, Settled, Recorded, FinalStatus
<1>7. RunInv' /\ SoleInv'
  BY <1>1, <1>2, <1>3, <1>5 DEF DaemonInv, RunInv, SoleInv
<1>8. BornInv'
  BY <1>1, <1>2, <1>4, <1>6 DEF DaemonInv, BornInv
<1>9. RefusalInv'
  <2>1. res[c] \in Resolution /\ NothingAccepted(res[c].outcomes)
    BY <1>2 DEF IInv, TypeOK, DaemonInv, RefusalInv
  <2>2. NothingAccepted(target_snapshots_from_resolution(res[c]))
    BY <2>1, SnapshotAcceptsNothing
  <2> QED
    BY <1>2, <1>3, <1>5, <2>2 DEF DaemonInv, RefusalInv, NothingAccepted
<1>10. OpenInv'
  <2>1. \A d \in Calls : Publishing(d) => Publishing(d)'
    BY <1>6
  <2>2. store["daemon"].todo = {}
    BY <1>2, <1>4 DEF DaemonInv, SoleInv
  <2>3. \A d \in Calls : pc'[d] \in Attempting => Publishing(d)'
    BY <1>2, <1>3, <1>5, <1>6 DEF DaemonInv, OpenInv
  <2>4. ASSUME NEW w \in Writers, write[w].stage = "update"
        PROVE  jobs'[write[w].job].status = "Publishing"
    <3>1. write[w].job \in Calls /\ Publishing(write[w].job)
      BY <1>2, <2>4 DEF DaemonInv, OpenInv, IInv, WriteInv
    <3> QED BY <1>3, <3>1 DEF Publishing
  <2> QED BY <1>1, <2>2, <2>3, <2>4 DEF OpenInv, Publishing
<1>11. FreshInv'
  <2>1. ASSUME NEW w \in Writers, write[w].stage \in {"delete", "insert"}
        PROVE  jobs'[write[w].job].status \in FinalStatus
    <3>1. write[w].job \in Calls /\ Settled(write[w].job)
      BY <1>2, <2>1 DEF DaemonInv, FreshInv, IInv, WriteInv
    <3>2. write[w].job # c
      BY <1>4, <3>1
    <3> QED BY <1>3, <3>1, <3>2 DEF Settled
  <2>2. \A d \in Calls : ~Settled(d)' => ~Settled(d)
    BY <1>4, <1>6
  <2> QED BY <1>1, <1>2, <2>1, <2>2 DEF DaemonInv, FreshInv, Settled
<1>12. PlanInv'
  <2> SUFFICES ASSUME NEW w \in Writers, NEW d, d = write[w].job,
                      NEW status, status = write[w].status,
                      NEW S, S = write[w].rows, write[w].stage = "update"
               PROVE  Justified(d, status, S)'
    BY <1>1 DEF PlanInv
  <2>1. /\ d \in Calls /\ Recorded(d)
        /\ Justified(write[w].job, write[w].status, write[w].rows)
    BY <1>2 DEF PlanInv, DaemonInv, WriteInv, IInv
  <2>2. d # c
    BY <1>4, <2>1
  <2> QED BY <1>1, <1>3, <2>1, <2>2, JustifiedStays DEF PolicyFor
<1>13. RowsInv'
  <2> SUFFICES ASSUME NEW d \in Calls, Settled(d)'
               PROVE  \E S \in Seq(Outcome) : \E k \in Nat :
                        SettledWith(d, S, k)'
    BY DEF RowsInv
  <2>1. d # c /\ Settled(d)
    BY <1>6
  <2>2. PICK S \in Seq(Outcome), k \in Nat : SettledWith(d, S, k)
    BY <1>2, <2>1 DEF DaemonInv, RowsInv
  <2>3. ~Busy(d)' /\ Sound(d)' => ~Busy(d) /\ Sound(d)
    BY <1>1, <1>3, <2>1 DEF Busy, Sound
  <2>4. SettledWith(d, S, k)'
    BY <1>1, <1>3, <2>1, <2>2, <2>3, SettledFrame DEF PolicyFor
  <2> QED BY <2>4
<1>14. RowKeyInv'
  BY <1>1, <1>2 DEF DaemonInv, RowKeyInv
<1>15. DaemonInv'
  BY <1>7, <1>8, <1>9, <1>10, <1>11, <1>12, <1>13, <1>14 DEF DaemonInv
<1>16. RollbackInv'
  <2>1. /\ committed'.jobs = jobs /\ committed'.snapshots = snapshots
        /\ committed'.results = results
    BY <1>1 DEF Database
  <2>2. ASSUME NEW d \in Calls
        PROVE  /\ NothingAccepted(snapshots[d])
               /\ jobs[d].status \in FinalStatus =>
                    jobs'[d] = jobs[d] /\ results'[d] = results[d] /\ ~Busy(d)'
               /\ jobs[d].status \notin FinalStatus => results[d] = {}
    <3>1. NothingAccepted(snapshots[d])
      BY <1>2 DEF DaemonInv, RefusalInv
    <3>2. Settled(d) => ~Busy(d)
      BY <1>1, <1>2, <1>4, NobodyAtWork
    <3>3. Settled(d) => jobs'[d] = jobs[d] /\ results'[d] = results[d]
      BY <1>1, <1>3, <1>4
    <3>4. ~Settled(d) => results[d] = {}
      BY <1>2 DEF DaemonInv, FreshInv
    <3>5. Busy(d)' <=> Busy(d)
      BY <1>1 DEF Busy
    <3> QED BY <3>1, <3>2, <3>3, <3>4, <3>5 DEF Settled
  <2> QED BY <2>1, <2>2 DEF RollbackInv, NothingAccepted
<1>17. ViewInv'
  <2>1. \A d \in Calls : /\ pc[d] # "idle" => pc'[d] # "idle"
                         /\ Settled(d) => jobs'[d] = jobs[d]
    BY <1>3, <1>4
  <2> QED BY <1>1, <1>2, <2>1, ViewFrame
<1> QED BY <1>15, <1>16, <1>17

(* The end of the daemon, with a rollback or without.                      *)
LEMMA CrashAnswers ==
  ASSUME AnswerInv, Crash
  PROVE  DaemonInv' /\ RollbackInv' /\ ViewInv'
<1>1. /\ UNCHANGED <<req, replies, epoch, born, cliRuns>>
      /\ store' = [store EXCEPT !["daemon"] = [state |-> "closed", todo |-> {}]]
      /\ pc' = [c \in Calls |-> IF pc[c] \in Active THEN "lost" ELSE pc[c]]
      /\ res' = [c \in Calls |-> NoRes]
      /\ write' = [w \in Writers |-> IF w = "cli" THEN write[w] ELSE NoWrite]
      /\ jobs' = Durable.jobs /\ snapshots' = Durable.snapshots
      /\ results' = Durable.results
      /\ broken' = FALSE
      /\ query' = [q \in Queries |->
                     IF query[q].at = "reading"
                     THEN [NoQuery EXCEPT !.at = "lost"] ELSE query[q]]
  BY DEF Crash, DaemonGone, Fault
<1>2. IInv /\ DaemonInv /\ QueryType /\ ViewInv /\ RollbackInv /\ QInv
  BY DEF AnswerInv, QInv
<1>3. /\ "lost" \notin Active /\ "lost" # "idle" /\ "idle" \notin Active
      /\ "lost" \notin Attempting /\ Attempting \subseteq Active
      /\ "completing" \in Active
      /\ "lost" \notin FinalStatus
  BY DEF Active, DbSteps, Awaiting, Attempting, FinalStatus
<1>4. \A c \in Calls : /\ pc'[c] \notin Active /\ pc'[c] \notin Attempting
                       /\ pc[c] # "idle" => pc'[c] # "idle"
                       /\ pc'[c] \notin {"lost", "failed"} =>
                            pc[c] \notin Active \cup {"lost", "failed"}
  BY <1>1, <1>3
<1>5. \A w \in Writers : write'[w].stage = "idle"
  BY <1>1, <1>2 DEF DaemonInv, SoleInv, NoWrite
<1>6. /\ store'["daemon"].state = "closed" /\ store'["daemon"].todo = {}
      /\ store'["cli"] = store["cli"]
  BY <1>1, <1>2 DEF IInv, TypeOK, Procs
<1>7. \A c \in Calls :
        /\ Recorded(c)' => Recorded(c) /\ snapshots'[c] = snapshots[c]
        /\ NothingAccepted(snapshots'[c])
        /\ Settled(c)' => /\ Settled(c) /\ jobs'[c] = jobs[c]
                          /\ results'[c] = results[c]
        /\ ~Settled(c)' => results'[c] = {}
  <2>1. CASE broken
    <3>1. /\ jobs' = committed.jobs /\ snapshots' = committed.snapshots
          /\ results' = committed.results
      BY <1>1, <2>1 DEF Durable
    <3> QED BY <1>2, <2>1, <3>1
            DEF RollbackInv, CommitInv, QInv, Recorded, Settled
  <2>2. CASE ~broken
    <3>1. jobs' = jobs /\ snapshots' = snapshots /\ results' = results
      BY <1>1, <2>2 DEF Durable, Database
    <3> QED BY <1>2, <3>1
            DEF Recorded, Settled, DaemonInv, RefusalInv, FreshInv
  <2> QED BY <2>1, <2>2
<1>8. RunInv' /\ SoleInv'
  <2>1. "cli" \in Procs /\ "cli" \in Writers /\ "daemon" \in Writers
    BY DEF Procs, Writers
  <2> QED
    BY <1>1, <1>2, <1>4, <1>5, <1>6, <2>1 DEF RunInv, SoleInv, DaemonInv
<1>9. BornInv'
  BY <1>1, <1>2, <1>6 DEF DaemonInv, BornInv
<1>10. RefusalInv'
  BY <1>1, <1>7 DEF RefusalInv, NoRes, NothingAccepted
<1>11. OpenInv' /\ FreshInv' /\ PlanInv'
  BY <1>4, <1>5, <1>6, <1>7 DEF OpenInv, FreshInv, PlanInv
<1>12. RowsInv'
  <2> SUFFICES ASSUME NEW c \in Calls, Settled(c)'
               PROVE  \E S \in Seq(Outcome) : \E k \in Nat :
                        SettledWith(c, S, k)'
    BY DEF RowsInv
  <2>1. /\ Settled(c) /\ jobs'[c] = jobs[c] /\ results'[c] = results[c]
        /\ Recorded(c) /\ snapshots'[c] = snapshots[c]
    <3>1. Recorded(c)'
      BY DEF Settled, Recorded, FinalStatus
    <3> QED BY <1>7, <3>1
  <2>2. PICK S \in Seq(Outcome), k \in Nat : SettledWith(c, S, k)
    BY <1>2, <2>1 DEF DaemonInv, RowsInv
  <2>3. ASSUME Sound(c)' PROVE ~Busy(c) /\ Sound(c)
    <3>1. /\ born[c] = epoch /\ pc[c] \notin Active \cup {"lost", "failed"}
          /\ born[c] \in Nat /\ epoch \in Nat
      BY <1>1, <1>2, <1>4, <2>3 DEF Sound, IInv, TypeOK
    <3>2. ASSUME NEW w \in Writers, write[w].stage # "idle",
                 write[w].job = c
          PROVE  FALSE
      <4>1. CASE w \in Calls
        BY <1>2, <1>3, <3>1, <3>2, <4>1 DEF IInv, WriteInv
      <4>2. CASE w = "daemon"
        <5>1. store["daemon"].state = "recovering"
          BY <1>2, <3>2, <4>2 DEF DaemonInv, SoleInv
        <5>2. born[c] < epoch
          BY <1>2, <2>1, <5>1 DEF DaemonInv, BornInv
        <5> QED BY <3>1, <5>2
      <4>3. CASE w = "cli"
        BY <1>2, <3>2, <4>3 DEF DaemonInv, SoleInv
      <4> QED BY <4>1, <4>2, <4>3 DEF Writers, Procs
    <3> QED BY <3>1, <3>2 DEF Busy, Sound
  <2>4. SettledWith(c, S, k)'
    BY <1>1, <1>5, <2>1, <2>2, <2>3, SettledFrame DEF PolicyFor
  <2> QED BY <2>4
<1>13. RowKeyInv'
  BY <1>2, <1>7 DEF DaemonInv, RowKeyInv, DistinctRows
<1>14. DaemonInv'
  BY <1>8, <1>9, <1>10, <1>11, <1>12, <1>13 DEF DaemonInv
<1>15. ViewInv'
  <2>1. \A q \in Queries : query'[q].at # "reading"
    <3>1. [NoQuery EXCEPT !.at = "lost"].at = "lost"
      BY DEF NoQuery
    <3> QED BY <1>1, <3>1
  <2>2. ASSUME NEW q \in Queries, NEW v \in query'[q].views
        PROVE  /\ v.job \in Calls /\ v.outcomes \subseteq Outcome
               /\ pc'[v.job] # "idle" /\ Truthful(v.job, v.row, v.outcomes)'
    <3>1. v \in query[q].views
      <4>1. NoQuery.views = {}
        BY DEF NoQuery
      <4>2. [NoQuery EXCEPT !.at = "lost"].views = {}
        BY DEF NoQuery
      <4> QED BY <1>1, <2>2, <4>2
    <3>2. /\ v.job \in Calls /\ v.outcomes \in SUBSET Outcome
          /\ pc[v.job] # "idle" /\ Truthful(v.job, v.row, v.outcomes)
      BY <1>2, <3>1 DEF ViewInv
    <3>3. Truthful(v.job, v.row, v.outcomes)'
      BY <1>1, <3>2, TruthStays DEF PolicyFor
    <3> QED BY <1>4, <3>2, <3>3
  <2> QED BY <2>1, <2>2 DEF ViewInv
<1>16. RollbackInv'
  BY <1>1 DEF RollbackInv
<1> QED BY <1>14, <1>15, <1>16

-----------------------------------------------------------------------------
(* THE QUERIES                                                             *)

(* A query leaves the jobs alone.                                          *)
LEMMA AsksDaemon ==
  ASSUME AnswerInv, Asks
  PROVE  DaemonInv' /\ RollbackInv'
<1>1. DaemonInv'
  BY DaemonFrame DEF Asks, AnswerInv, QInv
<1>2. RollbackInv'
  BY DEF Asks, AnswerInv, RollbackInv, Busy, NothingAccepted
<1> QED BY <1>1, <1>2

(* What one query does, as far as its rows and views are concerned.        *)
LEMMA ViewChange ==
  ASSUME AnswerInv, Asks, NEW q \in Queries, NEW next,
         \A p \in Queries : query'[p] = IF p = q THEN next ELSE query[p],
         next.at = "reading" => \A c \in DOMAIN next.todo :
           /\ pc[c] # "idle"
           /\ next.todo[c].status \in FinalStatus => jobs[c] = next.todo[c],
         \A v \in next.views :
           /\ v.job \in Calls /\ v.outcomes \subseteq Outcome
           /\ pc[v.job] # "idle" /\ Truthful(v.job, v.row, v.outcomes)
  PROVE  ViewInv'
<1>1. UNCHANGED <<jobs, pc, req, replies>>
  BY DEF Asks
<1>2. \A p \in Queries : query'[p] = IF p = q THEN next ELSE query[p]
  OBVIOUS
<1>3. ASSUME NEW p \in Queries, query'[p].at = "reading",
             NEW c \in DOMAIN query'[p].todo
      PROVE  /\ pc'[c] # "idle"
             /\ query'[p].todo[c].status \in FinalStatus =>
                  jobs'[c] = query'[p].todo[c]
  BY <1>1, <1>2, <1>3 DEF AnswerInv, ViewInv
<1>4. ASSUME NEW p \in Queries, NEW v \in query'[p].views
      PROVE  /\ v.job \in Calls /\ v.outcomes \subseteq Outcome
             /\ pc'[v.job] # "idle" /\ Truthful(v.job, v.row, v.outcomes)'
  <2>1. /\ v.job \in Calls /\ v.outcomes \in SUBSET Outcome
        /\ pc[v.job] # "idle" /\ Truthful(v.job, v.row, v.outcomes)
    BY <1>2, <1>4 DEF AnswerInv, ViewInv
  <2>2. Truthful(v.job, v.row, v.outcomes)'
    BY <1>1, <2>1, TruthStays DEF PolicyFor
  <2> QED BY <1>1, <2>1, <2>2
<1> QED BY <1>3, <1>4 DEF ViewInv

(* The fields of a query that starts over.                                 *)
LEMMA NoQueryFields ==
  ASSUME NEW place, NEW rows
  PROVE  /\ [NoQuery EXCEPT !.at = place] =
              [at |-> place, todo |-> <<>>, views |-> {}, touched |-> {},
               torn |-> FALSE]
         /\ [NoQuery EXCEPT !.at = place, !.todo = rows] =
              [at |-> place, todo |-> rows, views |-> {}, touched |-> {},
               torn |-> FALSE]
<1>1. PICK none, nothing, false, idle, old :
        /\ none = <<>> /\ nothing = {} /\ false = FALSE /\ idle = "idle"
        /\ old = [at |-> idle, todo |-> none, views |-> nothing,
                  touched |-> nothing, torn |-> false]
  OBVIOUS
<1>2. NoQuery = old
  BY <1>1 DEF NoQuery
<1>3. PICK mid : mid = [old EXCEPT !.at = place]
  OBVIOUS
<1>4. mid = [at |-> place, todo |-> none, views |-> nothing,
             touched |-> nothing, torn |-> false]
  BY <1>1, <1>3
<1>5. [mid EXCEPT !.todo = rows] =
        [at |-> place, todo |-> rows, views |-> nothing,
         touched |-> nothing, torn |-> false]
  BY <1>4
<1>6. [old EXCEPT !.at = place, !.todo = rows] = [mid EXCEPT !.todo = rows]
  BY <1>3
<1> QED BY <1>1, <1>2, <1>3, <1>4, <1>5, <1>6

(* Rows that have just been read are those of their jobs.                  *)
LEMMA ReadingRows ==
  ASSUME AnswerInv, Asks, NEW q \in Queries, NEW S \in SUBSET Calls,
         \A c \in S : Recorded(c), Reading(q, S)
  PROVE  QueryType' /\ ViewInv'
<1>0. PICK rows : rows = [c \in S |-> jobs[c]]
  OBVIOUS
<1> DEFINE next == [NoQuery EXCEPT !.at = "reading", !.todo = rows]
<1>1. /\ next = [at |-> next.at, todo |-> next.todo, views |-> next.views,
                 touched |-> next.touched, torn |-> next.torn]
      /\ next.at = "reading" /\ next.todo = rows /\ next.views = {}
  <2>1. next = [at |-> "reading", todo |-> rows, views |-> {},
                touched |-> {}, torn |-> FALSE]
    BY NoQueryFields
  <2> HIDE DEF next
  <2> QED BY <2>1
<1>2. /\ DOMAIN query' = Queries
      /\ \A p \in Queries : query'[p] = IF p = q THEN next ELSE query[p]
  BY <1>0 DEF Reading, AnswerInv, QueryType
<1> HIDE DEF next
<1>3. \A c \in S : pc[c] # "idle"
  BY DEF AnswerInv, QInv, IInv, PhaseInv, BeforeInsert
<1>4. ViewInv'
  BY <1>0, <1>1, <1>2, <1>3, ViewChange
<1>5. QueryType'
  BY <1>0, <1>1, <1>2 DEF AnswerInv, QueryType
<1> QED BY <1>4, <1>5

(* A query that only changes its place.                                    *)
LEMMA PlaceChange ==
  ASSUME AnswerInv, Asks, NEW q \in Queries, NEW place,
         query' = [query EXCEPT ![q].at = place],
         place # "reading"
  PROVE  QueryType' /\ ViewInv'
<1>0. PICK old : old = query[q]
  OBVIOUS
<1> DEFINE next == [old EXCEPT !.at = place]
<1>1. /\ DOMAIN query' = Queries
      /\ \A p \in Queries : query'[p] = IF p = q THEN next ELSE query[p]
  BY <1>0 DEF AnswerInv, QueryType
<1>2. /\ next = [at |-> place, todo |-> old.todo,
                 views |-> old.views, touched |-> old.touched,
                 torn |-> old.torn]
      /\ DOMAIN old.todo \subseteq Calls
  <2>1. /\ old = [at |-> old.at, todo |-> old.todo, views |-> old.views,
                  touched |-> old.touched, torn |-> old.torn]
        /\ DOMAIN old.todo \subseteq Calls
    BY <1>0 DEF AnswerInv, QueryType
  <2> QED BY <2>1
<1> HIDE DEF next
<1>3. \A v \in next.views :
        /\ v.job \in Calls /\ v.outcomes \subseteq Outcome
        /\ pc[v.job] # "idle" /\ Truthful(v.job, v.row, v.outcomes)
  BY <1>0, <1>2 DEF AnswerInv, ViewInv
<1>4. ViewInv'
  BY <1>1, <1>2, <1>3, ViewChange
<1>5. QueryType'
  BY <1>1, <1>2 DEF AnswerInv, QueryType
<1> QED BY <1>4, <1>5

(* What a query that reads the outcomes of a job becomes.                  *)
LEMMA OutcomesRead ==
  ASSUME AnswerInv, NEW q \in Queries, NEW c \in Calls, ReadOutcomes(q, c)
  PROVE  /\ DOMAIN query' = Queries
         /\ \A p \in Queries \ {q} : query'[p] = query[p]
         /\ \E ok \in validate(query[q].todo[c], PolicyFor(c), results[c]) :
              query'[q] =
                [at |-> IF ok THEN "reading" ELSE "failed",
                 todo |-> IF ok THEN [d \in DOMAIN query[q].todo \ {c} |->
                                        query[q].todo[d]]
                          ELSE <<>>,
                 views |-> IF ok
                           THEN query[q].views \cup
                                  {[job |-> c, row |-> query[q].todo[c],
                                    outcomes |-> results[c]]}
                           ELSE {},
                 touched |-> query[q].touched \cup {c},
                 torn |-> query[q].torn \/ query[q].todo[c] # jobs[c]]
<1>0. PICK old : old = query[q]
  OBVIOUS
<1> DEFINE row  == old.todo[c]
           rest == DOMAIN old.todo \ {c}
           view == [job |-> c, row |-> row, outcomes |-> results[c]]
<1>1. PICK ok \in validate(row, PolicyFor(c), results[c]) :
        query' = [query EXCEPT
                    ![q].at = IF ok THEN "reading" ELSE "failed",
                    ![q].todo = IF ok THEN [d \in rest |-> @[d]] ELSE <<>>,
                    ![q].views = IF ok THEN @ \cup {view} ELSE {},
                    ![q].touched = @ \cup {c},
                    ![q].torn = @ \/ row # jobs[c]]
  BY <1>0 DEF ReadOutcomes
<1>2. old = [at |-> old.at, todo |-> old.todo, views |-> old.views,
             touched |-> old.touched, torn |-> old.torn]
  BY <1>0 DEF AnswerInv, QueryType
<1> DEFINE next == [at |-> IF ok THEN "reading" ELSE "failed",
                    todo |-> IF ok THEN [d \in rest |-> old.todo[d]] ELSE <<>>,
                    views |-> IF ok THEN old.views \cup {view} ELSE {},
                    touched |-> old.touched \cup {c},
                    torn |-> old.torn \/ row # jobs[c]]
<1>3. DOMAIN query' = Queries /\ \A p \in Queries \ {q} : query'[p] = query[p]
  BY <1>1 DEF AnswerInv, QueryType
<1>4. query'[q].todo = next.todo /\ query'[q].views = next.views
  BY <1>0, <1>1, <1>2 DEF AnswerInv, QueryType
<1>5. /\ query'[q].at = next.at /\ query'[q].touched = next.touched
      /\ query'[q].torn = next.torn
  BY <1>0, <1>1, <1>2 DEF AnswerInv, QueryType
<1>6. query'[q] = [at |-> query'[q].at, todo |-> query'[q].todo,
                   views |-> query'[q].views,
                   touched |-> query'[q].touched, torn |-> query'[q].torn]
  BY <1>0, <1>1, <1>2 DEF AnswerInv, QueryType
<1>7. next = [at |-> next.at, todo |-> next.todo, views |-> next.views,
              touched |-> next.touched, torn |-> next.torn]
  OBVIOUS
<1>8. query'[q] = next
  <2> HIDE DEF next
  <2> QED BY <1>4, <1>5, <1>6, <1>7
<1>9. \E good \in validate(row, PolicyFor(c), results[c]) :
        query'[q] =
          [at |-> IF good THEN "reading" ELSE "failed",
           todo |-> IF good THEN [d \in rest |-> old.todo[d]] ELSE <<>>,
           views |-> IF good THEN old.views \cup {view} ELSE {},
           touched |-> old.touched \cup {c},
           torn |-> old.torn \/ row # jobs[c]]
  <2> WITNESS ok \in validate(row, PolicyFor(c), results[c])
  <2> QED BY <1>8
<1> QED BY <1>0, <1>3, <1>9, ZenonT(60)

(* The outcomes of a job, and its validation.                              *)
LEMMA ReadOutcomesAnswers ==
  ASSUME AnswerInv, Asks, NEW q \in Queries, NEW c \in Calls,
         ReadOutcomes(q, c)
  PROVE  QueryType' /\ ViewInv'
<1>0. PICK old : old = query[q]
  OBVIOUS
<1> DEFINE row  == old.todo[c]
           rest == DOMAIN old.todo \ {c}
           view == [job |-> c, row |-> row, outcomes |-> results[c]]
<1>1. PICK ok \in validate(row, PolicyFor(c), results[c]) :
        query'[q] = [at |-> IF ok THEN "reading" ELSE "failed",
                     todo |-> IF ok THEN [d \in rest |-> old.todo[d]] ELSE <<>>,
                     views |-> IF ok THEN old.views \cup {view} ELSE {},
                     touched |-> old.touched \cup {c},
                     torn |-> old.torn \/ row # jobs[c]]
  BY <1>0, OutcomesRead, ZenonT(60)
<1>2. /\ DOMAIN old.todo \subseteq Calls
      /\ old.at = "reading" /\ c \in DOMAIN old.todo
  BY <1>0 DEF AnswerInv, QueryType, ReadOutcomes
<1> DEFINE next == [at |-> IF ok THEN "reading" ELSE "failed",
                    todo |-> IF ok THEN [d \in rest |-> old.todo[d]] ELSE <<>>,
                    views |-> IF ok THEN old.views \cup {view} ELSE {},
                    touched |-> old.touched \cup {c},
                    torn |-> old.torn \/ row # jobs[c]]
<1>3. /\ DOMAIN query' = Queries
      /\ \A p \in Queries : query'[p] = IF p = q THEN next ELSE query[p]
  <2>1. query'[q] = next
    BY <1>1
  <2> HIDE DEF next
  <2> QED BY <2>1, OutcomesRead
<1>4. /\ next = [at |-> next.at, todo |-> next.todo, views |-> next.views,
                 touched |-> next.touched, torn |-> next.torn]
      /\ DOMAIN next.todo \subseteq Calls
  <2>1. DOMAIN <<>> = {}
    OBVIOUS
  <2> QED BY <1>2, <2>1
<1>5. ASSUME ok PROVE ViewInv'
  <2>1. \A d \in rest : /\ pc[d] # "idle"
                        /\ old.todo[d].status \in FinalStatus =>
                             jobs[d] = old.todo[d]
    BY <1>0, <1>2 DEF AnswerInv, ViewInv
  <2>2. /\ view.job \in Calls /\ view.outcomes \subseteq Outcome
        /\ pc[view.job] # "idle"
        /\ Truthful(view.job, view.row, view.outcomes)
    <3>1. pc[c] # "idle" /\ (row.status \in FinalStatus => jobs[c] = row)
      BY <1>0, <1>2 DEF AnswerInv, ViewInv
    <3>2. results[c] \subseteq Outcome
      BY DEF AnswerInv, QInv, IInv, TypeOK
    <3>3. CASE row.status = "DeliverySatisfied"
      <4>1. jobs[c] = row
        BY <3>1, <3>3 DEF FinalStatus
      <4>2. ok = TRUE
        BY <1>1, <1>5 DEF validate
      <4>3. TRUE \in validate(jobs[c], PolicyFor(c), results[c])
        BY <1>1, <4>1, <4>2
      <4>4. Truthful(c, row, results[c])
        BY <4>1, <4>3, ValidIsTrue DEF AnswerInv, DaemonInv, QInv, IInv
      <4> QED BY <3>1, <3>2, <4>4
    <3>4. CASE row.status # "DeliverySatisfied"
      BY <3>1, <3>2, <3>4 DEF Truthful
    <3> QED BY <3>3, <3>4
  <2>3. \A v \in old.views :
          /\ v.job \in Calls /\ v.outcomes \subseteq Outcome
          /\ pc[v.job] # "idle" /\ Truthful(v.job, v.row, v.outcomes)
    BY <1>0 DEF AnswerInv, ViewInv
  <2>4. /\ next.todo = [d \in rest |-> old.todo[d]]
        /\ next.views = old.views \cup {view}
    BY <1>5
  <2> HIDE DEF next, rest, view, row
  <2>5. \A d \in DOMAIN next.todo : d \in rest /\ next.todo[d] = old.todo[d]
    BY <2>4
  <2>6. \A d \in DOMAIN next.todo :
          /\ pc[d] # "idle"
          /\ next.todo[d].status \in FinalStatus => jobs[d] = next.todo[d]
    BY <2>1, <2>5
  <2>7. \A v \in next.views :
          /\ v.job \in Calls /\ v.outcomes \subseteq Outcome
          /\ pc[v.job] # "idle" /\ Truthful(v.job, v.row, v.outcomes)
    BY <2>2, <2>3, <2>4
  <2> QED BY <1>3, <2>6, <2>7, ViewChange
<1>6. ASSUME ~ok PROVE ViewInv'
  <2>1. next.at = "failed" /\ next.views = {}
    BY <1>6
  <2> HIDE DEF next
  <2> QED BY <1>3, <2>1, ViewChange
<1>7. QueryType'
  <2> HIDE DEF next
  <2> QED BY <1>3, <1>4 DEF AnswerInv, QueryType
<1> QED BY <1>5, <1>6, <1>7

(* Every step of a query.                                                  *)
LEMMA QueryActs ==
  ASSUME AnswerInv, NEW q \in Queries,
         \/ \E p \in Principals : \E c \in Calls : GetRow(q, p, c)
         \/ \E p \in Principals, n \in 0..ListLimit : ListRows(q, p, n)
         \/ ListNone(q) \/ QueryStep(q) \/ QueryErrs(q)
  PROVE  DaemonInv' /\ RollbackInv' /\ QueryType' /\ ViewInv'
<1>1. Asks
  BY DEF GetRow, ListRows, ListNone, QueryStep, ReadOutcomes, Answer,
         QueryErrs, Fault, Asks, vars, dbVars
<1>2. DaemonInv' /\ RollbackInv'
  BY <1>1, AsksDaemon
<1>3. ASSUME NEW place \in {"unknown", "refused", "answered"},
             query' = [query EXCEPT ![q].at = place]
      PROVE  QueryType' /\ ViewInv'
  BY <1>1, <1>3, PlaceChange
<1>4. ASSUME NEW p \in Principals, NEW c \in Calls, GetRow(q, p, c)
      PROVE  QueryType' /\ ViewInv'
  <2>1. CASE Recorded(c) /\ can_read_job(p, c)
    <3>1. Reading(q, {c}) /\ {c} \in SUBSET Calls /\ \A d \in {c} : Recorded(d)
      BY <1>4, <2>1 DEF GetRow
    <3> QED BY <1>1, <3>1, ReadingRows
  <2>2. CASE ~(Recorded(c) /\ can_read_job(p, c))
    BY <1>3, <1>4, <2>2 DEF GetRow
  <2> QED BY <2>1, <2>2
<1>5. ASSUME NEW p \in Principals, NEW n \in 0..ListLimit, ListRows(q, p, n)
      PROVE  QueryType' /\ ViewInv'
  <2>1. PICK S \in SUBSET {c \in Calls : Recorded(c) /\ can_read_job(p, c)} :
          Reading(q, S)
    BY <1>5 DEF ListRows
  <2>2. S \in SUBSET Calls /\ \A c \in S : Recorded(c)
    OBVIOUS
  <2> QED BY <1>1, <2>1, <2>2, ReadingRows
<1>6. ASSUME NEW c \in Calls, ReadOutcomes(q, c)
      PROVE  QueryType' /\ ViewInv'
  BY <1>1, <1>6, ReadOutcomesAnswers
<1>7. ASSUME ListNone(q) \/ Answer(q) PROVE QueryType' /\ ViewInv'
  BY <1>3, <1>7 DEF ListNone, Answer
<1>8. ASSUME QueryErrs(q) PROVE QueryType' /\ ViewInv'
  <2> DEFINE next == [at |-> "lost", todo |-> <<>>, views |-> {},
                      touched |-> {}, torn |-> FALSE]
  <2>1. /\ DOMAIN query' = Queries
        /\ \A p \in Queries : query'[p] = IF p = q THEN next ELSE query[p]
    BY <1>8, NoQueryFields DEF QueryErrs, AnswerInv, QueryType
  <2>2. /\ next = [at |-> next.at, todo |-> next.todo, views |-> next.views,
                   touched |-> next.touched, torn |-> next.torn]
        /\ next.at = "lost" /\ DOMAIN next.todo = {} /\ next.views = {}
    OBVIOUS
  <2> HIDE DEF next
  <2>3. ViewInv'
    BY <1>1, <2>1, <2>2, ViewChange
  <2>4. QueryType'
    BY <2>1, <2>2 DEF AnswerInv, QueryType
  <2> QED BY <2>3, <2>4
<1> QED BY <1>2, <1>4, <1>5, <1>6, <1>7, <1>8 DEF QueryStep

-----------------------------------------------------------------------------
(* THE SECOND THEOREM: NO FALSE SUCCESS IN AN ANSWER                       *)

(* The records of the queries keep their shape.                            *)
LEMMA QueryShape ==
  ASSUME AnswerInv,
         \/ query' = query
         \/ Crash
  PROVE  QueryType'
<1>1. CASE query' = query
  BY <1>1 DEF AnswerInv, QueryType
<1>2. CASE Crash
  <2> DEFINE gone == [at |-> "lost", todo |-> <<>>, views |-> {},
                      touched |-> {}, torn |-> FALSE]
  <2>1. query' = [q \in Queries |->
                    IF query[q].at = "reading" THEN gone ELSE query[q]]
    BY <1>2, NoQueryFields DEF Crash
  <2>2. /\ gone = [at |-> gone.at, todo |-> gone.todo, views |-> gone.views,
                   touched |-> gone.touched, torn |-> gone.torn]
        /\ DOMAIN gone.todo = {}
    OBVIOUS
  <2> HIDE DEF gone
  <2>3. \A q \in Queries : query'[q] = gone \/ query'[q] = query[q]
    BY <2>1
  <2>4. DOMAIN query' = Queries
    BY <2>1
  <2> QED BY <2>2, <2>3, <2>4 DEF AnswerInv, QueryType
<1> QED BY <1>1, <1>2

(* The invariant holds at the start.                                       *)
LEMMA InitAnswers == QInit => AnswerInv
<1> SUFFICES ASSUME QInit PROVE AnswerInv
  OBVIOUS
<1>1. /\ \A c \in Calls : /\ pc[c] \notin Active /\ pc[c] \notin Attempting
                          /\ ~Recorded(c) /\ ~Settled(c)
                          /\ results[c] = {} /\ born[c] = 0 /\ epoch = 0
      /\ RefusalInv
  BY DEF QInit, Init, Active, DbSteps, Awaiting, Attempting, Recorded, Settled,
         FinalStatus, NoRow, NoRes, RefusalInv, NothingAccepted
<1>2. /\ \A p \in Procs : store[p].state = "closed" /\ store[p].todo = {}
      /\ \A w \in Writers : write[w].stage = "idle"
  BY DEF QInit, Init, NoWrite
<1>3. "daemon" \in Procs /\ "cli" \in Procs /\ Procs \subseteq Writers
  BY DEF Procs, Writers
<1>4. SoleInv /\ OpenInv
  BY <1>1, <1>2, <1>3 DEF QInit, Init, SoleInv, OpenInv
<1>5. RunInv /\ BornInv /\ PlanInv
  BY <1>1, <1>2, <1>3 DEF RunInv, BornInv, PlanInv
<1>6. FreshInv /\ RowsInv /\ RowKeyInv
  BY <1>1, <1>2 DEF FreshInv, RowsInv, RowKeyInv, DistinctRows
<1>7. DaemonInv
  BY <1>1, <1>4, <1>5, <1>6 DEF DaemonInv
<1>8. RollbackInv
  BY DEF QInit, RollbackInv
<1>9. QueryType /\ ViewInv
  <2> DEFINE none == [at |-> "idle", todo |-> <<>>, views |-> {},
                      touched |-> {}, torn |-> FALSE]
  <2>1. query = [q \in Queries |-> none]
    BY DEF QInit, NoQuery
  <2>2. /\ none = [at |-> none.at, todo |-> none.todo, views |-> none.views,
                   touched |-> none.touched, torn |-> none.torn]
        /\ none.at = "idle" /\ DOMAIN none.todo = {} /\ none.views = {}
    OBVIOUS
  <2> HIDE DEF none
  <2> QED BY <2>1, <2>2 DEF QueryType, ViewInv
<1> QED BY <1>7, <1>8, <1>9, InitQInv DEF AnswerInv

(* Every step, of a call, a query or the environment, preserves it.        *)
LEMMA StepAnswers == AnswerInv /\ [QNext]_allVars => AnswerInv'
<1> SUFFICES ASSUME AnswerInv, [QNext]_allVars PROVE AnswerInv'
  OBVIOUS
<1>1. QInv'
  BY StepQInv DEF AnswerInv
<1> SUFFICES DaemonInv' /\ RollbackInv' /\ QueryType' /\ ViewInv'
  BY <1>1 DEF AnswerInv
<1>2. CASE UNCHANGED allVars
  <2>1. Asks /\ query' = query
    BY <1>2 DEF allVars, vars, Asks
  <2>2. UNCHANGED <<jobs, pc, req, replies>>
    BY <2>1 DEF Asks
  <2> QED BY <2>1, <2>2, AsksDaemon, QueryShape, ViewFrame DEF AnswerInv
<1>3. CASE Works
  <2>1. query' = query
    BY <1>3 DEF Works, queryVars
  <2> QED BY <1>3, <2>1, WorksDaemon, WorksRollback, WorksViews, QueryShape
          DEF AnswerInv, QInv
<1>4. ASSUME NEW c \in Calls, BeginFails(c)
      PROVE  DaemonInv' /\ RollbackInv' /\ QueryType' /\ ViewInv'
  <2>1. query' = query
    BY <1>4 DEF BeginFails, queryVars
  <2> QED BY <1>4, <2>1, BeginFailsAnswers, QueryShape
<1>5. ASSUME NEW c \in Calls, CommitFails(c)
      PROVE  DaemonInv' /\ RollbackInv' /\ QueryType' /\ ViewInv'
  <2>1. query' = query
    BY <1>5 DEF CommitFails
  <2> QED BY <1>5, <2>1, CommitFailsAnswers, QueryShape
<1>6. CASE Crash
  BY <1>6, CrashAnswers, QueryShape
<1>7. CASE /\ QNext /\ ~Works /\ ~Crash
           /\ \A c \in Calls : ~BeginFails(c) /\ ~CommitFails(c)
  <2>1. PICK q \in Queries :
          \/ \E p \in Principals : \E c \in Calls : GetRow(q, p, c)
          \/ \E p \in Principals, n \in 0..ListLimit : ListRows(q, p, n)
          \/ ListNone(q) \/ QueryStep(q) \/ QueryErrs(q)
    BY <1>7 DEF QNext, CallGoesOn, Works
  <2> QED BY <2>1, QueryActs
<1> QED BY <1>2, <1>3, <1>4, <1>5, <1>6, <1>7

(* An answer of job.get or job.list never shows a delivery that did not    *)
(* happen: a job shown as satisfied has been accepted by the relays its    *)
(* outcomes name, as often as its policy asks for - for any number of      *)
(* calls, queries, crashes and failed COMMITs, and although the row and    *)
(* the outcomes of a job are read under two locks.                         *)
THEOREM TruthfulAnswers == QSpec => []AnswersTellTheTruth
<1>1. AnswerInv => AnswersTellTheTruth
  BY DEF AnswerInv, ViewInv, Truthful, AnswersTellTheTruth
<1>2. QSpec => []AnswerInv
  BY InitAnswers, StepAnswers, PTL DEF QSpec
<1> QED BY <1>1, <1>2, PTL

-----------------------------------------------------------------------------
(* THE THIRD THEOREM: WHY A QUERY FAILS                                    *)

(* A reason for which a job may be invalid although nobody is at work.     *)
Blamed(c) == \/ ~DistinctTargets(snapshots[c]) \/ ~QuorumFits(c)
             \/ pc[c] = "failed"

(* A job that stays, unless its call has failed.                           *)
Kept(c) == /\ c \in Calls
           /\ pc[c] = "failed" \/ Durable.jobs[c].status # "Absent"

(* A rollback undoes jobs of failed calls only.                            *)
UndoneInv ==
  broken => \A c \in Calls :
    Recorded(c) /\ committed.jobs[c].status = "Absent" => pc[c] = "failed"

(* Calls that have died belong to a run of the daemon that is over.        *)
AgeInv ==
  /\ store["daemon"].state # "closed" => epoch >= 1
  /\ \A c \in Calls : Recorded(c) => born[c] >= 1
  /\ \A c \in Calls : pc[c] = "lost" =>
       epoch >= 1 /\ (epoch = 1 => store["daemon"].state = "closed")

(* The jobs a query has touched stay, and one of them is to blame if it    *)
(* failed in the first run of the daemon without being torn.               *)
ReadInv ==
  \A q \in Queries :
    /\ query[q].at = "reading" =>
         /\ store["daemon"].state = "open"
         /\ \A c \in DOMAIN query[q].todo :
              Recorded(c) /\ query[q].todo[c].status # "Absent"
    /\ \A c \in query[q].touched : Kept(c)
    /\ query[q].at = "failed" /\ epoch <= 1 =>
         query[q].torn \/ \E c \in query[q].touched : Blamed(c)

FailInv == AnswerInv /\ UndoneInv /\ AgeInv /\ ReadInv

(* A recorded job is kept.                                                 *)
LEMMA RecordedKept ==
  ASSUME UndoneInv, NEW c \in Calls, Recorded(c)
  PROVE  Kept(c)
BY DEF UndoneInv, Kept, Durable, Database, Recorded

(* What the work of the daemon does to its run and to the calls of it.     *)
LEMMA WorksRun ==
  ASSUME TypeOK, WriteInv, Works
  PROVE  /\ \/ store' = store /\ epoch' = epoch
            \/ /\ store["daemon"].state = "closed" /\ epoch' = epoch + 1
            \/ /\ store["daemon"].state \notin {"closed", "open"}
               /\ store'["daemon"].state # "closed" /\ epoch' = epoch
         /\ \A c \in Calls : pc'[c] = "lost" => pc[c] = "lost"
<1>1. "daemon" \in Procs /\ "daemon" \in Writers /\ "daemon" \notin Calls
  BY PublishAssumption DEF Procs, Writers
<1>2. ASSUME NEW c \in Calls,
             \/ CallStep(c) \/ Refuse(c) \/ Disconnect(c) \/ StatementFails(c)
             \/ \E r \in Request : Admit(c, r)
             \/ \E r \in Relays : \E kind \in ReplyKinds :
                  RelayReplies(c, r, kind)
      PROVE  /\ store' = store /\ epoch' = epoch
             /\ \A d \in Calls : pc'[d] = "lost" => pc[d] = "lost"
  <2>1. store' = store /\ epoch' = epoch
    BY <1>2
    DEF CallStep, Resolve, LookupKey, LookupReadOutcomes, InsertJob, ReadRow,
        RecordReadOutcomes, PublishDone, PublishAborted, UpdateJob,
        DeleteResults, InsertResult, FinalReadOutcomes, Admit, Refuse,
        RelayReplies, Disconnect, StatementFails, Fault, histVars
  <2>2. pc' = pc \/ \E x : x # "lost" /\ pc' = [pc EXCEPT ![c] = x]
    BY <1>2
    DEF CallStep, Resolve, LookupKey, LookupReadOutcomes, InsertJob, ReadRow,
        RecordReadOutcomes, PublishDone, PublishAborted, UpdateJob,
        DeleteResults, InsertResult, FinalReadOutcomes, Admit, Refuse,
        RelayReplies, Disconnect, StatementFails, CompleteWith, Complete,
        Execute, ContinueWith, End
  <2> QED BY <2>1, <2>2 DEF TypeOK
<1>3. ASSUME UpdateJob("daemon") \/ DeleteResults("daemon")
               \/ InsertResult("daemon")
      PROVE  store' = store /\ epoch' = epoch /\ pc' = pc
  BY <1>1, <1>3 DEF UpdateJob, DeleteResults, InsertResult, ContinueWith,
                    histVars
<1>4. ASSUME OpenStore("daemon")
      PROVE  /\ store["daemon"].state = "closed" /\ epoch' = epoch + 1
             /\ pc' = pc
  BY <1>4 DEF OpenStore
<1>5. ASSUME SelectInterrupted("daemon") \/ FinishOpen("daemon")
               \/ \E c \in Calls : RecoverJob("daemon", c)
      PROVE  /\ store["daemon"].state \notin {"closed", "open"}
             /\ store'["daemon"].state # "closed"
             /\ epoch' = epoch /\ pc' = pc
  <2>1. /\ store["daemon"].state \in {"selecting", "recovering"}
        /\ epoch' = epoch /\ pc' = pc
    BY <1>5 DEF SelectInterrupted, FinishOpen, RecoverJob, histVars
  <2>2. \/ store'["daemon"].state \in {"recovering", "open"}
        \/ store'["daemon"].state = store["daemon"].state
    <3>1. store["daemon"] \in OpenState
      BY <1>1 DEF TypeOK
    <3> QED BY <1>1, <1>5, <3>1 DEF SelectInterrupted, FinishOpen, RecoverJob,
                                    TypeOK, OpenState
  <2> QED BY <2>1, <2>2
<1> QED BY <1>2, <1>3, <1>4, <1>5 DEF Works, JobStep, RecoveryStep

(* Runs and ages, through the work of the daemon.                          *)
LEMMA WorksAge ==
  ASSUME IInv, RunInv, AgeInv, Works
  PROVE  AgeInv'
<1>1. Next
  BY WorksIsNext
<1>2. /\ epoch \in Nat /\ \A c \in Calls : born[c] \in Nat
      /\ "insert" \in Active
  BY DEF IInv, TypeOK, Active, DbSteps
<1>3. /\ \/ store' = store /\ epoch' = epoch
         \/ /\ store["daemon"].state = "closed" /\ epoch' = epoch + 1
         \/ /\ store["daemon"].state \notin {"closed", "open"}
            /\ store'["daemon"].state # "closed" /\ epoch' = epoch
      /\ \A c \in Calls : pc'[c] = "lost" => pc[c] = "lost"
  BY WorksRun DEF IInv
<1>4. ASSUME NEW c \in Calls, Recorded(c)' PROVE born'[c] >= 1
  <2>1. CASE Recorded(c)
    BY <1>1, <2>1, RecordedFrame DEF IInv, AgeInv
  <2>2. CASE InsertJob(c)
    <3>1. /\ pc[c] \in Active /\ born' = born
      BY <1>2, <2>2 DEF InsertJob, histVars
    <3> QED BY <1>2, <3>1 DEF RunInv, AgeInv
  <2> QED BY <1>1, <1>4, <2>1, <2>2, RecordedComes DEF IInv
<1>5. store'["daemon"].state # "closed" => epoch' >= 1
  BY <1>2, <1>3 DEF AgeInv
<1>6. ASSUME NEW c \in Calls, pc'[c] = "lost"
      PROVE  epoch' >= 1 /\ (epoch' = 1 => store'["daemon"].state = "closed")
  BY <1>2, <1>3, <1>6 DEF AgeInv
<1> QED BY <1>4, <1>5, <1>6 DEF AgeInv

(* What is kept is kept, and who is to blame stays to blame.               *)
LEMMA WorksKept ==
  ASSUME QInv, UndoneInv, Works, NEW c \in Calls, Kept(c)
  PROVE  Kept(c)' /\ (Blamed(c) => Blamed(c)')
<1>1. Next /\ broken' = broken /\ committed' = committed
  BY WorksIsNext DEF Works, queryVars
<1>2. CASE pc[c] = "failed"
  <2>1. pc'[c] = "failed"
    BY <1>1, <1>2, FailedStays DEF QInv, IInv
  <2> QED BY <2>1 DEF Kept, Blamed
<1>3. CASE Durable.jobs[c].status # "Absent" /\ pc[c] # "failed"
  <2>1. Recorded(c)
    BY <1>3, DurableFacts
  <2>2. /\ snapshots'[c] = snapshots[c] /\ PolicyFor(c)' = PolicyFor(c)
        /\ Recorded(c)'
    BY <1>1, <2>1, RecordedFrame, RecordedStays DEF QInv, IInv
  <2>3. Blamed(c) => Blamed(c)'
    BY <1>3, <2>2 DEF Blamed, DistinctTargets, QuorumFits
  <2>4. Durable'.jobs[c].status # "Absent"
    BY <1>1, <1>3, <2>2 DEF Durable, Database, Recorded
  <2> QED BY <2>3, <2>4 DEF Kept
<1> QED BY <1>2, <1>3 DEF Kept

(* A rollback still undoes jobs of failed calls only.                      *)
LEMMA WorksUndone ==
  ASSUME QInv, UndoneInv, Works
  PROVE  UndoneInv'
<1>1. Next /\ broken' = broken /\ committed' = committed
  BY WorksIsNext DEF Works, queryVars
<1> SUFFICES ASSUME broken, NEW c \in Calls, Recorded(c)',
                    committed.jobs[c].status = "Absent"
             PROVE  pc'[c] = "failed"
  BY <1>1 DEF UndoneInv
<1>2. ~InsertJob(c)
  <2>1. snapshots' = snapshots /\ pc[c] \notin AfterInsert
          /\ \A d \in Calls : pc'[d] \in AfterInsert => pc[d] \in AfterInsert
    BY BrokenFrame DEF QInv, IInv, CommitInv
  <2>2. pc'[c] \notin AfterInsert
    BY <2>1
  <2>3. CASE InsertJob(c) /\ ~KeyTaken(c)
    BY <2>2, <2>3 DEF InsertJob, AfterInsert, QInv, IInv, TypeOK
  <2>4. CASE InsertJob(c) /\ KeyTaken(c)
    <3>1. jobs' = jobs /\ ~Recorded(c)
      BY <2>4 DEF InsertJob, QInv, IInv, PhaseInv, BeforeInsert
    <3> QED BY <3>1 DEF Recorded
  <2> QED BY <2>3, <2>4
<1>3. Recorded(c)
  BY <1>1, <1>2, RecordedComes DEF QInv, IInv
<1>4. pc[c] = "failed"
  BY <1>3 DEF UndoneInv
<1> QED BY <1>1, <1>4, FailedStays DEF QInv, IInv

(* Queries that do nothing, in a step that keeps what they have touched.   *)
LEMMA ReadFrame ==
  ASSUME QInv, QueryType, ReadInv, query' = query,
         epoch' \in Nat, epoch <= epoch',
         store["daemon"].state = "open" => store'["daemon"].state = "open",
         \A c \in Calls : Recorded(c) => Recorded(c)',
         \A c \in Calls : Kept(c) => Kept(c)' /\ (Blamed(c) => Blamed(c)')
  PROVE  ReadInv'
<1>1. epoch \in Nat
  BY DEF QInv, IInv, TypeOK
<1> SUFFICES ASSUME NEW q \in Queries
             PROVE  /\ query[q].at = "reading" =>
                         /\ store'["daemon"].state = "open"
                         /\ \A c \in DOMAIN query[q].todo :
                              /\ Recorded(c)'
                              /\ query[q].todo[c].status # "Absent"
                    /\ \A c \in query[q].touched : Kept(c)'
                    /\ query[q].at = "failed" /\ epoch' <= 1 =>
                         \/ query[q].torn
                         \/ \E c \in query[q].touched : Blamed(c)'
  BY DEF ReadInv
<1>2. query[q].at = "reading" =>
        /\ store'["daemon"].state = "open"
        /\ \A c \in DOMAIN query[q].todo :
             Recorded(c)' /\ query[q].todo[c].status # "Absent"
  BY DEF ReadInv, QueryType
<1>3. \A c \in query[q].touched : Kept(c)' /\ (Blamed(c) => Blamed(c)')
  <2>1. \A c \in query[q].touched : c \in Calls /\ Kept(c)
    BY DEF ReadInv, Kept
  <2> QED BY <2>1
<1>4. epoch' <= 1 => epoch <= 1
  BY <1>1
<1>5. ASSUME query[q].at = "failed", epoch' <= 1
      PROVE  query[q].torn \/ \E c \in query[q].touched : Blamed(c)'
  <2>1. query[q].torn \/ \E c \in query[q].touched : Blamed(c)
    BY <1>4, <1>5 DEF ReadInv
  <2> QED BY <1>3, <2>1
<1> QED BY <1>2, <1>3, <1>5

(* The work of the daemon.                                                 *)
LEMMA WorksReads ==
  ASSUME FailInv, Works
  PROVE  UndoneInv' /\ AgeInv' /\ ReadInv'
<1>1. UndoneInv' /\ AgeInv'
  BY WorksUndone, WorksAge DEF FailInv, AnswerInv, DaemonInv, QInv
<1>2. query' = query
  BY DEF Works, queryVars
<1>3. epoch \in Nat
  BY DEF FailInv, AnswerInv, QInv, IInv, TypeOK
<1>4. /\ epoch' \in Nat /\ epoch <= epoch'
      /\ store["daemon"].state = "open" => store'["daemon"].state = "open"
  BY <1>3, WorksRun DEF FailInv, AnswerInv, QInv, IInv
<1>5. \A c \in Calls : Recorded(c) => Recorded(c)'
  BY WorksIsNext, RecordedStays DEF FailInv, AnswerInv, QInv, IInv
<1>6. \A c \in Calls : Kept(c) => Kept(c)' /\ (Blamed(c) => Blamed(c)')
  BY WorksKept DEF FailInv, AnswerInv
<1>7. ReadInv'
  BY <1>2, <1>4, <1>5, <1>6, ReadFrame DEF FailInv, AnswerInv
<1> QED BY <1>1, <1>7

(* A BEGIN that fails.                                                     *)
LEMMA BeginFailsReads ==
  ASSUME FailInv, NEW c \in Calls, BeginFails(c)
  PROVE  UndoneInv' /\ AgeInv' /\ ReadInv'
<1> USE DEF dbVars, histVars, queryVars
<1>1. /\ UNCHANGED <<jobs, snapshots, results, req, store, epoch, born, query,
                     broken, committed>>
      /\ End(c, "failed") /\ pc[c] = "insert"
  BY DEF BeginFails
<1>2. \A d \in Calls : pc'[d] = IF d = c THEN "failed" ELSE pc[d]
  BY <1>1 DEF End, TypeOK, QInv, IInv, AnswerInv, FailInv
<1>3. UndoneInv' /\ AgeInv'
  BY <1>1, <1>2 DEF FailInv, UndoneInv, AgeInv, Recorded
<1>4. \A d \in Calls : Kept(d) => Kept(d)' /\ (Blamed(d) => Blamed(d)')
  BY <1>1, <1>2 DEF Kept, Blamed, Durable, Database, DistinctTargets,
                    QuorumFits, PolicyFor
<1>5. epoch \in Nat
  BY DEF FailInv, AnswerInv, QInv, IInv, TypeOK
<1>6. ReadInv'
  <2>1. epoch' \in Nat /\ epoch <= epoch' /\ query' = query
    BY <1>1, <1>5
  <2>2. /\ store["daemon"].state = "open" => store'["daemon"].state = "open"
        /\ \A d \in Calls : Recorded(d) => Recorded(d)'
    BY <1>1 DEF Recorded
  <2> QED BY <1>4, <2>1, <2>2, ReadFrame DEF FailInv, AnswerInv
<1> QED BY <1>3, <1>6

(* A COMMIT that fails: the job a rollback would undo is that of the call  *)
(* it fails.                                                               *)
LEMMA CommitFailsReads ==
  ASSUME FailInv, NEW c \in Calls, CommitFails(c)
  PROVE  UndoneInv' /\ AgeInv' /\ ReadInv'
<1> USE DEF dbVars, histVars
<1>0. /\ IInv /\ RunInv /\ UndoneInv /\ AgeInv
  BY DEF FailInv, AnswerInv, QInv, DaemonInv
<1>1. /\ UNCHANGED <<results, req, store, epoch, born, query>>
      /\ jobs' = [jobs EXCEPT ![c] = [status |-> "Publishing",
                                      count |-> target_count(res[c]),
                                      lastError |-> None]]
      /\ snapshots' = [snapshots EXCEPT ![c] =
                         target_snapshots_from_resolution(res[c])]
      /\ ~broken /\ broken' = TRUE /\ committed' = Database
      /\ End(c, "failed") /\ pc[c] = "insert"
  BY DEF CommitFails, Fault
<1>2. /\ \A d \in Calls : pc'[d] = IF d = c THEN "failed" ELSE pc[d]
      /\ \A d \in Calls \ {c} : jobs'[d] = jobs[d] /\ snapshots'[d] = snapshots[d]
      /\ jobs'[c].status = "Publishing"
      /\ committed'.jobs = jobs
  BY <1>0, <1>1 DEF End, TypeOK, IInv, Database
<1>3. /\ ~Recorded(c) /\ Recorded(c)'
      /\ \A d \in Calls \ {c} : Recorded(d)' <=> Recorded(d)
  BY <1>0, <1>1, <1>2 DEF Recorded, IInv, PhaseInv, BeforeInsert
<1>4. UndoneInv'
  BY <1>1, <1>2, <1>3 DEF UndoneInv, Recorded
<1>5. /\ born[c] = epoch /\ store["daemon"].state = "open" /\ epoch >= 1
      /\ epoch \in Nat
  BY <1>0, <1>1 DEF RunInv, AgeInv, Active, DbSteps, IInv, TypeOK
<1>6. AgeInv'
  BY <1>0, <1>1, <1>2, <1>3, <1>5 DEF AgeInv
<1>7. \A d \in Calls : Kept(d) => Kept(d)' /\ (Blamed(d) => Blamed(d)')
  <2>1. \A d \in Calls : Durable'.jobs[d] = jobs[d] /\ Durable.jobs[d] = jobs[d]
    BY <1>1, <1>2 DEF Durable, Database
  <2>2. ASSUME NEW d \in Calls \ {c}
        PROVE  (Kept(d) => Kept(d)') /\ (Blamed(d) => Blamed(d)')
    BY <1>1, <1>2, <2>1 DEF Kept, Blamed, DistinctTargets, QuorumFits, PolicyFor
  <2>3. Kept(c)' /\ Blamed(c)'
    BY <1>2 DEF Kept, Blamed
  <2> QED BY <2>2, <2>3
<1>8. ReadInv'
  <2>1. epoch' \in Nat /\ epoch <= epoch' /\ query' = query
    BY <1>1, <1>5
  <2>2. /\ store["daemon"].state = "open" => store'["daemon"].state = "open"
        /\ \A d \in Calls : Recorded(d) => Recorded(d)'
    BY <1>1, <1>3
  <2> QED BY <1>7, <2>1, <2>2, ReadFrame DEF FailInv, AnswerInv
<1> QED BY <1>4, <1>6, <1>8

(* The end of the daemon.                                                  *)
LEMMA CrashReads ==
  ASSUME FailInv, Crash
  PROVE  UndoneInv' /\ AgeInv' /\ ReadInv'
<1> DEFINE gone == [at |-> "lost", todo |-> <<>>, views |-> {},
                    touched |-> {}, torn |-> FALSE]
<1>1. /\ UNCHANGED <<req, epoch, born>>
      /\ store["daemon"].state # "closed"
      /\ store' = [store EXCEPT !["daemon"] = [state |-> "closed", todo |-> {}]]
      /\ pc' = [c \in Calls |-> IF pc[c] \in Active THEN "lost" ELSE pc[c]]
      /\ jobs' = Durable.jobs /\ snapshots' = Durable.snapshots
      /\ broken' = FALSE
      /\ query' = [q \in Queries |->
                     IF query[q].at = "reading" THEN gone ELSE query[q]]
  BY NoQueryFields DEF Crash, DaemonGone, Fault
<1>2. /\ gone.at = "lost" /\ gone.touched = {}
  OBVIOUS
<1> HIDE DEF gone
<1>3. QInv /\ AgeInv /\ UndoneInv /\ ReadInv /\ IInv
  BY DEF FailInv, AnswerInv, QInv
<1>4. "failed" \notin Active /\ store'["daemon"].state = "closed"
  BY <1>1, <1>3 DEF Active, DbSteps, Awaiting, IInv, TypeOK, Procs
<1>5. \A c \in Calls : Recorded(c)' => Recorded(c)
  BY <1>1, <1>3, DurableFacts DEF Recorded
<1>6. UndoneInv'
  BY <1>1 DEF UndoneInv
<1>7. AgeInv'
  BY <1>1, <1>3, <1>4, <1>5 DEF AgeInv
<1>8. ASSUME NEW c \in Calls, Kept(c)
      PROVE  Kept(c)' /\ (Blamed(c) => Blamed(c)')
  <2>1. Durable'.jobs = Durable.jobs
    BY <1>1 DEF Durable, Database
  <2>2. CASE pc[c] = "failed"
    BY <1>1, <1>4, <2>2 DEF Kept, Blamed
  <2>3. CASE pc[c] # "failed" /\ Durable.jobs[c].status # "Absent"
    <3>1. snapshots'[c] = snapshots[c] /\ PolicyFor(c)' = PolicyFor(c)
      BY <1>1, <1>3, <2>3, DurableFacts DEF PolicyFor
    <3>2. Blamed(c) => Blamed(c)'
      BY <2>3, <3>1 DEF Blamed, DistinctTargets, QuorumFits
    <3> QED BY <2>1, <2>3, <3>2 DEF Kept
  <2> QED BY <1>8, <2>2, <2>3 DEF Kept
<1>9. ReadInv'
  <2>1. \A q \in Queries : \/ query'[q] = gone
                           \/ query'[q] = query[q] /\ query[q].at # "reading"
    BY <1>1
  <2>2. ASSUME NEW q \in Queries, query'[q] = query[q], query[q].at # "reading"
        PROVE  /\ \A c \in query[q].touched : Kept(c)'
               /\ query[q].at = "failed" /\ epoch <= 1 =>
                    query[q].torn \/ \E c \in query[q].touched : Blamed(c)'
    <3>1. \A c \in query[q].touched : Kept(c)' /\ (Blamed(c) => Blamed(c)')
      <4>1. \A c \in query[q].touched : c \in Calls /\ Kept(c)
        BY <1>3 DEF ReadInv, Kept
      <4> QED BY <1>8, <4>1
    <3>2. query[q].at = "failed" /\ epoch <= 1 =>
            query[q].torn \/ \E c \in query[q].touched : Blamed(c)
      BY <1>3 DEF ReadInv
    <3> QED BY <3>1, <3>2
  <2> QED BY <1>1, <1>2, <2>1, <2>2 DEF ReadInv
<1> QED BY <1>6, <1>7, <1>9

(* What one query does, as far as the jobs it has touched are concerned.   *)
LEMMA ReadChange ==
  ASSUME FailInv, Asks, NEW q \in Queries, NEW next,
         \A p \in Queries : query'[p] = IF p = q THEN next ELSE query[p],
         next.at = "reading" =>
           /\ store["daemon"].state = "open"
           /\ \A c \in DOMAIN next.todo :
                Recorded(c) /\ next.todo[c].status # "Absent",
         \A c \in next.touched : Kept(c),
         next.at = "failed" /\ epoch <= 1 =>
           next.torn \/ \E c \in next.touched : Blamed(c)
  PROVE  UndoneInv' /\ AgeInv' /\ ReadInv'
<1>1. UNCHANGED <<jobs, snapshots, results, pc, req, store, epoch, born,
                  broken, committed>>
  BY DEF Asks
<1>2. UndoneInv' /\ AgeInv'
  BY <1>1 DEF FailInv, UndoneInv, AgeInv, Recorded
<1>3. \A c : (Kept(c)' <=> Kept(c)) /\ (Blamed(c)' <=> Blamed(c))
              /\ (Recorded(c)' <=> Recorded(c))
  BY <1>1 DEF Kept, Blamed, Durable, Database, DistinctTargets, QuorumFits,
              PolicyFor, Recorded
<1>4. ASSUME NEW p \in Queries, NEW now, now = query'[p]
      PROVE  /\ now.at = "reading" =>
                  /\ store["daemon"].state = "open"
                  /\ \A c \in DOMAIN now.todo :
                       Recorded(c) /\ now.todo[c].status # "Absent"
             /\ \A c \in now.touched : Kept(c)
             /\ now.at = "failed" /\ epoch <= 1 =>
                  now.torn \/ \E c \in now.touched : Blamed(c)
  <2>1. CASE p = q
    <3>1. now = next
      BY <1>4, <2>1
    <3> QED BY <3>1
  <2>2. CASE p # q
    <3>1. now = query[p]
      BY <1>4, <2>2
    <3> QED BY <3>1 DEF FailInv, ReadInv
  <2> QED BY <2>1, <2>2
<1>5. ReadInv'
  BY <1>1, <1>3, <1>4 DEF ReadInv
<1> QED BY <1>2, <1>5

(* A job nobody is at work on is valid, unless there is a reason for it    *)
(* not to be.                                                              *)
LEMMA RestingIsValid ==
  ASSUME FailInv, store["daemon"].state = "open", ~Locked, epoch <= 1,
         NEW c \in Calls, Recorded(c), ~Blamed(c)
  PROVE  validate(jobs[c], PolicyFor(c), results[c]) = {TRUE}
<1>1. IInv /\ TypeOK /\ DaemonInv /\ AgeInv
  BY DEF FailInv, AnswerInv, QInv, IInv
<1>2. CASE ~Settled(c)
  <2>1. results[c] = {} /\ jobs[c].status = "Publishing"
    BY <1>1, <1>2 DEF DaemonInv, FreshInv, Settled, Recorded, TypeOK, Row
  <2> QED BY <2>1 DEF validate
<1>3. CASE Settled(c)
  <2>1. ~Busy(c)
    BY <1>1, <1>3, NobodyAtWork
  <2>2. Sound(c)
    <3>1. epoch \in Nat /\ born[c] \in Nat /\ born[c] <= epoch
      BY <1>1 DEF TypeOK, DaemonInv, BornInv
    <3>2. epoch = 1 /\ born[c] = 1
      BY <1>1, <3>1 DEF AgeInv
    <3> QED BY <1>1, <3>2 DEF Sound, AgeInv, Blamed
  <2>3. /\ jobs[c].count = Cardinality(results[c])
        /\ jobs[c].status # "Rejected" =>
             jobs[c].status = delivery_status(PolicyFor(c), jobs[c].count,
                                              Listing(results[c]))
        /\ jobs[c].status = "Rejected" => results[c] = {}
    BY <1>1, <1>3, <2>1, <2>2, WholeWhenQuiet DEF Blamed, DaemonInv
  <2>4. jobs[c].status # "Publishing"
    BY <1>3 DEF Settled, FinalStatus
  <2> QED BY <2>3, <2>4 DEF validate
<1> QED BY <1>2, <1>3

(* The outcomes of a job, and its validation.                              *)
LEMMA ReadOutcomesReads ==
  ASSUME FailInv, Asks, NEW q \in Queries, NEW c \in Calls, ReadOutcomes(q, c)
  PROVE  UndoneInv' /\ AgeInv' /\ ReadInv'
<1>1. PICK old, row, next : /\ old = query[q] /\ row = query[q].todo[c]
                            /\ next = query'[q]
  OBVIOUS
<1>2. PICK ok \in validate(row, PolicyFor(c), results[c]) :
        /\ next.at = IF ok THEN "reading" ELSE "failed"
        /\ ok => /\ DOMAIN next.todo \subseteq DOMAIN old.todo
                 /\ \A d \in DOMAIN next.todo : next.todo[d] = old.todo[d]
        /\ next.touched = old.touched \cup {c}
        /\ next.torn = (old.torn \/ row # jobs[c])
  <2>1. PICK ok \in validate(row, PolicyFor(c), results[c]) :
          next = [at |-> IF ok THEN "reading" ELSE "failed",
                  todo |-> IF ok THEN [d \in DOMAIN old.todo \ {c} |->
                                         old.todo[d]]
                           ELSE <<>>,
                  views |-> IF ok
                            THEN old.views \cup {[job |-> c, row |-> row,
                                                  outcomes |-> results[c]]}
                            ELSE {},
                  touched |-> old.touched \cup {c},
                  torn |-> old.torn \/ row # jobs[c]]
    <3>1. AnswerInv
      BY DEF FailInv
    <3> QED BY <1>1, <3>1, OutcomesRead, ZenonT(60)
  <2>2. ok => next.todo = [d \in DOMAIN old.todo \ {c} |-> old.todo[d]]
    BY <2>1
  <2>3. ok => /\ DOMAIN next.todo \subseteq DOMAIN old.todo
              /\ \A d \in DOMAIN next.todo : next.todo[d] = old.todo[d]
    BY <2>2
  <2>4. /\ next.at = IF ok THEN "reading" ELSE "failed"
        /\ next.touched = old.touched \cup {c}
        /\ next.torn = (old.torn \/ row # jobs[c])
    BY <2>1
  <2> QED BY <2>3, <2>4
<1>3. \A p \in Queries : query'[p] = IF p = q THEN next ELSE query[p]
  BY <1>1 DEF ReadOutcomes, FailInv, AnswerInv, QueryType
<1>4. /\ old.at = "reading" /\ store["daemon"].state = "open" /\ ~Locked
      /\ \A d \in DOMAIN old.todo : Recorded(d) /\ old.todo[d].status # "Absent"
      /\ Recorded(c)
      /\ \A d \in old.touched : Kept(d)
  BY <1>1 DEF ReadOutcomes, FailInv, ReadInv
<1>5. \A d \in next.touched : Kept(d)
  BY <1>2, <1>4, RecordedKept DEF FailInv
<1>6. ASSUME next.at = "failed", epoch <= 1, ~Blamed(c), row = jobs[c]
      PROVE  FALSE
  <2>1. validate(row, PolicyFor(c), results[c]) = {TRUE}
    BY <1>4, <1>6, RestingIsValid
  <2> QED BY <1>2, <1>6, <2>1
<1>7. next.at = "failed" /\ epoch <= 1 =>
        next.torn \/ \E d \in next.touched : Blamed(d)
  BY <1>2, <1>6
<1>8. next.at = "reading" =>
        \A d \in DOMAIN next.todo : Recorded(d) /\ next.todo[d].status # "Absent"
  BY <1>2, <1>4
<1> QED BY <1>3, <1>4, <1>5, <1>7, <1>8, ReadChange

(* Every step of a query.                                                  *)
LEMMA QueryReads ==
  ASSUME FailInv, NEW q \in Queries,
         \/ \E p \in Principals : \E c \in Calls : GetRow(q, p, c)
         \/ \E p \in Principals, n \in 0..ListLimit : ListRows(q, p, n)
         \/ ListNone(q) \/ QueryStep(q) \/ QueryErrs(q)
  PROVE  UndoneInv' /\ AgeInv' /\ ReadInv'
<1>1. Asks
  BY DEF GetRow, ListRows, ListNone, QueryStep, ReadOutcomes, Answer,
         QueryErrs, Fault, Asks, vars, dbVars
<1>2. QueryType /\ ReadInv
  BY DEF FailInv, AnswerInv
<1>3. ASSUME NEW place \in {"unknown", "refused", "answered"},
             query' = [query EXCEPT ![q].at = place]
      PROVE  UndoneInv' /\ AgeInv' /\ ReadInv'
  <2>1. PICK old : old = query[q]
    OBVIOUS
  <2> DEFINE next == [old EXCEPT !.at = place]
  <2>2. \A p \in Queries : query'[p] = IF p = q THEN next ELSE query[p]
    BY <1>2, <1>3, <2>1 DEF QueryType
  <2>3. next.at = place /\ next.touched = old.touched
    <3>1. old = [at |-> old.at, todo |-> old.todo, views |-> old.views,
                 touched |-> old.touched, torn |-> old.torn]
      BY <1>2, <2>1 DEF QueryType
    <3> QED BY <3>1
  <2> HIDE DEF next
  <2>4. \A c \in next.touched : Kept(c)
    BY <1>2, <2>1, <2>3 DEF ReadInv
  <2>5. next.at # "reading" /\ next.at # "failed"
    BY <2>3
  <2> QED BY <1>1, <2>2, <2>4, <2>5, ReadChange
<1>4. ASSUME NEW S \in SUBSET Calls, \A c \in S : Recorded(c), Reading(q, S),
             store["daemon"].state = "open"
      PROVE  UndoneInv' /\ AgeInv' /\ ReadInv'
  <2>1. PICK rows : rows = [c \in S |-> jobs[c]]
    OBVIOUS
  <2> DEFINE next == [NoQuery EXCEPT !.at = "reading", !.todo = rows]
  <2>2. \A p \in Queries : query'[p] = IF p = q THEN next ELSE query[p]
    BY <1>2, <1>4, <2>1 DEF Reading, QueryType
  <2>3. next = [at |-> "reading", todo |-> rows, views |-> {},
                touched |-> {}, torn |-> FALSE]
    BY NoQueryFields
  <2> HIDE DEF next
  <2>4. next.at = "reading" /\ next.todo = rows /\ next.touched = {}
    BY <2>3
  <2>5. \A c \in DOMAIN next.todo :
          Recorded(c) /\ next.todo[c].status # "Absent"
    BY <1>4, <2>1, <2>4 DEF Recorded
  <2> QED BY <1>1, <1>4, <2>2, <2>4, <2>5, ReadChange
<1>5. ASSUME NEW p \in Principals, NEW c \in Calls, GetRow(q, p, c)
      PROVE  UndoneInv' /\ AgeInv' /\ ReadInv'
  <2>1. CASE Recorded(c) /\ can_read_job(p, c)
    <3>1. /\ Reading(q, {c}) /\ {c} \in SUBSET Calls
          /\ \A d \in {c} : Recorded(d)
          /\ store["daemon"].state = "open"
      BY <1>5, <2>1 DEF GetRow, Ready
    <3> QED BY <1>4, <3>1
  <2>2. CASE ~(Recorded(c) /\ can_read_job(p, c))
    BY <1>3, <1>5, <2>2 DEF GetRow
  <2> QED BY <2>1, <2>2
<1>6. ASSUME NEW p \in Principals, NEW n \in 0..ListLimit, ListRows(q, p, n)
      PROVE  UndoneInv' /\ AgeInv' /\ ReadInv'
  <2>1. PICK S \in SUBSET {c \in Calls : Recorded(c) /\ can_read_job(p, c)} :
          Reading(q, S) /\ store["daemon"].state = "open"
    BY <1>6 DEF ListRows, Ready
  <2>2. S \in SUBSET Calls /\ \A c \in S : Recorded(c)
    OBVIOUS
  <2> QED BY <1>4, <2>1, <2>2
<1>7. ASSUME NEW c \in Calls, ReadOutcomes(q, c)
      PROVE  UndoneInv' /\ AgeInv' /\ ReadInv'
  BY <1>1, <1>7, ReadOutcomesReads
<1>8. ASSUME ListNone(q) \/ Answer(q)
      PROVE  UndoneInv' /\ AgeInv' /\ ReadInv'
  BY <1>3, <1>8 DEF ListNone, Answer
<1>9. ASSUME QueryErrs(q) PROVE UndoneInv' /\ AgeInv' /\ ReadInv'
  <2> DEFINE next == [at |-> "lost", todo |-> <<>>, views |-> {},
                      touched |-> {}, torn |-> FALSE]
  <2>1. \A p \in Queries : query'[p] = IF p = q THEN next ELSE query[p]
    BY <1>2, <1>9, NoQueryFields DEF QueryErrs, QueryType
  <2>2. next.at = "lost" /\ next.touched = {}
    OBVIOUS
  <2> HIDE DEF next
  <2> QED BY <1>1, <2>1, <2>2, ReadChange
<1> QED BY <1>5, <1>6, <1>7, <1>8, <1>9 DEF QueryStep

(* The invariant holds at the start.                                       *)
LEMMA InitReads == QInit => FailInv
<1> SUFFICES ASSUME QInit PROVE FailInv
  OBVIOUS
<1>1. AnswerInv
  BY InitAnswers
<1>2. UndoneInv
  BY DEF QInit, UndoneInv
<1>3. AgeInv
  BY DEF QInit, Init, AgeInv, Recorded, NoRow, Procs
<1>4. ReadInv
  <2>1. NoQuery.at = "idle" /\ NoQuery.touched = {}
    BY DEF NoQuery
  <2>2. \A q \in Queries : query[q] = NoQuery
    BY DEF QInit
  <2> QED BY <2>1, <2>2 DEF ReadInv
<1> QED BY <1>1, <1>2, <1>3, <1>4 DEF FailInv

(* Every step, of a call, a query or the environment, preserves it.        *)
LEMMA StepReads == FailInv /\ [QNext]_allVars => FailInv'
<1> SUFFICES ASSUME FailInv, [QNext]_allVars PROVE FailInv'
  OBVIOUS
<1>1. AnswerInv'
  BY StepAnswers DEF FailInv
<1> SUFFICES UndoneInv' /\ AgeInv' /\ ReadInv'
  BY <1>1 DEF FailInv
<1>2. CASE UNCHANGED allVars
  <2>1. UNCHANGED <<jobs, snapshots, results, pc, req, store, epoch, born,
                    broken, committed, query>>
    BY <1>2 DEF allVars, vars
  <2>2. UndoneInv' /\ AgeInv'
    BY <2>1 DEF FailInv, UndoneInv, AgeInv, Recorded
  <2>3. \A c \in Calls : /\ Kept(c) => Kept(c)' /\ (Blamed(c) => Blamed(c)')
                         /\ Recorded(c) => Recorded(c)'
    BY <2>1 DEF Kept, Blamed, Durable, Database, DistinctTargets, QuorumFits,
                PolicyFor, Recorded
  <2>4. epoch' \in Nat /\ epoch <= epoch' /\ query' = query /\ store' = store
    BY <2>1 DEF FailInv, AnswerInv, QInv, IInv, TypeOK
  <2> QED BY <2>2, <2>3, <2>4, ReadFrame DEF FailInv, AnswerInv
<1>3. CASE Works
  BY <1>3, WorksReads
<1>4. ASSUME NEW c \in Calls, BeginFails(c) \/ CommitFails(c)
      PROVE  UndoneInv' /\ AgeInv' /\ ReadInv'
  BY <1>4, BeginFailsReads, CommitFailsReads
<1>5. CASE Crash
  BY <1>5, CrashReads
<1>6. CASE /\ QNext /\ ~Works /\ ~Crash
           /\ \A c \in Calls : ~BeginFails(c) /\ ~CommitFails(c)
  <2>1. PICK q \in Queries :
          \/ \E p \in Principals : \E c \in Calls : GetRow(q, p, c)
          \/ \E p \in Principals, n \in 0..ListLimit : ListRows(q, p, n)
          \/ ListNone(q) \/ QueryStep(q) \/ QueryErrs(q)
    BY <1>6 DEF QNext, CallGoesOn, Works
  <2> QED BY <2>1, QueryReads
<1> QED BY <1>2, <1>3, <1>4, <1>5, <1>6

(* In the first run of the daemon job.get and job.list fail to validate a  *)
(* job only if a call settled it between their two locks, or if the job    *)
(* has two outcomes for one target, a quorum out of reach, or a call that  *)
(* failed: a job at rest is never refused, and no query sees the outcomes  *)
(* of a completion half written - whatever calls, failed statements,       *)
(* failed COMMITs and disconnects there are, also after the daemon's end.  *)
THEOREM TornOrBlamed == QSpec => []QueriesFailOnlyWhenTorn
<1>1. FailInv => QueriesFailOnlyWhenTorn
  BY DEF FailInv, ReadInv, Blamed, QueriesFailOnlyWhenTorn
<1>2. QSpec => []FailInv
  BY InitReads, StepReads, PTL DEF QSpec
<1> QED BY <1>1, <1>2, PTL
================================================================================
