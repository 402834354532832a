-------------------------- MODULE PublishJobsProofs --------------------------
(***************************************************************************)
(* Proofs about PublishJobs, for any number of calls, keys, targets,       *)
(* faults and principal-init runs.                                         *)
(*                                                                         *)
(* None of the properties is inductive alone.  The argument rests on what  *)
(* the place of a call says about the database (PhaseInv) and on what a    *)
(* writer in the middle of its statements may assume (WriteInv): a call    *)
(* that has not reached its INSERT has no row, so changing its request or  *)
(* its snapshots disturbs no recorded job; and a writer only ever updates  *)
(* a row that exists, so that an UPDATE never makes a job appear.          *)
(***************************************************************************)
EXTENDS PublishJobs, FiniteSetTheorems, FunctionTheorems, SequenceTheorems,
        TLAPS

(* The calls that hold a permit.                                           *)
ActiveCalls == {c \in Calls : pc[c] \in Active}

(* The semaphore: only finitely many calls hold a permit, whatever the     *)
(* number of calls.                                                        *)
PermitInv ==
  /\ IsFiniteSet(ActiveCalls)
  /\ permits \in Nat
  /\ PermitsAddUp

(* A writer between two statements.                                        *)
WriteInv ==
  \A w \in Writers : write[w].stage # "idle" =>
    /\ write[w].job \in Calls
    /\ write[w].status \in FinalStatus
    /\ Recorded(write[w].job)
    /\ write[w].stage = "insert" => write[w].rows # <<>>
    /\ w \in Calls => write[w].job = w /\ pc[w] = "completing"

TodoInv == \A p \in Procs : \A c \in store[p].todo : Recorded(c)

BeforeInsert == {"idle", "resolving", "lookup", "lookupRead", "insert"}
AfterInsert  == {"recordRow", "recordRead", "publishing", "completing",
                 "finalRow", "finalRead"}
Attempting   == {"recordRow", "recordRead", "publishing"}

(* What the place of a call says about its row.                            *)
PhaseInv ==
  \A c \in Calls :
    /\ pc[c] \in BeforeInsert => ~Recorded(c)
    /\ pc[c] \in AfterInsert => Recorded(c)
    /\ pc[c] \in Attempting =>
         snapshots[c] = target_snapshots_from_resolution(res[c])

IInv == /\ TypeOK /\ PermitInv /\ WriteInv /\ TodoInv /\ PhaseInv
        /\ OneJobPerKey /\ SnapshotBeforeContact

-----------------------------------------------------------------------------
(* FACTS ABOUT THE OPERATORS                                               *)

(* delivery_status always gives one of the final statuses.                 *)
LEMMA StatusType ==
  ASSUME NEW policy, NEW n, NEW outs
  PROVE  delivery_status(policy, n, outs) \in FinalStatus
BY DEF delivery_status, FinalStatus

(* last_error_for_status gives a known error, or none.                     *)
LEMMA ErrorType ==
  ASSUME NEW status
  PROVE  last_error_for_status(status) \in Errors
BY DEF last_error_for_status, Errors, None

(* Where the elements of the second part of a concatenation are.           *)
LEMMA ConcatRight ==
  ASSUME NEW S, NEW s \in Seq(S), NEW t \in Seq(S)
  PROVE  /\ s \o t \in Seq(S)
         /\ Len(s \o t) = Len(s) + Len(t)
         /\ \A i \in DOMAIN t : /\ Len(s) + i \in DOMAIN (s \o t)
                               /\ (s \o t)[Len(s) + i] = t[i]
<1>1. /\ s \o t \in Seq(S)
      /\ Len(s \o t) = Len(s) + Len(t)
      /\ \A i \in 1..Len(s) + Len(t) :
           (s \o t)[i] = IF i <= Len(s) THEN s[i] ELSE t[i - Len(s)]
  BY ConcatProperties
<1>2. Len(s) \in Nat /\ Len(t) \in Nat /\ DOMAIN t = 1..Len(t)
  OBVIOUS
<1>3. DOMAIN (s \o t) = 1..Len(s) + Len(t)
  BY <1>1
<1>4. ASSUME NEW i \in DOMAIN t
      PROVE  /\ Len(s) + i \in DOMAIN (s \o t)
             /\ (s \o t)[Len(s) + i] = t[i]
  <2>1. Len(s) + i \in 1..Len(s) + Len(t) /\ ~(Len(s) + i <= Len(s))
    BY <1>2
  <2>2. (Len(s) + i) - Len(s) = i
    BY <1>2
  <2> QED BY <1>1, <1>3, <2>1, <2>2
<1> QED BY <1>1, <1>4

(* A function on the places of a sequence is a sequence of the same length. *)
LEMMA MapType ==
  ASSUME NEW S, NEW T, NEW s \in Seq(S), NEW f \in [DOMAIN s -> T]
  PROVE  f \in Seq(T) /\ Len(f) = Len(s) /\ DOMAIN f = DOMAIN s
<1>1. Len(s) \in Nat /\ DOMAIN s = 1..Len(s)
  OBVIOUS
<1>2. f \in [1..Len(s) -> T]
  BY <1>1
<1>3. f \in Seq(T)
  BY <1>1, <1>2, SeqDef
<1>4. Len(f) \in Nat /\ DOMAIN f = 1..Len(f)
  BY <1>3
<1>5. DOMAIN f = 1..Len(s)
  BY <1>2
<1>6. Len(f) = Len(s)
  BY <1>1, <1>4, <1>5
<1> QED BY <1>1, <1>3, <1>5, <1>6

(* A snapshot is a sequence of outcomes that has one place for every       *)
(* outcome and one for every target of the resolution.                     *)
LEMMA SnapshotType ==
  ASSUME NEW r \in Resolution
  PROVE  /\ target_snapshots_from_resolution(r) \in Seq(Outcome)
         /\ Len(target_snapshots_from_resolution(r)) = target_count(r)
         /\ \A i \in DOMAIN r.targets :
              /\ Len(r.outcomes) + i \in
                   DOMAIN target_snapshots_from_resolution(r)
              /\ target_snapshots_from_resolution(r)[Len(r.outcomes) + i].target
                   = r.targets[i]
<1> DEFINE pending == [i \in DOMAIN r.targets |->
                         [target |-> r.targets[i], kind |-> "Retryable"]]
<1>1. r.targets \in Seq(Targets) /\ r.outcomes \in Seq(Outcome)
  BY DEF Resolution
<1>2. pending \in [DOMAIN r.targets -> Outcome]
  BY <1>1 DEF Outcome, Kinds
<1>3. \A i \in DOMAIN r.targets : pending[i].target = r.targets[i]
  OBVIOUS
<1>4. target_snapshots_from_resolution(r) = r.outcomes \o pending
  BY DEF target_snapshots_from_resolution
<1> HIDE DEF pending
<1>5. /\ pending \in Seq(Outcome)
      /\ Len(pending) = Len(r.targets)
      /\ DOMAIN pending = DOMAIN r.targets
  BY <1>1, <1>2, MapType
<1>6. /\ r.outcomes \o pending \in Seq(Outcome)
      /\ Len(r.outcomes \o pending) = Len(r.outcomes) + Len(pending)
      /\ \A i \in DOMAIN pending :
           /\ Len(r.outcomes) + i \in DOMAIN (r.outcomes \o pending)
           /\ (r.outcomes \o pending)[Len(r.outcomes) + i] = pending[i]
  <2> DEFINE s == r.outcomes
  <2>1. s \in Seq(Outcome) /\ pending \in Seq(Outcome)
    BY <1>1, <1>5
  <2> HIDE DEF s
  <2>2. /\ s \o pending \in Seq(Outcome)
        /\ Len(s \o pending) = Len(s) + Len(pending)
        /\ \A i \in DOMAIN pending :
             /\ Len(s) + i \in DOMAIN (s \o pending)
             /\ (s \o pending)[Len(s) + i] = pending[i]
    BY <2>1, ConcatRight, Zenon
  <2> QED BY <2>2, Zenon DEF s
<1>7. Len(r.targets) \in Nat /\ Len(r.outcomes) \in Nat
  BY <1>1
<1>8. Len(target_snapshots_from_resolution(r)) = target_count(r)
  <2>1. Len(target_snapshots_from_resolution(r)) =
          Len(r.outcomes) + Len(r.targets)
    BY <1>4, <1>5, <1>6, Zenon
  <2>2. \A a, b \in Nat : a + b = b + a
    OBVIOUS
  <2> QED BY <1>7, <2>1, <2>2, Zenon DEF target_count
<1> QED BY <1>3, <1>4, <1>5, <1>6, <1>8

(* The outcomes of an attempt are outcomes when every relay of the target  *)
(* set has a receipt.                                                      *)
LEMMA OutcomesType ==
  ASSUME NEW r \in Resolution, NEW receipts,
         \A x \in RelaySet(r) : receipts[x] \in Kinds
  PROVE  outcomes_from_receipts(r, receipts) \in Seq(Outcome)
<1> DEFINE outs == [i \in DOMAIN r.targets |->
                      [target |-> r.targets[i],
                       kind |-> receipts[RelayOf[r.targets[i]]]]]
<1>1. r.targets \in Seq(Targets) /\ r.outcomes \in Seq(Outcome)
  BY DEF Resolution
<1>2. outs \in [DOMAIN r.targets -> Outcome]
  BY <1>1 DEF Outcome, RelaySet
<1>3. outcomes_from_receipts(r, receipts) = r.outcomes \o outs
  BY DEF outcomes_from_receipts
<1> HIDE DEF outs
<1>4. outs \in Seq(Outcome)
  BY <1>1, <1>2, MapType
<1> QED BY <1>1, <1>3, <1>4, ConcatRight

-----------------------------------------------------------------------------
(* TYPES                                                                   *)

(* The empty records have the types of the places they fill.               *)
LEMMA EmptyTypes ==
  /\ NoRes \in Resolution
  /\ NoRow \in Row
  /\ NoSeen \in SeenRow
  /\ NoWrite \in Writing
BY DEF NoRes, Resolution, NoRow, Row, NoSeen, SeenRow, NoWrite, Writing,
       Errors, None

(* The places a call can be in, by name.                                   *)
LEMMA PlaceType ==
  {"idle", "resolving", "publishing", "lookup", "lookupRead", "insert",
   "recordRow", "recordRead", "completing", "finalRow", "finalRead",
   "refused", "conflict", "deduplicated", "completed", "failed", "dropped",
   "lost"} \subseteq Places
BY DEF Places, Active, DbSteps, Awaiting, Ended

(* The initial state has the right types.                                  *)
LEMMA InitType == Init => TypeOK
<1>1. [state |-> "closed", todo |-> {}] \in OpenState
  BY DEF OpenState
<1> QED
  BY <1>1, EmptyTypes, PlaceType, PublishAssumption
  DEF Init, TypeOK, Request, NoRequest

(* A call that ends is in one of the places where calls end.               *)
LEMMA EndType ==
  ASSUME TypeOK, NEW c \in Calls, NEW how \in Ended, End(c, how)
  PROVE  /\ pc' \in [Calls -> Places]
         /\ res' \in [Calls -> Resolution]
<1>1. how \in Places
  BY DEF Places
<1> QED BY <1>1, EmptyTypes DEF TypeOK, End

(* Handing a final status to complete_publish_job keeps the types.         *)
LEMMA CompleteType ==
  ASSUME TypeOK, NEW c \in Calls, NEW status \in FinalStatus,
         NEW error \in Errors, NEW rows \in Seq(Outcome),
         Complete(c, status, error, rows)
  PROVE  /\ pc' \in [Calls -> Places]
         /\ write' \in [Writers -> Writing]
<1>1. [stage |-> "update", job |-> c, status |-> status, lastError |-> error,
       rows |-> rows] \in Writing
  BY DEF Writing
<1> QED BY <1>1, PlaceType DEF TypeOK, Complete

(* So does going on to the next row of the outcomes.                       *)
LEMMA ContinueType ==
  ASSUME TypeOK, NEW w \in Writers, NEW rest \in Seq(Outcome),
         ContinueWith(w, rest)
  PROVE  /\ pc' \in [Calls -> Places]
         /\ write' \in [Writers -> Writing]
<1>1. [write[w] EXCEPT !.stage = "insert", !.rows = rest] \in Writing
  BY DEF TypeOK, Writing
<1> QED BY <1>1, EmptyTypes, PlaceType DEF TypeOK, ContinueWith

(* No step leaves the types, apart from the semaphore, whose bound depends *)
(* on the number of calls in progress.                                     *)
LEMMA TypeStep ==
  ASSUME TypeOK, WriteInv, permits' \in 0..MaxConcurrent, Next
  PROVE  TypeOK'
<1> USE DEF TypeOK, dbVars, histVars
<1>1. ASSUME NEW c \in Calls, NEW q \in Request, Admit(c, q)
      PROVE  TypeOK'
  BY <1>1, PlaceType DEF Admit
<1>2. ASSUME NEW c \in Calls, Refuse(c) PROVE TypeOK'
  BY <1>2, PlaceType DEF Refuse
<1>3. ASSUME NEW c \in Calls, NEW r \in Resolutions, Resolve(c, r)
      PROVE  TypeOK'
  <2>1. r \in Resolution
    BY PublishAssumption
  <2>2. CASE End(c, "failed")
    BY <1>3, <2>2, EndType DEF Resolve, Ended
  <2>3. CASE /\ res' = [res EXCEPT ![c] = r]
             /\ pc' = [pc EXCEPT ![c] =
                         IF req[c].key = None THEN "insert" ELSE "lookup"]
    BY <1>3, <2>1, <2>3, PlaceType DEF Resolve
  <2> QED BY <1>3, <2>2, <2>3 DEF Resolve
<1>4. ASSUME NEW c \in Calls, LookupKey(c) PROVE TypeOK'
  <2>1. \A d \in Calls : [job |-> d, row |-> jobs[d]] \in SeenRow
    BY DEF SeenRow
  <2>2. /\ pc' \in [Calls -> Places]
        /\ seen' \in [Calls -> SeenRow]
    BY <1>4, <2>1, PlaceType DEF LookupKey
  <2> QED BY <1>4, <2>2 DEF LookupKey
<1>5. ASSUME NEW c \in Calls, LookupReadOutcomes(c) PROVE TypeOK'
  <2>1. PICK how \in {"failed", "conflict", "deduplicated"} : End(c, how)
    BY <1>5 DEF LookupReadOutcomes
  <2>2. how \in Ended
    BY <2>1 DEF Ended
  <2> QED BY <1>5, <2>1, <2>2, EndType, EmptyTypes DEF LookupReadOutcomes
<1>6. ASSUME NEW c \in Calls, InsertJob(c) PROVE TypeOK'
  <2>1. CASE KeyTaken(c)
    BY <1>6, <2>1, EndType DEF InsertJob, Ended
  <2>2. CASE ~KeyTaken(c)
    <3>1. /\ target_snapshots_from_resolution(res[c]) \in Seq(Outcome)
          /\ target_count(res[c]) \in Nat
      BY SnapshotType
    <3>2. [status |-> "Publishing", count |-> target_count(res[c]),
           lastError |-> None] \in Row
      BY <3>1 DEF Row, Errors
    <3>3. /\ jobs' \in [Calls -> Row]
          /\ snapshots' \in [Calls -> Seq(Outcome)]
          /\ pc' \in [Calls -> Places]
      BY <1>6, <2>2, <3>1, <3>2, PlaceType DEF InsertJob
    <3> QED BY <1>6, <2>2, <3>3 DEF InsertJob
  <2> QED BY <2>1, <2>2
<1>7. ASSUME NEW c \in Calls, ReadRow(c) PROVE TypeOK'
  <2>1. [job |-> c, row |-> jobs[c]] \in SeenRow
    BY DEF SeenRow
  <2> QED BY <1>7, <2>1, PlaceType DEF ReadRow
<1>8. ASSUME NEW c \in Calls, RecordReadOutcomes(c) PROVE TypeOK'
  <2>1. CASE End(c, "failed") /\ UNCHANGED write
    BY <1>8, <2>1, EndType, EmptyTypes DEF RecordReadOutcomes, Ended
  <2>2. CASE Execute(c) /\ UNCHANGED <<res, permits>>
    <3>1. CASE pc' = [pc EXCEPT ![c] = "publishing"] /\ UNCHANGED write
      BY <1>8, <2>2, <3>1, PlaceType, EmptyTypes DEF RecordReadOutcomes
    <3>2. ASSUME NEW status \in FinalStatus, NEW error \in Errors,
                 Complete(c, status, error, res[c].outcomes)
          PROVE  TypeOK'
      <4>1. res[c].outcomes \in Seq(Outcome)
        BY DEF Resolution
      <4> QED
        BY <1>8, <2>2, <3>2, <4>1, CompleteType, EmptyTypes
        DEF RecordReadOutcomes
    <3>3. /\ "Rejected" \in FinalStatus
          /\ "delivery_quorum_exceeds_target_count" \in Errors
      BY DEF FinalStatus, Errors
    <3> QED BY <2>2, <3>1, <3>2, <3>3, StatusType, ErrorType DEF Execute
  <2> QED BY <1>8, <2>1, <2>2 DEF RecordReadOutcomes
<1>9. ASSUME NEW c \in Calls, NEW r \in Relays, NEW kind \in ReplyKinds,
             RelayReplies(c, r, kind)
      PROVE  TypeOK'
  BY <1>9, PublishAssumption DEF RelayReplies
<1>10. ASSUME NEW c \in Calls, NEW receipts, CompleteWith(c, receipts),
              \A x \in RelaySet(res[c]) : receipts[x] \in Kinds,
              UNCHANGED <<dbVars, req, res, replies, seen, permits, store,
                          histVars>>
       PROVE  TypeOK'
  <2>1. outcomes_from_receipts(res[c], receipts) \in Seq(Outcome)
    BY <1>10, OutcomesType
  <2> QED BY <1>10, <2>1, CompleteType, StatusType, ErrorType DEF CompleteWith
<1>11. ASSUME NEW c \in Calls, PublishDone(c) PROVE TypeOK'
  <2>1. \A x \in RelaySet(res[c]) : replies[c][x] \in Kinds
    BY <1>11, TargetAssumption DEF PublishDone, RelaySet, Resolution
  <2> QED BY <1>10, <1>11, <2>1 DEF PublishDone
<1>12. ASSUME NEW c \in Calls, PublishAborted(c) PROVE TypeOK'
  <2>1. \A x \in RelaySet(res[c]) : aborted_receipts(res[c])[x] \in Kinds
    BY DEF aborted_receipts, Kinds
  <2> QED BY <1>10, <1>12, <2>1 DEF PublishAborted
<1>13. ASSUME NEW w \in Writers, UpdateJob(w) PROVE TypeOK'
  <2>1. write[w] \in Writing /\ write[w].status \in FinalStatus
    BY <1>13 DEF UpdateJob, WriteInv
  <2>2. write[w].rows \in Seq(Outcome) /\ write[w].lastError \in Errors
    BY <2>1 DEF Writing
  <2>3. Len(write[w].rows) \in Nat
    BY <2>2
  <2>4. [status |-> write[w].status, count |-> Len(write[w].rows),
         lastError |-> write[w].lastError] \in Row
    BY <2>1, <2>2, <2>3 DEF Row
  <2>5. [write[w] EXCEPT !.stage = "delete"] \in Writing
    BY <2>1 DEF Writing
  <2>6. /\ jobs' \in [Calls -> Row]
        /\ write' \in [Writers -> Writing]
    BY <1>13, <2>4, <2>5 DEF UpdateJob
  <2> QED BY <1>13, <2>6 DEF UpdateJob
<1>14. ASSUME NEW w \in Writers, DeleteResults(w) PROVE TypeOK'
  <2>1. write[w].rows \in Seq(Outcome)
    BY DEF Writing
  <2> QED BY <1>14, <2>1, ContinueType DEF DeleteResults
<1>15. ASSUME NEW w \in Writers, InsertResult(w) PROVE TypeOK'
  <2>1. /\ write[w].rows \in Seq(Outcome)
        /\ write[w].rows # <<>>
    BY <1>15 DEF InsertResult, WriteInv, Writing
  <2>2. Head(write[w].rows) \in Outcome /\ Tail(write[w].rows) \in Seq(Outcome)
    BY <2>1
  <2>3. results' \in [Calls -> SUBSET Outcome]
    BY <1>15, <2>2 DEF InsertResult
  <2> QED BY <1>15, <2>2, <2>3, ContinueType DEF InsertResult
<1>16. ASSUME NEW c \in Calls, FinalReadOutcomes(c) PROVE TypeOK'
  <2>1. PICK how \in {"completed", "failed"} : End(c, how)
    BY <1>16 DEF FinalReadOutcomes
  <2>2. how \in Ended
    BY <2>1 DEF Ended
  <2> QED BY <1>16, <2>1, <2>2, EndType, EmptyTypes DEF FinalReadOutcomes
<1>17. ASSUME NEW p \in Procs, OpenStore(p) PROVE TypeOK'
  <2>1. [store[p] EXCEPT !.state = "selecting"] \in OpenState
    BY DEF OpenState
  <2> QED BY <1>17, <2>1 DEF OpenStore
<1>18. ASSUME NEW p \in Procs, SelectInterrupted(p) PROVE TypeOK'
  <2>1. [state |-> "recovering", todo |-> Interrupted] \in OpenState
    BY DEF OpenState, Interrupted
  <2> QED BY <1>18, <2>1 DEF SelectInterrupted
<1>19. ASSUME NEW p \in Procs, NEW c \in Calls, RecoverJob(p, c)
       PROVE  TypeOK'
  <2>1. RecoveredStatus(c) \in FinalStatus
    BY StatusType DEF RecoveredStatus, FinalStatus
  <2>2. RecoveredError(c) \in Errors
    BY ErrorType DEF RecoveredError, Errors
  <2>3. /\ [stage |-> "update", job |-> c, status |-> RecoveredStatus(c),
            lastError |-> RecoveredError(c), rows |-> snapshots[c]] \in Writing
        /\ [store[p] EXCEPT !.todo = @ \ {c}] \in OpenState
    BY <2>1, <2>2 DEF Writing, OpenState
  <2> QED BY <1>19, <2>3 DEF RecoverJob
<1>20. \A st \in {"closed", "open"} : [state |-> st, todo |-> {}] \in OpenState
  BY DEF OpenState
<1>21. ASSUME NEW p \in Procs, FinishOpen(p) PROVE TypeOK'
  BY <1>20, <1>21 DEF FinishOpen
<1>22. CASE CrashDaemon
  <2>1. pc' \in [Calls -> Places]
    BY <1>22, PlaceType DEF CrashDaemon, DaemonGone
  <2>2. /\ write' \in [Writers -> Writing]
        /\ store' \in [Procs -> OpenState]
    BY <1>20, <1>22, EmptyTypes DEF CrashDaemon, DaemonGone
  <2> QED BY <1>22, <2>1, <2>2, EmptyTypes DEF CrashDaemon, DaemonGone, Fault
<1>23. CASE CrashCli
  <2>1. /\ write' \in [Writers -> Writing]
        /\ store' \in [Procs -> OpenState]
    BY <1>20, <1>23, EmptyTypes DEF CrashCli
  <2> QED BY <1>23, <2>1 DEF CrashCli, Fault
<1>24. ASSUME NEW c \in Calls, Disconnect(c) PROVE TypeOK'
  BY <1>24, EndType DEF Disconnect, Fault, Ended
<1>25. ASSUME NEW c \in Calls, StatementFails(c) PROVE TypeOK'
  <2>1. /\ write' \in [Writers -> Writing]
        /\ seen' \in [Calls -> SeenRow]
    BY <1>25, EmptyTypes DEF StatementFails
  <2> QED BY <1>25, <2>1, EndType DEF StatementFails, Fault, Ended
<1> QED
  BY <1>1, <1>2, <1>3, <1>4, <1>5, <1>6, <1>7, <1>8, <1>9, <1>11, <1>12,
     <1>13, <1>14, <1>15, <1>16, <1>17, <1>18, <1>19, <1>21, <1>22, <1>23,
     <1>24, <1>25, Zenon
  DEF Next, CallStep, RecoveryStep, Environment, Writers

-----------------------------------------------------------------------------
(* THE SEMAPHORE                                                           *)

(* A call that moves on without ending keeps its permit.                   *)
LEMMA MoveKeepsPermit ==
  ASSUME TypeOK, PermitInv, NEW c \in Calls, NEW place \in Active,
         pc[c] \in Active, pc' = [pc EXCEPT ![c] = place], UNCHANGED permits
  PROVE  PermitInv'
<1>1. ActiveCalls' = ActiveCalls
  BY DEF ActiveCalls, TypeOK
<1> QED BY <1>1 DEF PermitInv, PermitsAddUp, ActiveCalls

(* A call that ends gives back exactly its own permit.                     *)
LEMMA EndReturnsPermit ==
  ASSUME TypeOK, PermitInv, NEW c \in Calls, NEW how \in Ended,
         pc[c] \in Active, End(c, how)
  PROVE  PermitInv'
<1>1. how \notin Active
  BY DEF Active, DbSteps, Awaiting, Ended
<1>2. /\ c \in ActiveCalls
      /\ ActiveCalls' = ActiveCalls \ {c}
  BY <1>1 DEF ActiveCalls, TypeOK, End
<1>3. /\ IsFiniteSet(ActiveCalls')
      /\ Cardinality(ActiveCalls') = Cardinality(ActiveCalls) - 1
  BY <1>2, FS_RemoveElement DEF PermitInv
<1>4. Cardinality(ActiveCalls) \in Nat
  BY FS_CardinalityType DEF PermitInv
<1>5. permits \in Nat /\ permits' = permits + 1
  BY DEF PermitInv, End
<1>6. permits + Cardinality(ActiveCalls) = MaxConcurrent
  BY DEF PermitInv, PermitsAddUp, ActiveCalls
<1>7. permits' \in Nat /\ permits' + Cardinality(ActiveCalls') = MaxConcurrent
  BY <1>3, <1>4, <1>5, <1>6
<1> QED BY <1>3, <1>7 DEF PermitInv, PermitsAddUp, ActiveCalls

(* A call that is admitted takes one.                                      *)
LEMMA AdmitTakesPermit ==
  ASSUME TypeOK, PermitInv, NEW c \in Calls, NEW q, Admit(c, q)
  PROVE  PermitInv'
<1>1. "idle" \notin Active /\ "resolving" \in Active
  BY DEF Active, DbSteps, Awaiting
<1>2. /\ c \notin ActiveCalls
      /\ ActiveCalls' = ActiveCalls \cup {c}
  BY <1>1 DEF ActiveCalls, TypeOK, Admit
<1>3. /\ IsFiniteSet(ActiveCalls')
      /\ Cardinality(ActiveCalls') = Cardinality(ActiveCalls) + 1
  BY <1>2, FS_AddElement DEF PermitInv
<1>4. Cardinality(ActiveCalls) \in Nat
  BY FS_CardinalityType DEF PermitInv
<1>5. permits \in Nat /\ permits > 0 /\ permits' = permits - 1
  BY DEF PermitInv, Admit
<1>6. permits + Cardinality(ActiveCalls) = MaxConcurrent
  BY DEF PermitInv, PermitsAddUp, ActiveCalls
<1>7. permits' \in Nat /\ permits' + Cardinality(ActiveCalls') = MaxConcurrent
  BY <1>3, <1>4, <1>5, <1>6
<1> QED BY <1>3, <1>7 DEF PermitInv, PermitsAddUp, ActiveCalls

(* Permits and active calls add up, so the semaphore is within its bounds  *)
(* after the step too.                                                     *)
LEMMA PermitBounds ==
  ASSUME PermitInv'
  PROVE  permits' \in 0..MaxConcurrent
<1>1. Cardinality(ActiveCalls') \in Nat
  BY FS_CardinalityType DEF PermitInv
<1>2. permits' \in Nat /\ permits' + Cardinality(ActiveCalls') = MaxConcurrent
  BY DEF PermitInv, PermitsAddUp, ActiveCalls
<1>3. MaxConcurrent \in Nat
  BY PublishAssumption
<1> QED BY <1>1, <1>2, <1>3

(* Every step keeps the permits and the calls in progress in balance.      *)
LEMMA PermitStep ==
  ASSUME TypeOK, WriteInv, PermitInv, Next
  PROVE  PermitInv'
<1> USE DEF dbVars, histVars
<1>0. ASSUME UNCHANGED <<pc, permits>> PROVE PermitInv'
  BY <1>0 DEF PermitInv, PermitsAddUp, ActiveCalls
<1>1. ASSUME NEW c \in Calls, NEW q \in Request, Admit(c, q)
      PROVE  PermitInv'
  BY <1>1, AdmitTakesPermit
<1>2. ASSUME NEW c \in Calls, Refuse(c) PROVE PermitInv'
  <2>1. "idle" \notin Active /\ "refused" \notin Active
    BY DEF Active, DbSteps, Awaiting
  <2>2. ActiveCalls' = ActiveCalls /\ permits' = permits
    BY <1>2, <2>1 DEF Refuse, ActiveCalls, TypeOK
  <2> QED BY <2>2 DEF PermitInv, PermitsAddUp, ActiveCalls
<1>a. /\ DbSteps \subseteq Active /\ Awaiting \subseteq Active
      /\ {"resolving", "publishing", "lookup", "lookupRead", "insert",
          "recordRow", "recordRead", "completing", "finalRow", "finalRead"}
           \subseteq Active
  BY DEF Active, DbSteps, Awaiting
<1>b. {"conflict", "deduplicated", "completed", "failed", "dropped", "lost"}
        \subseteq Ended
  BY DEF Ended
<1>3. ASSUME NEW c \in Calls, NEW r \in Resolutions, Resolve(c, r)
      PROVE  PermitInv'
  BY <1>3, <1>a, <1>b, MoveKeepsPermit, EndReturnsPermit DEF Resolve
<1>4. ASSUME NEW c \in Calls, LookupKey(c) PROVE PermitInv'
  BY <1>4, <1>a, MoveKeepsPermit DEF LookupKey
<1>5. ASSUME NEW c \in Calls, LookupReadOutcomes(c) PROVE PermitInv'
  BY <1>5, <1>a, <1>b, EndReturnsPermit DEF LookupReadOutcomes
<1>6. ASSUME NEW c \in Calls, InsertJob(c) PROVE PermitInv'
  BY <1>6, <1>a, <1>b, MoveKeepsPermit, EndReturnsPermit DEF InsertJob
<1>7. ASSUME NEW c \in Calls, ReadRow(c) PROVE PermitInv'
  BY <1>7, <1>a, MoveKeepsPermit DEF ReadRow
<1>8. ASSUME NEW c \in Calls, RecordReadOutcomes(c) PROVE PermitInv'
  <2>1. CASE End(c, "failed")
    BY <1>8, <2>1, <1>a, <1>b, EndReturnsPermit DEF RecordReadOutcomes
  <2>2. CASE Execute(c) /\ UNCHANGED <<res, permits>>
    BY <1>8, <2>2, <1>a, MoveKeepsPermit
    DEF RecordReadOutcomes, Execute, Complete
  <2> QED BY <1>8, <2>1, <2>2 DEF RecordReadOutcomes
<1>9. ASSUME NEW c \in Calls, PublishDone(c) \/ PublishAborted(c)
      PROVE  PermitInv'
  BY <1>9, <1>a, MoveKeepsPermit
  DEF PublishDone, PublishAborted, CompleteWith, Complete
<1>10. ASSUME NEW w \in Writers, NEW rest, ContinueWith(w, rest),
              write[w].stage # "idle", UNCHANGED permits
       PROVE  PermitInv'
  BY <1>0, <1>10, <1>a, MoveKeepsPermit DEF ContinueWith, WriteInv
<1>11. ASSUME NEW w \in Writers, DeleteResults(w) \/ InsertResult(w)
       PROVE  PermitInv'
  BY <1>10, <1>11 DEF DeleteResults, InsertResult
<1>12. ASSUME NEW c \in Calls, FinalReadOutcomes(c) PROVE PermitInv'
  BY <1>12, <1>a, <1>b, EndReturnsPermit DEF FinalReadOutcomes
<1>13. CASE CrashDaemon
  <2>1. "lost" \notin Active
    BY DEF Active, DbSteps, Awaiting
  <2>2. ActiveCalls' = {} /\ permits' = MaxConcurrent
    BY <1>13, <2>1 DEF CrashDaemon, DaemonGone, ActiveCalls
  <2>3. IsFiniteSet(ActiveCalls') /\ Cardinality(ActiveCalls') = 0
    BY <2>2, FS_EmptySet
  <2> QED
    BY <2>2, <2>3, PublishAssumption DEF PermitInv, PermitsAddUp, ActiveCalls
<1>14. ASSUME NEW c \in Calls, Disconnect(c) \/ StatementFails(c)
       PROVE  PermitInv'
  BY <1>14, <1>a, <1>b, EndReturnsPermit DEF Disconnect, StatementFails
<1>15. ASSUME NEW c \in Calls, NEW r \in Relays, NEW kind \in ReplyKinds,
              RelayReplies(c, r, kind)
       PROVE  PermitInv'
  BY <1>0, <1>15 DEF RelayReplies
<1>16. ASSUME NEW w \in Writers, UpdateJob(w) PROVE PermitInv'
  BY <1>0, <1>16 DEF UpdateJob
<1>17. ASSUME NEW p \in Procs, \/ OpenStore(p) \/ SelectInterrupted(p)
                               \/ FinishOpen(p)
                               \/ \E c \in Calls : RecoverJob(p, c)
       PROVE  PermitInv'
  BY <1>0, <1>17 DEF OpenStore, SelectInterrupted, FinishOpen, RecoverJob
<1>18. CASE CrashCli
  BY <1>0, <1>18 DEF CrashCli
<1> QED
  BY <1>1, <1>2, <1>3, <1>4, <1>5, <1>6, <1>7, <1>8, <1>9, <1>11, <1>12,
     <1>13, <1>14, <1>15, <1>16, <1>17, <1>18, Zenon
  DEF Next, CallStep, RecoveryStep, Environment, Writers

-----------------------------------------------------------------------------
(* ROWS AND THEIR WRITERS                                                  *)

(* The only writers of the jobs table are InsertJob and UpdateJob; what    *)
(* they do to the row of a recorded job leaves it recorded.                *)
LEMMA InsertRecords ==
  ASSUME TypeOK, NEW c \in Calls, InsertJob(c)
  PROVE  /\ \A d \in Calls : Recorded(d) => Recorded(d)'
         /\ \A d \in Calls \ {c} : jobs'[d] = jobs[d]
         /\ jobs' = jobs \/ Recorded(c)'
<1>1. CASE KeyTaken(c)
  BY <1>1 DEF InsertJob, Recorded
<1>2. CASE ~KeyTaken(c)
  <2>1. jobs' = [jobs EXCEPT ![c] = [status |-> "Publishing",
                                     count |-> target_count(res[c]),
                                     lastError |-> None]]
    BY <1>2 DEF InsertJob
  <2>2. jobs'[c].status = "Publishing"
    BY <2>1 DEF TypeOK
  <2>3. \A d \in Calls \ {c} : jobs'[d] = jobs[d]
    BY <2>1 DEF TypeOK
  <2> QED BY <2>2, <2>3 DEF Recorded
<1> QED BY <1>1, <1>2

(* An UPDATE neither creates nor removes a row.                            *)
LEMMA UpdateRecords ==
  ASSUME TypeOK, WriteInv, NEW w \in Writers, UpdateJob(w)
  PROVE  \A d \in Calls : Recorded(d)' <=> Recorded(d)
<1>1. /\ write[w].job \in Calls
      /\ write[w].status \in FinalStatus
      /\ Recorded(write[w].job)
  BY DEF UpdateJob, WriteInv
<1>2. write[w].status # "Absent"
  BY <1>1 DEF FinalStatus
<1>3. \A d \in Calls : jobs'[d] = IF d = write[w].job
                                  THEN [status |-> write[w].status,
                                        count |-> Len(write[w].rows),
                                        lastError |-> write[w].lastError]
                                  ELSE jobs[d]
  BY <1>1 DEF UpdateJob, TypeOK
<1> QED BY <1>1, <1>2, <1>3 DEF Recorded

(* Once recorded, a job stays in the database.                             *)
LEMMA RecordedStays ==
  ASSUME TypeOK, WriteInv, Next
  PROVE  \A d \in Calls : Recorded(d) => Recorded(d)'
<1> USE DEF dbVars
<1>1. ASSUME NEW c \in Calls, InsertJob(c)
      PROVE  \A d \in Calls : Recorded(d) => Recorded(d)'
  BY <1>1, InsertRecords
<1>2. ASSUME NEW w \in Writers, UpdateJob(w)
      PROVE  \A d \in Calls : Recorded(d) => Recorded(d)'
  BY <1>2, UpdateRecords
<1>3. CASE jobs' = jobs
  BY <1>3 DEF Recorded
<1>4. \/ jobs' = jobs
      \/ \E c \in Calls : InsertJob(c)
      \/ \E w \in Writers : UpdateJob(w)
  BY DEF Next, CallStep, RecoveryStep, Environment, Writers,
         Resolve, LookupKey, LookupReadOutcomes, ReadRow, RecordReadOutcomes,
         PublishDone, PublishAborted, DeleteResults, InsertResult,
         FinalReadOutcomes, SelectInterrupted, RecoverJob, FinishOpen, Admit,
         Refuse, RelayReplies, OpenStore, CrashDaemon, DaemonGone, CrashCli, Disconnect,
         StatementFails
<1> QED BY <1>1, <1>2, <1>3, <1>4

(* Starting to settle a recorded job.                                      *)
LEMMA CompleteWrites ==
  ASSUME TypeOK, WriteInv, Next, NEW c \in Calls,
         NEW status \in FinalStatus, NEW error, NEW rows,
         Recorded(c), Complete(c, status, error, rows)
  PROVE  WriteInv'
<1>1. \A w \in Writers : write'[w] =
        IF w = c THEN [stage |-> "update", job |-> c, status |-> status,
                       lastError |-> error, rows |-> rows]
                 ELSE write[w]
  BY DEF Complete, TypeOK, Writers
<1>2. pc' = [pc EXCEPT ![c] = "completing"]
  BY DEF Complete
<1> QED BY <1>1, <1>2, RecordedStays DEF WriteInv, TypeOK, Writers

(* Between its statements a writer can rely on the row it is settling.     *)
LEMMA WriteStep ==
  ASSUME TypeOK, WriteInv, TodoInv, PhaseInv, Next
  PROVE  WriteInv'
<1> USE DEF dbVars, histVars
<1>0. ASSUME UNCHANGED write, NEW c \in Calls, pc[c] # "completing",
             \A d \in Calls \ {c} : pc'[d] = pc[d]
      PROVE  WriteInv'
  BY <1>0, RecordedStays DEF WriteInv
<1>1. CASE UNCHANGED <<write, pc>>
  BY <1>1, RecordedStays DEF WriteInv
<1>2. ASSUME NEW c \in Calls,
             \/ \E q \in Request : Admit(c, q)
             \/ Refuse(c)
             \/ \E r \in Resolutions : Resolve(c, r)
             \/ LookupKey(c)
             \/ LookupReadOutcomes(c)
             \/ InsertJob(c)
             \/ ReadRow(c)
             \/ FinalReadOutcomes(c)
             \/ Disconnect(c)
      PROVE  WriteInv'
  <2>1. /\ UNCHANGED write
        /\ pc[c] # "completing"
        /\ \E place : pc' = [pc EXCEPT ![c] = place]
    BY <1>2 DEF Admit, Refuse, Resolve, LookupKey, LookupReadOutcomes,
                InsertJob, ReadRow, FinalReadOutcomes, Disconnect, Awaiting,
                End
  <2>2. \A d \in Calls \ {c} : pc'[d] = pc[d]
    BY <2>1 DEF TypeOK
  <2> QED BY <1>0, <2>1, <2>2
<1>3. ASSUME NEW c \in Calls, RecordReadOutcomes(c) PROVE WriteInv'
  <2>1. CASE End(c, "failed") /\ UNCHANGED write
    <3>1. pc[c] # "completing" /\ \A d \in Calls \ {c} : pc'[d] = pc[d]
      BY <1>3, <2>1 DEF RecordReadOutcomes, End, TypeOK
    <3> QED BY <1>0, <2>1, <3>1
  <2>2. CASE Execute(c)
    <3>1. CASE pc' = [pc EXCEPT ![c] = "publishing"] /\ UNCHANGED write
      <4>1. pc[c] # "completing" /\ \A d \in Calls \ {c} : pc'[d] = pc[d]
        BY <1>3, <3>1 DEF RecordReadOutcomes, TypeOK
      <4> QED BY <1>0, <3>1, <4>1
    <3>2. Recorded(c)
      BY <1>3 DEF RecordReadOutcomes, PhaseInv, AfterInsert
    <3>3. ASSUME NEW status \in FinalStatus, NEW error, NEW rows,
                 Complete(c, status, error, rows)
          PROVE  WriteInv'
      BY <3>2, <3>3, CompleteWrites
    <3>4. "Rejected" \in FinalStatus
      BY DEF FinalStatus
    <3> QED BY <2>2, <3>1, <3>3, <3>4, StatusType DEF Execute
  <2> QED BY <1>3, <2>1, <2>2 DEF RecordReadOutcomes
<1>4. ASSUME NEW c \in Calls, PublishDone(c) \/ PublishAborted(c)
      PROVE  WriteInv'
  <2>1. Recorded(c)
    BY <1>4 DEF PublishDone, PublishAborted, PhaseInv, AfterInsert
  <2> QED
    BY <1>4, <2>1, StatusType, CompleteWrites
    DEF PublishDone, PublishAborted, CompleteWith
<1>5. ASSUME NEW w \in Writers, UpdateJob(w) PROVE WriteInv'
  <2>1. \A v \in Writers \ {w} : write'[v] = write[v]
    BY <1>5 DEF UpdateJob, TypeOK
  <2>2. /\ write'[w].job = write[w].job /\ write'[w].status = write[w].status
        /\ write'[w].stage = "delete"
    BY <1>5 DEF UpdateJob, TypeOK, Writing
  <2> QED BY <1>5, <2>1, <2>2, RecordedStays DEF UpdateJob, WriteInv
<1>6. ASSUME NEW w \in Writers, NEW rest, ContinueWith(w, rest),
             write[w].stage # "idle"
      PROVE  WriteInv'
  <2>1. \A v \in Writers \ {w} : write'[v] = write[v]
    BY <1>6 DEF ContinueWith, TypeOK
  <2>2. \A v \in Calls \ {w} : pc'[v] = pc[v]
    BY <1>6 DEF ContinueWith, TypeOK
  <2>3. CASE rest = <<>>
    <3>1. write'[w].stage = "idle"
      BY <1>6, <2>3 DEF ContinueWith, TypeOK, NoWrite
    <3> QED BY <2>1, <2>2, <3>1, RecordedStays DEF WriteInv
  <2>4. CASE rest # <<>>
    <3>1. /\ write'[w].job = write[w].job /\ write'[w].status = write[w].status
          /\ write'[w].rows = rest
      BY <1>6, <2>4 DEF ContinueWith, TypeOK, Writing
    <3>2. pc' = pc
      BY <1>6, <2>4 DEF ContinueWith
    <3> QED BY <1>6, <2>1, <2>4, <3>1, <3>2, RecordedStays DEF WriteInv
  <2> QED BY <2>3, <2>4
<1>7. ASSUME NEW w \in Writers, DeleteResults(w) \/ InsertResult(w)
      PROVE  WriteInv'
  BY <1>6, <1>7 DEF DeleteResults, InsertResult
<1>8. ASSUME NEW p \in Procs, NEW c \in Calls, RecoverJob(p, c)
      PROVE  WriteInv'
  <2>1. p \in Writers /\ p \notin Calls
    BY PublishAssumption DEF Writers, Procs
  <2>2. RecoveredStatus(c) \in FinalStatus
    BY StatusType DEF RecoveredStatus, FinalStatus
  <2>3. Recorded(c)
    BY <1>8 DEF RecoverJob, TodoInv
  <2>4. \A v \in Writers : write'[v] =
          IF v = p THEN [stage |-> "update", job |-> c,
                         status |-> RecoveredStatus(c),
                         lastError |-> RecoveredError(c),
                         rows |-> snapshots[c]]
                   ELSE write[v]
    BY <1>8, <2>1 DEF RecoverJob, TypeOK
  <2>5. pc' = pc
    BY <1>8 DEF RecoverJob
  <2> QED BY <2>1, <2>2, <2>3, <2>4, <2>5, RecordedStays DEF WriteInv
<1>9. CASE CrashDaemon
  <2>1. "cli" \notin Calls
    BY PublishAssumption
  <2>2. \A w \in Writers : write'[w].stage # "idle" =>
                             w = "cli" /\ write'[w] = write[w]
    BY <1>9 DEF CrashDaemon, DaemonGone, NoWrite
  <2> QED BY <2>1, <2>2, RecordedStays DEF WriteInv
<1>10. CASE CrashCli
  <2>1. \A w \in Writers : write'[w].stage # "idle" => write'[w] = write[w]
    BY <1>10 DEF CrashCli, NoWrite, TypeOK
  <2>2. pc' = pc
    BY <1>10 DEF CrashCli
  <2> QED BY <2>1, <2>2, RecordedStays DEF WriteInv
<1>11. ASSUME NEW c \in Calls, StatementFails(c) PROVE WriteInv'
  <2>1. \A w \in Writers : write'[w].stage # "idle" =>
                             w # c /\ write'[w] = write[w]
    BY <1>11 DEF StatementFails, NoWrite, TypeOK
  <2>2. \A d \in Calls \ {c} : pc'[d] = pc[d]
    BY <1>11 DEF StatementFails, End, TypeOK
  <2> QED BY <2>1, <2>2, RecordedStays DEF WriteInv
<1>12. ASSUME NEW c \in Calls, NEW r \in Relays, NEW kind \in ReplyKinds,
              RelayReplies(c, r, kind)
       PROVE  WriteInv'
  BY <1>1, <1>12 DEF RelayReplies
<1>13. ASSUME NEW p \in Procs, \/ OpenStore(p) \/ SelectInterrupted(p)
                               \/ FinishOpen(p)
       PROVE  WriteInv'
  BY <1>1, <1>13 DEF OpenStore, SelectInterrupted, FinishOpen
<1> QED
  BY <1>2, <1>3, <1>4, <1>5, <1>7, <1>8, <1>9, <1>10, <1>11, <1>12, <1>13,
     Zenon
  DEF Next, CallStep, RecoveryStep, Environment, Writers

(* Recovery only works on jobs that are in the database.                   *)
LEMMA TodoStep ==
  ASSUME TypeOK, WriteInv, TodoInv, Next
  PROVE  TodoInv'
<1> USE DEF dbVars, histVars
<1>1. \A p \in Procs : store'[p].todo \subseteq
                         store[p].todo \cup {c \in Calls : Recorded(c)}
  <2>1. CASE UNCHANGED store
    BY <2>1
  <2>2. ASSUME NEW q \in Procs, SelectInterrupted(q)
        PROVE  \A p \in Procs : store'[p].todo \subseteq
                 store[p].todo \cup {c \in Calls : Recorded(c)}
    BY <2>2 DEF SelectInterrupted, Interrupted, Recorded, TypeOK, OpenState
  <2>3. ASSUME NEW q \in Procs, \/ OpenStore(q) \/ FinishOpen(q)
                                \/ \E c \in Calls : RecoverJob(q, c)
        PROVE  \A p \in Procs : store'[p].todo \subseteq store[p].todo
    <3>1. CASE OpenStore(q)
      BY <3>1 DEF OpenStore, TypeOK, OpenState
    <3>2. CASE FinishOpen(q)
      BY <3>2 DEF FinishOpen, TypeOK
    <3>3. CASE \E c \in Calls : RecoverJob(q, c)
      BY <3>3 DEF RecoverJob, TypeOK, OpenState
    <3> QED BY <2>3, <3>1, <3>2, <3>3
  <2>4. CASE CrashDaemon \/ CrashCli
    <3>1. PICK q : store' = [store EXCEPT ![q] = [state |-> "closed",
                                                 todo |-> {}]]
      BY <2>4 DEF CrashDaemon, DaemonGone, CrashCli
    <3> QED BY <3>1 DEF TypeOK
  <2>5. \/ UNCHANGED store
        \/ \E q \in Procs : \/ SelectInterrupted(q) \/ OpenStore(q)
                            \/ FinishOpen(q)
                            \/ \E c \in Calls : RecoverJob(q, c)
        \/ CrashDaemon \/ CrashCli
    BY DEF Next, CallStep, RecoveryStep, Environment, Resolve, LookupKey,
           LookupReadOutcomes, InsertJob, ReadRow, RecordReadOutcomes,
           PublishDone, PublishAborted, UpdateJob, DeleteResults,
           InsertResult, FinalReadOutcomes, Admit, Refuse, RelayReplies,
           Disconnect, StatementFails
  <2> QED BY <2>1, <2>2, <2>3, <2>4, <2>5
<1>2. \A p \in Procs : store[p].todo \subseteq Calls
  BY DEF TypeOK, OpenState
<1> QED BY <1>1, <1>2, RecordedStays DEF TodoInv

-----------------------------------------------------------------------------
(* CALLS AND THEIR ROWS                                                    *)

(* A call that moves without touching the database stays on the same side  *)
(* of its INSERT, or ends.                                                 *)
LEMMA MoveKeepsPhase ==
  ASSUME TypeOK, PhaseInv, NEW c \in Calls, NEW place,
         UNCHANGED <<jobs, snapshots>>,
         pc' = [pc EXCEPT ![c] = place],
         \A d \in Calls \ {c} : res'[d] = res[d],
         place \in BeforeInsert => pc[c] \in BeforeInsert,
         place \in AfterInsert => pc[c] \in AfterInsert,
         place \in Attempting => pc[c] \in Attempting /\ res'[c] = res[c]
  PROVE  PhaseInv'
<1>1. \A d \in Calls : pc'[d] = IF d = c THEN place ELSE pc[d]
  BY DEF TypeOK
<1>2. \A d \in Calls : Recorded(d)' <=> Recorded(d)
  BY DEF Recorded
<1> QED BY <1>1, <1>2 DEF PhaseInv

(* A call that ends is on neither side of its INSERT any more.             *)
LEMMA EndKeepsPhase ==
  ASSUME TypeOK, PhaseInv, NEW c \in Calls, NEW how \in Ended, End(c, how),
         UNCHANGED <<jobs, snapshots>>
  PROVE  PhaseInv'
<1>1. how \notin BeforeInsert /\ how \notin AfterInsert /\ how \notin Attempting
  BY DEF Ended, BeforeInsert, AfterInsert, Attempting
<1>2. \A d \in Calls \ {c} : res'[d] = res[d]
  BY DEF End, TypeOK
<1> QED BY <1>1, <1>2, MoveKeepsPhase DEF End

(* The place of a call keeps saying whether its job is in the database.    *)
LEMMA PhaseStep ==
  ASSUME TypeOK, WriteInv, PhaseInv, Next
  PROVE  PhaseInv'
<1> USE DEF dbVars, histVars
<1>0. CASE UNCHANGED <<jobs, snapshots, pc, res>>
  BY <1>0 DEF PhaseInv, Recorded
<1>a. {"refused", "conflict", "deduplicated", "completed", "failed",
       "dropped", "lost"} \subseteq Ended
  BY DEF Ended
<1> USE DEF BeforeInsert, AfterInsert, Attempting
<1>1. ASSUME NEW c \in Calls, NEW q \in Request, Admit(c, q)
      PROVE  PhaseInv'
  BY <1>1, MoveKeepsPhase DEF Admit
<1>2. ASSUME NEW c \in Calls, Refuse(c) PROVE PhaseInv'
  BY <1>2, MoveKeepsPhase DEF Refuse
<1>3. ASSUME NEW c \in Calls, NEW r \in Resolutions, Resolve(c, r)
      PROVE  PhaseInv'
  <2>1. CASE End(c, "failed")
    BY <1>3, <2>1, <1>a, EndKeepsPhase DEF Resolve
  <2>2. CASE /\ res' = [res EXCEPT ![c] = r]
             /\ pc' = [pc EXCEPT ![c] =
                         IF req[c].key = None THEN "insert" ELSE "lookup"]
    <3>1. \A d \in Calls \ {c} : res'[d] = res[d]
      BY <2>2 DEF TypeOK
    <3> QED BY <1>3, <2>2, <3>1, MoveKeepsPhase DEF Resolve
  <2> QED BY <1>3, <2>1, <2>2 DEF Resolve
<1>4. ASSUME NEW c \in Calls, LookupKey(c) PROVE PhaseInv'
  BY <1>4, MoveKeepsPhase DEF LookupKey
<1>5. ASSUME NEW c \in Calls, LookupReadOutcomes(c) PROVE PhaseInv'
  <2>1. PICK how \in {"failed", "conflict", "deduplicated"} : End(c, how)
    BY <1>5 DEF LookupReadOutcomes
  <2> QED BY <1>5, <2>1, <1>a, EndKeepsPhase DEF LookupReadOutcomes
<1>6. ASSUME NEW c \in Calls, InsertJob(c) PROVE PhaseInv'
  <2>1. CASE KeyTaken(c)
    BY <1>6, <2>1, <1>a, EndKeepsPhase DEF InsertJob
  <2>2. CASE ~KeyTaken(c)
    <3>1. /\ \A d \in Calls : pc'[d] = IF d = c THEN "recordRow" ELSE pc[d]
          /\ \A d \in Calls \ {c} : snapshots'[d] = snapshots[d]
          /\ snapshots'[c] = target_snapshots_from_resolution(res[c])
          /\ res' = res
      BY <1>6, <2>2 DEF InsertJob, TypeOK
    <3>2. /\ \A d \in Calls \ {c} : Recorded(d)' <=> Recorded(d)
          /\ Recorded(c)'
      BY <1>6, <2>2 DEF InsertJob, TypeOK, Recorded
    <3> QED BY <3>1, <3>2 DEF PhaseInv
  <2> QED BY <2>1, <2>2
<1>7. ASSUME NEW c \in Calls, ReadRow(c) PROVE PhaseInv'
  BY <1>7, MoveKeepsPhase DEF ReadRow
<1>8. ASSUME NEW c \in Calls, RecordReadOutcomes(c) PROVE PhaseInv'
  <2>1. CASE End(c, "failed")
    BY <1>8, <2>1, <1>a, EndKeepsPhase DEF RecordReadOutcomes
  <2>2. CASE Execute(c) /\ UNCHANGED <<res, permits>>
    <3>1. PICK place \in {"publishing", "completing"} :
            pc' = [pc EXCEPT ![c] = place]
      BY <2>2 DEF Execute, Complete
    <3> QED BY <1>8, <2>2, <3>1, MoveKeepsPhase DEF RecordReadOutcomes
  <2> QED BY <1>8, <2>1, <2>2 DEF RecordReadOutcomes
<1>9. ASSUME NEW c \in Calls, PublishDone(c) \/ PublishAborted(c)
      PROVE  PhaseInv'
  BY <1>9, MoveKeepsPhase DEF PublishDone, PublishAborted, CompleteWith, Complete
<1>10. ASSUME NEW w \in Writers, UpdateJob(w) PROVE PhaseInv'
  BY <1>10, UpdateRecords DEF UpdateJob, PhaseInv
<1>11. ASSUME NEW w \in Writers, DeleteResults(w) \/ InsertResult(w)
       PROVE  PhaseInv'
  <2>1. /\ UNCHANGED <<jobs, snapshots, res>>
        /\ write[w].stage # "idle"
        /\ \/ pc' = pc
           \/ w \in Calls /\ pc' = [pc EXCEPT ![w] = "finalRow"]
    BY <1>11 DEF DeleteResults, InsertResult, ContinueWith
  <2>2. CASE pc' = pc
    BY <1>0, <2>1, <2>2
  <2>3. CASE w \in Calls /\ pc' = [pc EXCEPT ![w] = "finalRow"]
    <3>1. pc[w] = "completing"
      BY <2>1, <2>3 DEF WriteInv
    <3> QED BY <2>1, <2>3, <3>1, MoveKeepsPhase
  <2> QED BY <2>1, <2>2, <2>3
<1>12. ASSUME NEW c \in Calls, FinalReadOutcomes(c) PROVE PhaseInv'
  <2>1. PICK how \in {"completed", "failed"} : End(c, how)
    BY <1>12 DEF FinalReadOutcomes
  <2> QED BY <1>12, <2>1, <1>a, EndKeepsPhase DEF FinalReadOutcomes
<1>13. CASE CrashDaemon
  <2>1. /\ UNCHANGED <<jobs, snapshots>>
        /\ \A c \in Calls : pc'[c] = IF pc[c] \in Active THEN "lost" ELSE pc[c]
    BY <1>13 DEF CrashDaemon, DaemonGone
  <2>2. AfterInsert \cup Attempting \subseteq Active
    BY DEF Active, DbSteps, Awaiting
  <2> QED BY <2>1, <2>2 DEF PhaseInv, Recorded
<1>14. ASSUME NEW c \in Calls, Disconnect(c) \/ StatementFails(c)
       PROVE  PhaseInv'
  BY <1>14, <1>a, EndKeepsPhase DEF Disconnect, StatementFails
<1>15. ASSUME NEW c \in Calls, NEW r \in Relays, NEW kind \in ReplyKinds,
              RelayReplies(c, r, kind)
       PROVE  PhaseInv'
  BY <1>0, <1>15 DEF RelayReplies
<1>16. ASSUME NEW p \in Procs, \/ OpenStore(p) \/ SelectInterrupted(p)
                               \/ FinishOpen(p)
                               \/ \E c \in Calls : RecoverJob(p, c)
       PROVE  PhaseInv'
  BY <1>0, <1>16 DEF OpenStore, SelectInterrupted, FinishOpen, RecoverJob
<1>17. CASE CrashCli
  BY <1>0, <1>17 DEF CrashCli
<1> QED
  BY <1>1, <1>2, <1>3, <1>4, <1>5, <1>6, <1>7, <1>8, <1>9, <1>10, <1>11,
     <1>12, <1>13, <1>14, <1>15, <1>16, <1>17, Zenon
  DEF Next, CallStep, RecoveryStep, Environment, Writers

-----------------------------------------------------------------------------
(* IDEMPOTENCY AND WRITE-AHEAD                                             *)

(* No step records a second job for a key: only InsertJob adds a row, and  *)
(* the unique index looks at every row at that very moment; and a request  *)
(* only changes while its call has no row.                                 *)
LEMMA KeyStep ==
  ASSUME TypeOK, WriteInv, PhaseInv, OneJobPerKey, Next
  PROVE  OneJobPerKey'
<1> USE DEF dbVars, histVars
<1>1. CASE UNCHANGED <<jobs, req>>
  BY <1>1 DEF OneJobPerKey, Recorded
<1>2. ASSUME NEW c \in Calls, NEW q \in Request, Admit(c, q)
      PROVE  OneJobPerKey'
  <2>1. ~Recorded(c)
    BY <1>2 DEF Admit, PhaseInv, BeforeInsert
  <2>2. \A d \in Calls \ {c} : req'[d] = req[d]
    BY <1>2 DEF Admit, TypeOK
  <2>3. jobs' = jobs
    BY <1>2 DEF Admit
  <2> QED BY <2>1, <2>2, <2>3 DEF OneJobPerKey, Recorded
<1>3. ASSUME NEW c \in Calls, InsertJob(c) PROVE OneJobPerKey'
  <2>1. req' = req
    BY <1>3 DEF InsertJob
  <2>2. CASE KeyTaken(c)
    BY <1>1, <1>3, <2>1, <2>2 DEF InsertJob
  <2>3. CASE ~KeyTaken(c)
    <3>1. \A d \in Calls \ {c} : Recorded(d)' => Recorded(d)
      BY <1>3, InsertRecords DEF Recorded
    <3>2. req[c].key # None =>
            \A d \in Calls : Recorded(d) => req[d].key # req[c].key
      BY <2>3 DEF KeyTaken
    <3> QED BY <2>1, <3>1, <3>2 DEF OneJobPerKey
  <2> QED BY <2>2, <2>3
<1>4. ASSUME NEW w \in Writers, UpdateJob(w) PROVE OneJobPerKey'
  <2>1. req' = req
    BY <1>4 DEF UpdateJob
  <2> QED BY <1>4, <2>1, UpdateRecords DEF OneJobPerKey
<1>5. \/ UNCHANGED <<jobs, req>>
      \/ \E c \in Calls : \E q \in Request : Admit(c, q)
      \/ \E c \in Calls : InsertJob(c)
      \/ \E w \in Writers : UpdateJob(w)
  BY DEF Next, CallStep, RecoveryStep, Environment, Writers,
         Resolve, LookupKey, LookupReadOutcomes, ReadRow, RecordReadOutcomes,
         PublishDone, PublishAborted, DeleteResults, InsertResult,
         FinalReadOutcomes, SelectInterrupted, RecoverJob, FinishOpen, Refuse,
         RelayReplies, OpenStore, CrashDaemon, DaemonGone, CrashCli, Disconnect,
         StatementFails
<1> QED BY <1>1, <1>2, <1>3, <1>4, <1>5

(* No step contacts a relay that the stored snapshot does not name.        *)
LEMMA ContactStep ==
  ASSUME TypeOK, WriteInv, PhaseInv, SnapshotBeforeContact, Next
  PROVE  SnapshotBeforeContact'
<1> USE DEF dbVars, histVars
<1>1. CASE UNCHANGED <<snapshots, replies>>
  BY <1>1, RecordedStays DEF SnapshotBeforeContact
<1>2. ASSUME NEW c \in Calls, InsertJob(c) PROVE SnapshotBeforeContact'
  <2>1. ~Recorded(c)
    BY <1>2 DEF InsertJob, PhaseInv, BeforeInsert
  <2>2. replies' = replies /\ \A d \in Calls \ {c} : snapshots'[d] = snapshots[d]
    BY <1>2 DEF InsertJob, TypeOK
  <2> QED BY <2>1, <2>2, RecordedStays DEF SnapshotBeforeContact
<1>3. ASSUME NEW c \in Calls, NEW r \in Relays, NEW kind \in ReplyKinds,
             RelayReplies(c, r, kind)
      PROVE  SnapshotBeforeContact'
  <2>1. /\ Recorded(c)
        /\ snapshots[c] = target_snapshots_from_resolution(res[c])
    BY <1>3 DEF RelayReplies, PhaseInv, AfterInsert, Attempting
  <2>2. PICK i \in DOMAIN res[c].targets : RelayOf[res[c].targets[i]] = r
    BY <1>3 DEF RelayReplies, RelaySet
  <2>3. res[c] \in Resolution
    BY DEF TypeOK
  <2>4. /\ Len(res[c].outcomes) + i \in DOMAIN snapshots[c]
        /\ snapshots[c][Len(res[c].outcomes) + i].target = res[c].targets[i]
    BY <2>1, <2>3, SnapshotType, Zenon
  <2>5. \E j \in DOMAIN snapshots[c] : RelayOf[snapshots[c][j].target] = r
    BY <2>2, <2>4, Zenon
  <2>6. \A d \in Calls : \A x \in Relays :
          replies'[d][x] # replies[d][x] => d = c /\ x = r
    BY <1>3 DEF RelayReplies, TypeOK
  <2>7. snapshots' = snapshots
    BY <1>3 DEF RelayReplies
  <2> QED BY <2>1, <2>5, <2>6, <2>7, RecordedStays DEF SnapshotBeforeContact
<1>4. \/ UNCHANGED <<snapshots, replies>>
      \/ \E c \in Calls : InsertJob(c)
      \/ \E c \in Calls : \E r \in Relays : \E kind \in ReplyKinds :
           RelayReplies(c, r, kind)
  BY DEF Next, CallStep, RecoveryStep, Environment, Writers,
         Resolve, LookupKey, LookupReadOutcomes, ReadRow, RecordReadOutcomes,
         PublishDone, PublishAborted, UpdateJob, DeleteResults, InsertResult,
         FinalReadOutcomes, SelectInterrupted, RecoverJob, FinishOpen, Refuse,
         Admit, OpenStore, CrashDaemon, DaemonGone, CrashCli, Disconnect, StatementFails
<1> QED BY <1>1, <1>2, <1>3, <1>4

-----------------------------------------------------------------------------
(* THE THEOREMS                                                            *)

(* The inductive invariant holds before the store is first opened ...      *)
LEMMA InitIInv == Init => IInv
<1> SUFFICES ASSUME Init PROVE IInv
  OBVIOUS
<1>1. TypeOK
  BY InitType
<1>2. ActiveCalls = {}
  BY DEF Init, ActiveCalls, Active, DbSteps, Awaiting
<1>3. PermitInv
  <2>1. IsFiniteSet(ActiveCalls) /\ Cardinality(ActiveCalls) = 0
    BY <1>2, FS_EmptySet
  <2>2. permits = MaxConcurrent /\ MaxConcurrent \in Nat
    BY PublishAssumption DEF Init
  <2> QED BY <2>1, <2>2 DEF PermitInv, PermitsAddUp, ActiveCalls
<1>4. \A c \in Calls : ~Recorded(c)
  BY DEF Init, Recorded, NoRow
<1>5. WriteInv /\ TodoInv
  BY DEF Init, WriteInv, TodoInv, NoWrite
<1>6. PhaseInv
  BY <1>4 DEF Init, PhaseInv, AfterInsert, Attempting
<1>7. OneJobPerKey
  BY <1>4 DEF OneJobPerKey
<1>8. SnapshotBeforeContact
  BY DEF Init, SnapshotBeforeContact
<1> QED BY <1>1, <1>3, <1>5, <1>6, <1>7, <1>8 DEF IInv

(* ... and every step, of whichever process, preserves it.                 *)
LEMMA StepIInv == IInv /\ [Next]_vars => IInv'
<1> SUFFICES ASSUME IInv, [Next]_vars PROVE IInv'
  OBVIOUS
<1>1. CASE Next
  <2>1. PermitInv'
    BY <1>1, PermitStep DEF IInv
  <2>2. permits' \in 0..MaxConcurrent
    BY <2>1, PermitBounds
  <2>3. TypeOK'
    BY <1>1, <2>2, TypeStep DEF IInv
  <2> QED
    BY <1>1, <2>1, <2>3, WriteStep, TodoStep, PhaseStep, KeyStep, ContactStep
    DEF IInv
<1>2. CASE UNCHANGED vars
  BY <1>2 DEF vars, IInv, TypeOK, PermitInv, PermitsAddUp, ActiveCalls,
              WriteInv, TodoInv, PhaseInv, OneJobPerKey,
              SnapshotBeforeContact, Recorded
<1> QED BY <1>1, <1>2

(* The inductive invariant holds in every reachable state.                 *)
THEOREM Invariance == Spec => []IInv
BY InitIInv, StepIInv, PTL DEF Spec

(* Every variable keeps its type; the semaphore is never negative and      *)
(* never above max_concurrent_publish_jobs.                                *)
THEOREM TypeCorrect == Spec => []TypeOK
<1>1. IInv => TypeOK
  BY DEF IInv
<1> QED BY <1>1, Invariance, PTL

(* Free permits and calls in progress add up, whichever way calls end.     *)
THEOREM PermitsBalance == Spec => []PermitsAddUp
<1>1. IInv => PermitsAddUp
  BY DEF IInv, PermitInv
<1> QED BY <1>1, Invariance, PTL

(* The database never holds two jobs of one principal with the same        *)
(* idempotency key, though record_publish_job looks the key up in one      *)
(* critical section and inserts in another.                                *)
THEOREM KeyUnique == Spec => []OneJobPerKey
<1>1. IInv => OneJobPerKey
  BY DEF IInv
<1> QED BY <1>1, Invariance, PTL

(* A relay is only contacted for a job that is stored with a snapshot      *)
(* naming that relay, so recovery knows of every attempt.                  *)
THEOREM WriteAhead == Spec => []SnapshotBeforeContact
<1>1. IInv => SnapshotBeforeContact
  BY DEF IInv
<1> QED BY <1>1, Invariance, PTL

(* Relays hear from at most one call per idempotency key, across crashes,  *)
(* retries and any number of processes on the database.                    *)
THEOREM PublisherUnique == Spec => []AtMostOnePublisherPerKey
<1>1. IInv => AtMostOnePublisherPerKey
  BY DEF IInv, AtMostOnePublisherPerKey, Contacted, OneJobPerKey,
         SnapshotBeforeContact
<1> QED BY <1>1, Invariance, PTL

-----------------------------------------------------------------------------
(***************************************************************************)
(* Proofs about what the publish store promises: recovery leaves no job    *)
(* behind, a database with one process on it implements JobLedger, and a   *)
(* job is satisfied only by what relays accepted.                          *)
(*                                                                         *)
(* Recovery: a call runs only while the daemon has the store open, and     *)
(* began in this run of the daemon (RunInv); while the daemon recovers,    *)
(* what is still Publishing is on its list or is the job it is about to    *)
(* update (RecoveryInv).                                                   *)
(*                                                                         *)
(* The ledger: UPDATE sets a status whatever the row holds, so a job is    *)
(* settled only once if two writers never have the same job in hand.  With *)
(* one process they do not (SoleInv): recovery works on each job once, and *)
(* no call runs meanwhile.  Hence whoever is about to update a job, or to  *)
(* contact relays for it, finds it Publishing (OpenInv).                   *)
(*                                                                         *)
(* No false success: resolution and recovery accept nothing (RefusalInv),  *)
(* so delivery_status is satisfied only by answers of relays, which stay   *)
(* with the call until its job is written (EarnedInv).                     *)
(*                                                                         *)
(* Whole jobs: whoever settles a job has outcomes that justify its status  *)
(* in hand (PlanInv), and what is written and what is still in hand make   *)
(* up those outcomes (RowsInv); the order in which rows are read back does *)
(* not change the status they give (SameStatus).                           *)
(***************************************************************************)

Publishing(c) == jobs[c].status = "Publishing"

(* Calls run only in a daemon that has opened its store.                   *)
RunInv ==
  \A c \in Calls : pc[c] \in Active =>
    store["daemon"].state = "open" /\ born[c] = epoch

(* What recovery still has to settle.                                      *)
RecoveryInv ==
  store["daemon"].state = "recovering" =>
    \A c \in Calls : Publishing(c) =>
      \/ c \in store["daemon"].todo
      \/ write["daemon"].stage = "update" /\ write["daemon"].job = c

(* One process, whose recovery takes each job once.                        *)
SoleInv ==
  /\ cliRuns = 0
  /\ store["cli"].state = "closed" /\ store["cli"].todo = {}
  /\ write["cli"].stage = "idle"
  /\ store["daemon"].state # "recovering" =>
       store["daemon"].todo = {} /\ write["daemon"].stage = "idle"
  /\ write["daemon"].stage # "idle" =>
       write["daemon"].job \notin store["daemon"].todo

(* Whoever is to settle a job, or to contact relays for it, finds it open. *)
OpenInv ==
  /\ \A c \in store["daemon"].todo : Publishing(c)
  /\ \A w \in Writers : write[w].stage = "update" => Publishing(write[w].job)
  /\ \A c \in Calls : pc[c] \in Attempting => Publishing(c)

-----------------------------------------------------------------------------
(* FRAMES                                                                  *)

(* What a step does to the calls in progress and to the runs of the        *)
(* daemon: it admits a call, is a step of a call or of a writer, is a step *)
(* of a process that opens the store, or ends a process.                   *)
CallOrWriterStep ==
  /\ UNCHANGED <<store, born, epoch, cliRuns>>
  /\ \A d \in Calls : pc'[d] \in Active => pc[d] \in Active

OpeningStep(p) ==
  \/ OpenStore(p) \/ SelectInterrupted(p) \/ FinishOpen(p)
  \/ \E c \in Calls : RecoverJob(p, c)

(* The place of one call changes, and it held a permit or is refused.      *)
LEMMA MoveIsCallStep ==
  ASSUME TypeOK, NEW c \in Calls, NEW place,
         pc' = [pc EXCEPT ![c] = place],
         place \in Active => pc[c] \in Active
  PROVE  \A d \in Calls : pc'[d] \in Active => pc[d] \in Active
BY DEF TypeOK

(* Every step is of one of these kinds.                                    *)
LEMMA StepKinds ==
  ASSUME TypeOK, WriteInv, Next
  PROVE  \/ \E c \in Calls : \E q \in Request : Admit(c, q)
         \/ CallOrWriterStep
         \/ \E p \in Procs : OpeningStep(p)
         \/ CrashDaemon
         \/ CrashCli
<1> USE DEF histVars, CallOrWriterStep
<1>a. /\ DbSteps \subseteq Active /\ Awaiting \subseteq Active
      /\ {"resolving", "publishing", "lookup", "lookupRead", "insert",
          "recordRow", "recordRead", "completing", "finalRow", "finalRead"}
           \subseteq Active
      /\ {"refused", "conflict", "deduplicated", "completed", "failed",
          "dropped", "lost"} \cap Active = {}
  BY DEF Active, DbSteps, Awaiting
<1>1. ASSUME NEW c \in Calls,
             \/ Refuse(c)
             \/ \E r \in Resolutions : Resolve(c, r)
             \/ LookupKey(c)
             \/ LookupReadOutcomes(c)
             \/ InsertJob(c)
             \/ ReadRow(c)
             \/ FinalReadOutcomes(c)
             \/ Disconnect(c)
             \/ StatementFails(c)
      PROVE  CallOrWriterStep
  <2>1. UNCHANGED <<store, born, epoch, cliRuns>>
    BY <1>1 DEF Refuse, Resolve, LookupKey, LookupReadOutcomes, InsertJob,
                ReadRow, FinalReadOutcomes, Disconnect, StatementFails, Fault
  <2>2. \E place : /\ pc' = [pc EXCEPT ![c] = place]
                   /\ place \in Active => pc[c] \in Active
    BY <1>1, <1>a DEF Refuse, Resolve, LookupKey, LookupReadOutcomes,
                InsertJob, ReadRow, FinalReadOutcomes, Disconnect,
                StatementFails, End
  <2> QED BY <2>1, <2>2, MoveIsCallStep
<1>2. ASSUME NEW c \in Calls, RecordReadOutcomes(c) PROVE CallOrWriterStep
  <2>1. UNCHANGED <<store, born, epoch, cliRuns>> /\ pc[c] \in Active
    BY <1>2, <1>a DEF RecordReadOutcomes
  <2>2. \E place : pc' = [pc EXCEPT ![c] = place]
    BY <1>2 DEF RecordReadOutcomes, Execute, Complete, End
  <2> QED BY <2>1, <2>2, MoveIsCallStep
<1>3. ASSUME NEW c \in Calls, PublishDone(c) \/ PublishAborted(c)
      PROVE  CallOrWriterStep
  <2>1. UNCHANGED <<store, born, epoch, cliRuns>> /\ pc[c] \in Active
    BY <1>3, <1>a DEF PublishDone, PublishAborted
  <2>2. \E place : pc' = [pc EXCEPT ![c] = place]
    BY <1>3 DEF PublishDone, PublishAborted, CompleteWith, Complete
  <2> QED BY <2>1, <2>2, MoveIsCallStep
<1>4. ASSUME NEW w \in Writers, UpdateJob(w) PROVE CallOrWriterStep
  BY <1>4 DEF UpdateJob
<1>5. ASSUME NEW w \in Writers, DeleteResults(w) \/ InsertResult(w)
      PROVE  CallOrWriterStep
  <2>1. /\ UNCHANGED <<store, born, epoch, cliRuns>>
        /\ write[w].stage # "idle"
        /\ \/ pc' = pc
           \/ w \in Calls /\ pc' = [pc EXCEPT ![w] = "finalRow"]
    BY <1>5 DEF DeleteResults, InsertResult, ContinueWith
  <2>2. w \in Calls => pc[w] \in Active
    BY <2>1, <1>a DEF WriteInv
  <2> QED BY <2>1, <2>2, MoveIsCallStep
<1>6. ASSUME NEW c \in Calls, NEW r \in Relays, NEW kind \in ReplyKinds,
             RelayReplies(c, r, kind)
      PROVE  CallOrWriterStep
  BY <1>6 DEF RelayReplies
<1> QED
  BY <1>1, <1>2, <1>3, <1>4, <1>5, <1>6, Zenon
  DEF Next, CallStep, RecoveryStep, Environment, Writers, OpeningStep

(* What a call does, or what is done to it from outside.                   *)
CallAction(c) ==
  \/ CallStep(c)
  \/ \E q \in Request : Admit(c, q)
  \/ Refuse(c)
  \/ \E r \in Relays : \E kind \in ReplyKinds : RelayReplies(c, r, kind)
  \/ Disconnect(c)
  \/ StatementFails(c)

(* It leaves the processes and the other writers alone.                    *)
LEMMA CallFrame ==
  ASSUME TypeOK, NEW c \in Calls, CallAction(c)
  PROVE  /\ store' = store /\ cliRuns' = cliRuns
         /\ \A w \in Writers \ {c} : write'[w] = write[w]
<1> USE DEF histVars
<1>1. store' = store /\ cliRuns' = cliRuns
  BY DEF CallAction, CallStep, Resolve, LookupKey, LookupReadOutcomes,
         InsertJob, ReadRow, RecordReadOutcomes, PublishDone, PublishAborted,
         UpdateJob, DeleteResults, InsertResult, FinalReadOutcomes, Admit,
         Refuse, RelayReplies, Disconnect, StatementFails, Fault
<1>2. write' = write \/ \E x : write' = [write EXCEPT ![c] = x]
  BY DEF CallAction, CallStep, Resolve, LookupKey, LookupReadOutcomes,
         InsertJob, ReadRow, RecordReadOutcomes, PublishDone, PublishAborted,
         UpdateJob, DeleteResults, InsertResult, FinalReadOutcomes, Admit,
         Refuse, RelayReplies, Disconnect, StatementFails, CompleteWith,
         Complete, Execute, ContinueWith
<1>3. \A w \in Writers \ {c} : write'[w] = write[w]
  BY <1>2 DEF TypeOK
<1> QED BY <1>1, <1>3

(* The rows of the jobs table change by InsertJob and UpdateJob alone, and *)
(* only InsertJob makes a job Publishing.                                  *)
LEMMA JobsChange ==
  ASSUME Next
  PROVE  \/ jobs' = jobs
         \/ \E c \in Calls : InsertJob(c)
         \/ \E w \in Writers : UpdateJob(w)
BY DEF dbVars, Next, CallStep, RecoveryStep, Environment, Writers,
       Resolve, LookupKey, LookupReadOutcomes, ReadRow, RecordReadOutcomes,
       PublishDone, PublishAborted, DeleteResults, InsertResult,
       FinalReadOutcomes, SelectInterrupted, RecoverJob, FinishOpen, Admit,
       Refuse, RelayReplies, OpenStore, CrashDaemon, CrashCli, Disconnect,
       StatementFails

(* What InsertJob does to the table.                                       *)
LEMMA InsertRows ==
  ASSUME TypeOK, NEW c \in Calls, InsertJob(c), ~KeyTaken(c)
  PROVE  /\ Publishing(c)'
         /\ \A d \in Calls \ {c} : jobs'[d] = jobs[d] /\ pc'[d] = pc[d]
<1>1. /\ jobs' = [jobs EXCEPT ![c] = [status |-> "Publishing",
                                      count |-> target_count(res[c]),
                                      lastError |-> None]]
      /\ pc' = [pc EXCEPT ![c] = "recordRow"]
  BY DEF InsertJob
<1>2. jobs'[c].status = "Publishing"
  BY <1>1 DEF TypeOK
<1>3. \A d \in Calls \ {c} : jobs'[d] = jobs[d] /\ pc'[d] = pc[d]
  BY <1>1 DEF TypeOK
<1> QED BY <1>2, <1>3 DEF Publishing

(* What UpdateJob does to the table.                                       *)
LEMMA UpdateRows ==
  ASSUME TypeOK, WriteInv, NEW w \in Writers, UpdateJob(w)
  PROVE  /\ write[w].job \in Calls
         /\ write[w].status \in FinalStatus
         /\ jobs'[write[w].job].status = write[w].status
         /\ jobs'[write[w].job].status # "Publishing"
         /\ \A d \in Calls \ {write[w].job} : jobs'[d] = jobs[d]
<1>1. write[w].job \in Calls /\ write[w].status \in FinalStatus
  BY DEF UpdateJob, WriteInv
<1>2. jobs' = [jobs EXCEPT ![write[w].job] =
                 [status |-> write[w].status, count |-> Len(write[w].rows),
                  lastError |-> write[w].lastError]]
  BY DEF UpdateJob
<1>3. jobs'[write[w].job].status = write[w].status
  BY <1>1, <1>2 DEF TypeOK
<1>4. \A d \in Calls \ {write[w].job} : jobs'[d] = jobs[d]
  BY <1>1, <1>2 DEF TypeOK
<1>5. write[w].status # "Publishing"
  BY <1>1 DEF FinalStatus
<1> QED BY <1>1, <1>3, <1>4, <1>5 DEF Publishing

(* A job that is Publishing after a step was so before, or is inserted.    *)
LEMMA PublishingComes ==
  ASSUME TypeOK, WriteInv, Next, NEW c \in Calls, Publishing(c)'
  PROVE  Publishing(c) \/ InsertJob(c)
<1>1. CASE jobs' = jobs
  BY <1>1 DEF Publishing
<1>2. ASSUME NEW d \in Calls, InsertJob(d) PROVE Publishing(c) \/ InsertJob(c)
  BY <1>2, InsertRecords DEF Publishing
<1>3. ASSUME NEW w \in Writers, UpdateJob(w) PROVE Publishing(c)
  BY <1>3, UpdateRows DEF Publishing
<1> QED BY <1>1, <1>2, <1>3, JobsChange

-----------------------------------------------------------------------------
(* RECOVERY                                                                *)

(* No step leaves a call running in a daemon that has not opened its       *)
(* store, or from an earlier run.                                          *)
LEMMA RunStep ==
  ASSUME TypeOK, WriteInv, RunInv, Next
  PROVE  RunInv'
<1>1. ASSUME NEW c \in Calls, NEW q \in Request, Admit(c, q) PROVE RunInv'
  <2>1. /\ store' = store /\ epoch' = epoch /\ store["daemon"].state = "open"
        /\ \A d \in Calls : pc'[d] = IF d = c THEN "resolving" ELSE pc[d]
        /\ \A d \in Calls : born'[d] = IF d = c THEN epoch ELSE born[d]
    BY <1>1 DEF Admit, TypeOK
  <2> QED BY <2>1 DEF RunInv
<1>2. CASE CallOrWriterStep
  BY <1>2 DEF CallOrWriterStep, RunInv
<1>3. ASSUME NEW p \in Procs, OpeningStep(p) PROVE RunInv'
  <2>1. pc' = pc /\ born' = born
    BY <1>3 DEF OpeningStep, OpenStore, SelectInterrupted, FinishOpen,
                RecoverJob, histVars
  <2>2. CASE p = "cli"
    <3>1. epoch' = epoch /\ store'["daemon"] = store["daemon"]
      BY <1>3, <2>2 DEF OpeningStep, OpenStore, SelectInterrupted, FinishOpen,
                        RecoverJob, histVars, TypeOK, Procs
    <3> QED BY <2>1, <3>1 DEF RunInv
  <2>3. CASE p = "daemon"
    <3>1. store["daemon"].state # "open"
      BY <1>3, <2>3 DEF OpeningStep, OpenStore, SelectInterrupted, FinishOpen,
                        RecoverJob
    <3> QED BY <2>1, <3>1 DEF RunInv
  <2> QED BY <2>2, <2>3 DEF Procs
<1>4. CASE CrashDaemon
  <2>1. "lost" \notin Active
    BY DEF Active, DbSteps, Awaiting
  <2>2. \A c \in Calls : pc'[c] \notin Active
    BY <1>4, <2>1 DEF CrashDaemon, DaemonGone
  <2> QED BY <2>2 DEF RunInv
<1>5. CASE CrashCli
  <2>1. pc' = pc /\ born' = born /\ epoch' = epoch
        /\ store'["daemon"] = store["daemon"]
    BY <1>5 DEF CrashCli, Fault, TypeOK, Procs
  <2> QED BY <2>1 DEF RunInv
<1> QED BY <1>1, <1>2, <1>3, <1>4, <1>5, StepKinds

(* While the daemon recovers, its own statements settle what it takes from *)
(* its list, and nobody adds to what is Publishing.                        *)
LEMMA RecoveryStepInv ==
  ASSUME TypeOK, WriteInv, RunInv, RecoveryInv, Next
  PROVE  RecoveryInv'
<1> USE DEF dbVars, histVars
<1>p. "daemon" \in Procs /\ "daemon" \in Writers /\ "daemon" \notin Calls
      /\ "cli" \in Writers /\ "cli" \in Procs
  BY PublishAssumption DEF Procs, Writers
<1>i. ASSUME store["daemon"].state # "open", NEW c \in Calls
      PROVE  ~InsertJob(c)
  <2>1. "insert" \in Active
    BY DEF Active, DbSteps
  <2> QED BY <1>i, <2>1 DEF InsertJob, RunInv
<1>1. ASSUME store'["daemon"] = store["daemon"],
             write'["daemon"] = write["daemon"]
      PROVE  RecoveryInv'
  BY <1>1, <1>i, PublishingComes DEF RecoveryInv
<1>2. ASSUME UpdateJob("daemon") PROVE RecoveryInv'
  <2>1. store' = store
    BY <1>2 DEF UpdateJob
  <2>2. \A c \in Calls : Publishing(c)' =>
          Publishing(c) /\ c # write["daemon"].job
    BY <1>2, <1>p, UpdateRows DEF Publishing
  <2> QED BY <2>1, <2>2 DEF RecoveryInv
<1>3. ASSUME DeleteResults("daemon") \/ InsertResult("daemon")
      PROVE  RecoveryInv'
  <2>1. store' = store /\ jobs' = jobs /\ write["daemon"].stage # "update"
    BY <1>3 DEF DeleteResults, InsertResult
  <2> QED BY <2>1 DEF RecoveryInv, Publishing
<1>4. ASSUME NEW c \in Calls, RecoverJob("daemon", c) PROVE RecoveryInv'
  <2>1. /\ write["daemon"].stage = "idle" /\ jobs' = jobs
        /\ store["daemon"].state = "recovering"
    BY <1>4 DEF RecoverJob
  <2>2. store'["daemon"].todo = store["daemon"].todo \ {c}
    BY <1>4, <1>p DEF RecoverJob, TypeOK, OpenState
  <2>3. write'["daemon"].stage = "update" /\ write'["daemon"].job = c
    BY <1>4, <1>p DEF RecoverJob, TypeOK
  <2> QED BY <2>1, <2>2, <2>3 DEF RecoveryInv, Publishing
<1>5. ASSUME SelectInterrupted("daemon") PROVE RecoveryInv'
  <2>1. jobs' = jobs /\ store'["daemon"].todo = Interrupted
    BY <1>5, <1>p DEF SelectInterrupted, TypeOK
  <2> QED BY <2>1 DEF RecoveryInv, Publishing, Interrupted
<1>6. ASSUME OpenStore("daemon") \/ FinishOpen("daemon") \/ CrashDaemon
      PROVE  RecoveryInv'
  <2>1. store'["daemon"].state # "recovering"
    BY <1>6, <1>p DEF OpenStore, FinishOpen, CrashDaemon, DaemonGone, TypeOK,
                      OpenState
  <2> QED BY <2>1 DEF RecoveryInv
<1>7. ASSUME NEW c \in Calls, CallAction(c) PROVE RecoveryInv'
  BY <1>1, <1>7, <1>p, CallFrame
<1>8. ASSUME RecoveryStep("cli") \/ OpenStore("cli") \/ CrashCli
      PROVE  RecoveryInv'
  <2>1. store'["daemon"] = store["daemon"]
    BY <1>8, <1>p DEF RecoveryStep, SelectInterrupted, RecoverJob, UpdateJob,
                DeleteResults, InsertResult, FinishOpen, OpenStore, CrashCli,
                TypeOK
  <2>2. write' = write \/ \E x : write' = [write EXCEPT !["cli"] = x]
    BY <1>8 DEF RecoveryStep, SelectInterrupted, RecoverJob, UpdateJob,
                DeleteResults, InsertResult, FinishOpen, OpenStore, CrashCli,
                ContinueWith
  <2>3. write'["daemon"] = write["daemon"]
    BY <2>2, <1>p DEF TypeOK
  <2> QED BY <1>1, <2>1, <2>3
<1> QED
  BY <1>2, <1>3, <1>4, <1>5, <1>6, <1>7, <1>8, Zenon
  DEF Next, RecoveryStep, Environment, Procs, CallAction

(* A store that is open has no Publishing job of an earlier run: recovery  *)
(* ends only when its list is empty and its last write is done.            *)
LEMMA LeftBehindStep ==
  ASSUME TypeOK, WriteInv, PhaseInv, RunInv, RecoveryInv, NoJobLeftBehind,
         Next
  PROVE  NoJobLeftBehind'
<1>p. "daemon" \in Procs
  BY DEF Procs
<1>i. \A c \in Calls : InsertJob(c) => born[c] = epoch
  <2>1. "insert" \in Active
    BY DEF Active, DbSteps
  <2> QED BY <2>1 DEF InsertJob, RunInv
<1>1. ASSUME store'["daemon"] = store["daemon"], born' = born, epoch' = epoch
      PROVE  NoJobLeftBehind'
  <2>1. \A c \in Calls : Publishing(c)' => Publishing(c) \/ born[c] = epoch
    BY <1>i, PublishingComes
  <2> QED BY <1>1, <2>1 DEF NoJobLeftBehind, Publishing
<1>2. ASSUME NEW c \in Calls, NEW q \in Request, Admit(c, q)
      PROVE  NoJobLeftBehind'
  <2>1. /\ store' = store /\ epoch' = epoch /\ jobs' = jobs
        /\ \A d \in Calls : born'[d] = IF d = c THEN epoch ELSE born[d]
    BY <1>2 DEF Admit, TypeOK, dbVars
  <2> QED BY <2>1 DEF NoJobLeftBehind
<1>3. CASE CallOrWriterStep
  BY <1>1, <1>3 DEF CallOrWriterStep
<1>4. ASSUME NEW p \in Procs, OpeningStep(p) PROVE NoJobLeftBehind'
  <2>1. CASE p = "cli"
    <3>1. /\ epoch' = epoch /\ born' = born
          /\ store'["daemon"] = store["daemon"]
      BY <1>4, <2>1 DEF OpeningStep, OpenStore, SelectInterrupted, FinishOpen,
                        RecoverJob, histVars, TypeOK, Procs
    <3> QED BY <1>1, <3>1
  <2>2. CASE FinishOpen("daemon")
    <3>1. /\ store["daemon"].state = "recovering" /\ store["daemon"].todo = {}
          /\ write["daemon"].stage = "idle" /\ jobs' = jobs
      BY <2>2 DEF FinishOpen, RecoveryDone, dbVars
    <3>2. \A c \in Calls : ~Publishing(c)
      BY <3>1 DEF RecoveryInv
    <3> QED BY <3>1, <3>2 DEF NoJobLeftBehind, Publishing
  <2>3. CASE \/ OpenStore("daemon") \/ SelectInterrupted("daemon")
             \/ \E c \in Calls : RecoverJob("daemon", c)
    <3>1. store'["daemon"].state # "open"
      <4>1. CASE OpenStore("daemon")
        BY <4>1, <1>p DEF OpenStore, TypeOK, OpenState
      <4>2. CASE SelectInterrupted("daemon")
        BY <4>2, <1>p DEF SelectInterrupted, TypeOK
      <4>3. CASE \E c \in Calls : RecoverJob("daemon", c)
        BY <4>3, <1>p DEF RecoverJob, TypeOK, OpenState
      <4> QED BY <2>3, <4>1, <4>2, <4>3
    <3> QED BY <3>1 DEF NoJobLeftBehind
  <2> QED BY <1>4, <2>1, <2>2, <2>3 DEF Procs, OpeningStep
<1>5. CASE CrashDaemon
  <2>1. store'["daemon"].state # "open"
    BY <1>5, <1>p DEF CrashDaemon, DaemonGone, TypeOK
  <2> QED BY <2>1 DEF NoJobLeftBehind
<1>6. CASE CrashCli
  <2>1. /\ epoch' = epoch /\ born' = born
        /\ store'["daemon"] = store["daemon"]
    BY <1>6 DEF CrashCli, Fault, TypeOK, Procs
  <2> QED BY <1>1, <2>1
<1> QED BY <1>2, <1>3, <1>4, <1>5, <1>6, StepKinds

(* Recovery misses no job: once the daemon has opened the store, every job *)
(* still Publishing belongs to a call of this run of the daemon, whatever  *)
(* principal-init runs do meanwhile.                                       *)
THEOREM NothingLeftBehind == Spec => []NoJobLeftBehind
<1> DEFINE Inv == IInv /\ RunInv /\ RecoveryInv /\ NoJobLeftBehind
<1>1. Init => Inv
  <2> SUFFICES ASSUME Init PROVE Inv
    OBVIOUS
  <2>1. \A c \in Calls : pc[c] \notin Active
    BY DEF Init, Active, DbSteps, Awaiting
  <2>2. store["daemon"].state = "closed"
    BY DEF Init, Procs
  <2> QED
    BY <2>1, <2>2, InitIInv DEF RunInv, RecoveryInv, NoJobLeftBehind
<1>2. Inv /\ [Next]_vars => Inv'
  <2> SUFFICES ASSUME Inv, [Next]_vars PROVE Inv'
    OBVIOUS
  <2>1. CASE Next
    BY <2>1, StepIInv, RunStep, RecoveryStepInv, LeftBehindStep DEF IInv
  <2>2. CASE UNCHANGED vars
    BY <2>2, StepIInv
    DEF vars, RunInv, RecoveryInv, NoJobLeftBehind, Publishing
  <2> QED BY <2>1, <2>2
<1>3. Inv => NoJobLeftBehind
  OBVIOUS
<1> QED BY <1>1, <1>2, <1>3, PTL DEF Spec

-----------------------------------------------------------------------------
(* ONE PROCESS                                                             *)

(* The runs of principal init are counted.                                 *)
LEMMA CliRunsCount ==
  ASSUME TypeOK, WriteInv, Next
  PROVE  \/ cliRuns' = cliRuns
         \/ cliRuns < MaxCliRuns /\ cliRuns' = cliRuns + 1
<1>1. ASSUME NEW p \in Procs, OpeningStep(p)
      PROVE  \/ cliRuns' = cliRuns
             \/ cliRuns < MaxCliRuns /\ cliRuns' = cliRuns + 1
  BY <1>1 DEF OpeningStep, OpenStore, SelectInterrupted, FinishOpen,
              RecoverJob, histVars
<1>2. ASSUME NEW c \in Calls, NEW q \in Request, Admit(c, q)
      PROVE  cliRuns' = cliRuns
  BY <1>2 DEF Admit
<1>3. CASE CallOrWriterStep
  BY <1>3 DEF CallOrWriterStep
<1>4. CASE CrashDaemon \/ CrashCli
  BY <1>4 DEF CrashDaemon, DaemonGone, CrashCli, Fault
<1> QED BY <1>1, <1>2, <1>3, <1>4, StepKinds

(* Without principal-init runs the daemon stays alone, and its recovery    *)
(* never has a job both on its list and in hand.                           *)
LEMMA SoleStep ==
  ASSUME TypeOK, SoleInv, Next, cliRuns' = 0
  PROVE  SoleInv'
<1> USE DEF dbVars, histVars
<1>p. "daemon" \in Procs /\ "daemon" \in Writers /\ "daemon" \notin Calls
      /\ "cli" \in Writers /\ "cli" \in Procs /\ "cli" \notin Calls
  BY PublishAssumption DEF Procs, Writers
<1>1. ASSUME store' = store, cliRuns' = cliRuns,
             write'["cli"] = write["cli"],
             \/ write'["daemon"] = write["daemon"]
             \/ write'["daemon"].stage = "idle"
             \/ /\ write'["daemon"].job = write["daemon"].job
                /\ write["daemon"].stage # "idle"
      PROVE  SoleInv'
  BY <1>1 DEF SoleInv
<1>2. ASSUME NEW c \in Calls, CallAction(c) PROVE SoleInv'
  BY <1>1, <1>2, <1>p, CallFrame
<1>3. ASSUME UpdateJob("daemon") PROVE SoleInv'
  <2>1. write'["daemon"].job = write["daemon"].job
    BY <1>3, <1>p DEF UpdateJob, TypeOK, Writing
  <2>2. write'["cli"] = write["cli"] /\ store' = store /\ cliRuns' = cliRuns
    BY <1>3, <1>p DEF UpdateJob, TypeOK
  <2> QED BY <1>1, <1>3, <2>1, <2>2 DEF UpdateJob
<1>4. ASSUME DeleteResults("daemon") \/ InsertResult("daemon")
      PROVE  SoleInv'
  <2>1. PICK rest : ContinueWith("daemon", rest)
    BY <1>4 DEF DeleteResults, InsertResult
  <2>2. /\ write'["cli"] = write["cli"]
        /\ \/ write'["daemon"].stage = "idle"
           \/ write'["daemon"].job = write["daemon"].job
    BY <2>1, <1>p DEF ContinueWith, TypeOK, Writing, NoWrite
  <2> QED BY <1>1, <1>4, <2>2 DEF DeleteResults, InsertResult
<1>5. ASSUME NEW c \in Calls, RecoverJob("daemon", c) PROVE SoleInv'
  <2>1. /\ store'["daemon"].todo = store["daemon"].todo \ {c}
        /\ store'["daemon"].state = "recovering"
        /\ store'["cli"] = store["cli"]
    BY <1>5, <1>p DEF RecoverJob, TypeOK, OpenState
  <2>2. write'["daemon"].job = c /\ write'["cli"] = write["cli"]
    BY <1>5, <1>p DEF RecoverJob, TypeOK
  <2>3. cliRuns' = cliRuns
    BY <1>5 DEF RecoverJob
  <2> QED BY <2>1, <2>2, <2>3 DEF SoleInv
<1>6. ASSUME SelectInterrupted("daemon") PROVE SoleInv'
  <2>1. /\ store'["daemon"].state = "recovering"
        /\ store'["cli"] = store["cli"]
        /\ UNCHANGED <<write, cliRuns>>
        /\ store["daemon"].state # "recovering"
    BY <1>6, <1>p DEF SelectInterrupted, TypeOK
  <2> QED BY <2>1 DEF SoleInv
<1>7. ASSUME OpenStore("daemon") PROVE SoleInv'
  <2>1. /\ store'["daemon"].state = "selecting"
        /\ store'["daemon"].todo = store["daemon"].todo
        /\ store'["cli"] = store["cli"]
        /\ UNCHANGED <<write, cliRuns>>
        /\ store["daemon"].state # "recovering"
    BY <1>7, <1>p DEF OpenStore, TypeOK, OpenState
  <2> QED BY <2>1 DEF SoleInv
<1>8. ASSUME FinishOpen("daemon") PROVE SoleInv'
  <2>1. /\ store'["daemon"].todo = {}
        /\ store'["cli"] = store["cli"]
        /\ UNCHANGED <<write, cliRuns>>
        /\ write["daemon"].stage = "idle"
    BY <1>8, <1>p DEF FinishOpen, RecoveryDone, TypeOK
  <2> QED BY <2>1 DEF SoleInv
<1>9. ASSUME CrashDaemon PROVE SoleInv'
  <2>1. /\ store'["daemon"].todo = {}
        /\ store'["cli"] = store["cli"]
        /\ write'["daemon"].stage = "idle"
        /\ write'["cli"] = write["cli"]
        /\ cliRuns' = cliRuns
    BY <1>9, <1>p DEF CrashDaemon, DaemonGone, Fault, TypeOK, NoWrite
  <2> QED BY <2>1 DEF SoleInv
<1>10. ~RecoveryStep("cli") /\ ~OpenStore("cli") /\ ~CrashCli
  BY DEF SoleInv, RecoveryStep, SelectInterrupted, RecoverJob, UpdateJob,
         DeleteResults, InsertResult, FinishOpen, OpenStore, CrashCli
<1> QED
  BY <1>2, <1>3, <1>4, <1>5, <1>6, <1>7, <1>8, <1>9, <1>10, Zenon
  DEF Next, RecoveryStep, Environment, Procs, CallAction

(* With one process an UPDATE concerns nobody else: its job is not on the  *)
(* list of the recovery, in no other writer's hands, and its call is not   *)
(* on the way to the relays.                                               *)
LEMMA UpdateIsPrivate ==
  ASSUME TypeOK, WriteInv, RunInv, SoleInv, NEW w \in Writers, UpdateJob(w)
  PROVE  /\ write[w].job \notin store["daemon"].todo
         /\ \A v \in Writers \ {w} : write[v].stage = "update" =>
                                       write[v].job # write[w].job
         /\ \A c \in Calls : pc[c] \in Attempting => c # write[w].job
<1>a. Attempting \subseteq Active /\ "completing" \in Active
      /\ "completing" \notin Attempting
  BY DEF Attempting, Active, DbSteps, Awaiting
<1>b. \A v \in Calls : write[v].stage # "idle" =>
        write[v].job = v /\ pc[v] = "completing"
  BY DEF WriteInv, Writers
<1>c. write[w].stage = "update"
  BY DEF UpdateJob
<1>1. CASE w \in Calls
  <2>1. /\ write[w].job = w /\ pc[w] = "completing"
        /\ store["daemon"].state = "open"
    BY <1>1, <1>a, <1>b, <1>c DEF RunInv
  <2>2. store["daemon"].todo = {} /\ write["daemon"].stage = "idle"
        /\ write["cli"].stage = "idle"
    BY <2>1 DEF SoleInv
  <2> QED BY <1>a, <1>b, <2>1, <2>2 DEF Writers, Procs
<1>2. CASE w = "daemon"
  <2>1. /\ store["daemon"].state = "recovering"
        /\ write["daemon"].job \notin store["daemon"].todo
        /\ write["cli"].stage = "idle"
    BY <1>2, <1>c DEF SoleInv
  <2>2. \A c \in Calls : pc[c] \notin Active
    BY <2>1 DEF RunInv
  <2>3. \A v \in Calls : write[v].stage = "idle"
    BY <2>2, <1>a, <1>b
  <2> QED BY <1>2, <1>a, <2>1, <2>2, <2>3 DEF Writers, Procs
<1>3. CASE w = "cli"
  BY <1>3, <1>c DEF SoleInv
<1> QED BY <1>1, <1>2, <1>3 DEF Writers, Procs

(* Only an UPDATE takes a job out of Publishing.                           *)
LEMMA PublishingStays ==
  ASSUME TypeOK, Next, NEW c \in Calls, Publishing(c),
         \A w \in Writers : UpdateJob(w) => c # write[w].job
  PROVE  Publishing(c)'
<1>1. CASE jobs' = jobs
  BY <1>1 DEF Publishing
<1>2. ASSUME NEW d \in Calls, InsertJob(d) PROVE Publishing(c)'
  <2>1. CASE KeyTaken(d)
    BY <1>2, <2>1 DEF InsertJob, Publishing
  <2>2. CASE ~KeyTaken(d)
    BY <1>2, <2>2, InsertRows DEF Publishing
  <2> QED BY <2>1, <2>2
<1>3. ASSUME NEW w \in Writers, UpdateJob(w) PROVE Publishing(c)'
  <2>1. c # write[w].job
    BY <1>3
  <2> QED BY <1>3, <2>1 DEF UpdateJob, Publishing, TypeOK
<1> QED BY <1>1, <1>2, <1>3, JobsChange

(* Who begins to settle a job: a call on its way to the relays, or the     *)
(* recovery with a job of its list.                                        *)
LEMMA WriteNews ==
  ASSUME TypeOK, Next, NEW w \in Writers, write'[w].stage = "update"
  PROVE  \/ write'[w] = write[w]
         \/ /\ w \in Calls /\ pc[w] \in Attempting /\ write'[w].job = w
            /\ jobs' = jobs
         \/ /\ w \in Procs /\ write'[w].job \in store[w].todo
            /\ jobs' = jobs
<1> USE DEF dbVars, histVars
<1> DEFINE News == \/ write'[w] = write[w]
                   \/ /\ w \in Calls /\ pc[w] \in Attempting
                      /\ write'[w].job = w /\ jobs' = jobs
                   \/ /\ w \in Procs /\ write'[w].job \in store[w].todo
                      /\ jobs' = jobs
<1> SUFFICES News
  OBVIOUS
<1>1. ASSUME NEW c \in Calls, NEW status, NEW error, NEW rows,
             Complete(c, status, error, rows), pc[c] \in Attempting,
             jobs' = jobs
      PROVE  News
  <2>1. \A v \in Writers : write'[v] =
          IF v = c THEN [stage |-> "update", job |-> c, status |-> status,
                         lastError |-> error, rows |-> rows]
                   ELSE write[v]
    BY <1>1 DEF Complete, TypeOK
  <2> QED BY <1>1, <2>1
<1>2. ASSUME NEW c \in Calls,
             RecordReadOutcomes(c) \/ PublishDone(c) \/ PublishAborted(c)
      PROVE  News
  <2>1. pc[c] \in Attempting /\ jobs' = jobs
    BY <1>2 DEF RecordReadOutcomes, PublishDone, PublishAborted, Attempting
  <2>2. \/ UNCHANGED write
        \/ \E status, error, rows : Complete(c, status, error, rows)
    BY <1>2 DEF RecordReadOutcomes, PublishDone, PublishAborted, Execute,
                CompleteWith
  <2> QED BY <1>1, <2>1, <2>2
<1>3. ASSUME NEW v \in Writers, UpdateJob(v) PROVE News
  BY <1>3 DEF UpdateJob, TypeOK, Writing
<1>4. ASSUME NEW v \in Writers, DeleteResults(v) \/ InsertResult(v)
      PROVE  News
  <2>1. PICK rest : ContinueWith(v, rest)
    BY <1>4 DEF DeleteResults, InsertResult
  <2>2. write'[v].stage # "update" /\ \A u \in Writers \ {v} :
          write'[u] = write[u]
    BY <2>1 DEF ContinueWith, TypeOK, Writing, NoWrite
  <2> QED BY <2>2
<1>5. ASSUME NEW p \in Procs, NEW c \in Calls, RecoverJob(p, c)
      PROVE  News
  <2>1. p \in Writers /\ p \notin Calls
    BY PublishAssumption DEF Writers, Procs
  <2>2. \A v \in Writers : v # p => write'[v] = write[v]
    BY <1>5 DEF RecoverJob, TypeOK
  <2>3. write'[p].job = c /\ jobs' = jobs /\ c \in store[p].todo
    BY <1>5, <2>1 DEF RecoverJob, TypeOK
  <2> QED BY <2>2, <2>3
<1>6. ASSUME CrashDaemon \/ CrashCli \/ \E c \in Calls : StatementFails(c)
      PROVE  News
  <2>1. \A v \in Writers : write'[v] = write[v] \/ write'[v] = NoWrite
    BY <1>6 DEF CrashDaemon, DaemonGone, CrashCli, StatementFails, TypeOK
  <2> QED BY <2>1 DEF NoWrite
<1>7. CASE UNCHANGED write
  BY <1>7
<1>8. \/ UNCHANGED write
      \/ \E c \in Calls : \/ RecordReadOutcomes(c) \/ PublishDone(c)
                          \/ PublishAborted(c) \/ StatementFails(c)
      \/ \E v \in Writers : UpdateJob(v) \/ DeleteResults(v) \/ InsertResult(v)
      \/ \E p \in Procs : \E c \in Calls : RecoverJob(p, c)
      \/ CrashDaemon \/ CrashCli
  BY DEF Next, CallStep, RecoveryStep, Environment, Writers,
         Resolve, LookupKey, LookupReadOutcomes, InsertJob, ReadRow,
         FinalReadOutcomes, SelectInterrupted, FinishOpen, Admit, Refuse,
         RelayReplies, OpenStore, Disconnect
<1> QED BY <1>2, <1>3, <1>4, <1>5, <1>6, <1>7, <1>8

(* A call comes on the way to the relays by inserting its job.             *)
LEMMA AttemptNews ==
  ASSUME TypeOK, WriteInv, Next, NEW c \in Calls, pc'[c] \in Attempting
  PROVE  pc[c] \in Attempting \/ Publishing(c)'
<1> USE DEF dbVars, histVars
<1>a. Attempting = {"recordRow", "recordRead", "publishing"}
  BY DEF Attempting
<1>1. ASSUME NEW d \in Calls, NEW place, pc' = [pc EXCEPT ![d] = place],
             place \in Attempting => pc[d] \in Attempting
      PROVE  pc[c] \in Attempting
  BY <1>1 DEF TypeOK
<1>2. ASSUME NEW d \in Calls,
             \/ \E q \in Request : Admit(d, q)
             \/ Refuse(d)
             \/ \E r \in Resolutions : Resolve(d, r)
             \/ LookupKey(d)
             \/ LookupReadOutcomes(d)
             \/ ReadRow(d)
             \/ RecordReadOutcomes(d)
             \/ PublishDone(d)
             \/ PublishAborted(d)
             \/ FinalReadOutcomes(d)
             \/ Disconnect(d)
             \/ StatementFails(d)
      PROVE  pc[c] \in Attempting
  <2>1. CASE ReadRow(d) \/ RecordReadOutcomes(d) \/ PublishDone(d)
             \/ PublishAborted(d)
    <3>1. \E place : pc' = [pc EXCEPT ![d] = place]
      BY <2>1 DEF ReadRow, RecordReadOutcomes, PublishDone, PublishAborted,
                  End, Execute, CompleteWith, Complete
    <3>2. pc[d] \in Attempting \/ pc' = [pc EXCEPT ![d] = "finalRead"]
      BY <2>1, <1>a DEF ReadRow, RecordReadOutcomes, PublishDone,
                        PublishAborted
    <3> QED BY <1>1, <1>a, <3>1, <3>2
  <2>2. CASE LookupReadOutcomes(d)
    <3>1. PICK how \in {"failed", "conflict", "deduplicated"} : End(d, how)
      BY <2>2 DEF LookupReadOutcomes
    <3> QED BY <1>1, <1>a, <3>1 DEF End
  <2>3. CASE ~(\/ ReadRow(d) \/ RecordReadOutcomes(d) \/ PublishDone(d)
               \/ PublishAborted(d) \/ LookupReadOutcomes(d))
    <3>1. \E place : pc' = [pc EXCEPT ![d] = place] /\ place \notin Attempting
      BY <1>2, <1>a, <2>3 DEF Admit, Refuse, Resolve, LookupKey,
           FinalReadOutcomes, Disconnect, StatementFails, End
    <3> QED BY <1>1, <3>1
  <2> QED BY <2>1, <2>2, <2>3
<1>3. ASSUME NEW d \in Calls, InsertJob(d)
      PROVE  pc[c] \in Attempting \/ Publishing(c)'
  <2>1. CASE KeyTaken(d)
    <3>1. pc' = [pc EXCEPT ![d] = "conflict"]
      BY <1>3, <2>1 DEF InsertJob, End
    <3> QED BY <1>1, <1>a, <3>1
  <2>2. CASE ~KeyTaken(d)
    BY <1>3, <2>2, InsertRows
  <2> QED BY <2>1, <2>2
<1>4. ASSUME NEW w \in Writers, DeleteResults(w) \/ InsertResult(w)
      PROVE  pc[c] \in Attempting
  <2>1. \/ pc' = pc
        \/ w \in Calls /\ pc' = [pc EXCEPT ![w] = "finalRow"]
    BY <1>4 DEF DeleteResults, InsertResult, ContinueWith
  <2> QED BY <1>1, <1>a, <2>1
<1>5. CASE CrashDaemon
  BY <1>5, <1>a DEF CrashDaemon, DaemonGone
<1>6. CASE pc' = pc
  BY <1>6
<1>7. \/ pc' = pc
      \/ \E d \in Calls :
           \/ \E q \in Request : Admit(d, q)
           \/ Refuse(d)
           \/ \E r \in Resolutions : Resolve(d, r)
           \/ LookupKey(d)
           \/ LookupReadOutcomes(d)
           \/ InsertJob(d)
           \/ ReadRow(d)
           \/ RecordReadOutcomes(d)
           \/ PublishDone(d)
           \/ PublishAborted(d)
           \/ FinalReadOutcomes(d)
           \/ Disconnect(d)
           \/ StatementFails(d)
      \/ \E w \in Writers : DeleteResults(w) \/ InsertResult(w)
      \/ CrashDaemon
  BY DEF Next, CallStep, RecoveryStep, Environment, Writers, UpdateJob,
         SelectInterrupted, RecoverJob, FinishOpen, RelayReplies, OpenStore,
         CrashCli
<1> QED BY <1>2, <1>3, <1>4, <1>5, <1>6, <1>7

(* What recovery has to do comes from the table.                           *)
LEMMA TodoNews ==
  ASSUME TypeOK, Next, NEW c \in store'["daemon"].todo
  PROVE  c \in store["daemon"].todo \/ Publishing(c)'
<1> USE DEF dbVars, histVars
<1>p. "daemon" \in Procs /\ "cli" \in Procs
  BY DEF Procs
<1>1. CASE SelectInterrupted("daemon")
  BY <1>1, <1>p DEF SelectInterrupted, Interrupted, Publishing, TypeOK
<1>2. CASE \E p \in Procs : \/ OpenStore(p) \/ FinishOpen(p)
                            \/ \E d \in Calls : RecoverJob(p, d)
  <2> PICK p \in Procs : \/ OpenStore(p) \/ FinishOpen(p)
                         \/ \E d \in Calls : RecoverJob(p, d)
    BY <1>2
  <2>1. CASE OpenStore(p)
    BY <2>1, <1>p DEF OpenStore, TypeOK, OpenState
  <2>2. CASE FinishOpen(p)
    BY <2>2, <1>p DEF FinishOpen, TypeOK
  <2>3. CASE \E d \in Calls : RecoverJob(p, d)
    BY <2>3, <1>p DEF RecoverJob, TypeOK, OpenState
  <2> QED BY <2>1, <2>2, <2>3
<1>3. CASE SelectInterrupted("cli") \/ CrashCli
  <2>1. store'["daemon"] = store["daemon"]
    BY <1>3, <1>p DEF SelectInterrupted, CrashCli, TypeOK
  <2> QED BY <2>1
<1>4. CASE CrashDaemon
  BY <1>4, <1>p DEF CrashDaemon, DaemonGone, TypeOK
<1>5. CASE store' = store
  BY <1>5
<1>6. CASE \E d \in Calls : CallAction(d)
  BY <1>5, <1>6, CallFrame
<1>7. CASE \E p \in Procs : \/ UpdateJob(p) \/ DeleteResults(p)
                            \/ InsertResult(p)
  BY <1>5, <1>7 DEF UpdateJob, DeleteResults, InsertResult
<1> QED
  BY <1>1, <1>2, <1>3, <1>4, <1>6, <1>7, Zenon
  DEF Next, RecoveryStep, Environment, Procs, CallAction

(* With one process, whoever is to settle a job keeps finding it open.     *)
LEMMA OpenStep ==
  ASSUME TypeOK, WriteInv, RunInv, SoleInv, OpenInv, Next
  PROVE  OpenInv'
<1>1. ASSUME NEW c \in Calls, Publishing(c), ~Publishing(c)'
      PROVE  /\ c \notin store["daemon"].todo
             /\ \A v \in Writers : write'[v] = write[v] =>
                  ~(write[v].stage = "update" /\ write[v].job = c)
             /\ pc[c] \notin Attempting
             /\ jobs' # jobs
  <2>1. PICK w \in Writers : UpdateJob(w) /\ c = write[w].job
    BY <1>1, PublishingStays
  <2>2. write'[w] # write[w]
    BY <2>1 DEF UpdateJob, TypeOK, Writing
  <2>3. jobs' # jobs
    BY <1>1 DEF Publishing
  <2> QED BY <2>1, <2>2, <2>3, UpdateIsPrivate
<1>2. \A p \in Procs : store[p].todo \subseteq Calls
  BY DEF TypeOK, OpenState
<1>3. \A c \in store'["daemon"].todo : Publishing(c)'
  BY <1>1, <1>2, TodoNews DEF OpenInv, Procs
<1>4. \A c \in Calls : pc'[c] \in Attempting => Publishing(c)'
  BY <1>1, AttemptNews DEF OpenInv
<1>5. ASSUME NEW w \in Writers, write'[w].stage = "update"
      PROVE  jobs'[write'[w].job].status = "Publishing"
  <2>1. CASE write'[w] = write[w]
    <3>1. write[w].job \in Calls /\ Publishing(write[w].job)
      BY <1>5, <2>1 DEF WriteInv, OpenInv
    <3>2. \A c \in Calls : c = write[w].job => Publishing(c)'
      BY <1>1, <1>5, <2>1, <3>1
    <3> QED BY <2>1, <3>1, <3>2 DEF Publishing
  <2>2. CASE /\ w \in Calls /\ pc[w] \in Attempting /\ write'[w].job = w
             /\ jobs' = jobs
    BY <2>2 DEF OpenInv, Publishing
  <2>3. CASE /\ w \in Procs /\ write'[w].job \in store[w].todo
             /\ jobs' = jobs
    BY <2>3 DEF OpenInv, SoleInv, Publishing, Procs
  <2> QED BY <1>5, <2>1, <2>2, <2>3, WriteNews
<1> QED BY <1>3, <1>4, <1>5 DEF OpenInv, Publishing

-----------------------------------------------------------------------------
(* THE LEDGER                                                              *)

(* The entries of the ledger a state stands for.                           *)
LedgerOf    == [c \in Calls |-> jobs[c].status]
KeysOf      == [c \in Calls |-> IF Recorded(c) THEN req[c].key ELSE None]
ContactedOf == {c \in Calls : Contacted(c)}

(* The first state is an empty ledger.                                     *)
LEMMA LedgerStarts == Init => Ledger!LedgerInit
BY DEF Init, Ledger!LedgerInit, Recorded, Contacted, NoRow

(* Recording a job records an entry.                                       *)
LEMMA InsertRecordsEntry ==
  ASSUME TypeOK, PhaseInv, NEW c \in Calls, InsertJob(c)
  PROVE  \/ Ledger!Record(c, req[c].key)
         \/ UNCHANGED <<LedgerOf, KeysOf, ContactedOf>>
<1>1. req' = req /\ replies' = replies
  BY DEF InsertJob
<1>2. ContactedOf' = ContactedOf
  BY <1>1 DEF ContactedOf, Contacted
<1>3. CASE KeyTaken(c)
  <2>1. jobs' = jobs
    BY <1>3 DEF InsertJob
  <2> QED BY <1>1, <1>2, <2>1 DEF LedgerOf, KeysOf, Recorded
<1>4. CASE ~KeyTaken(c)
  <2>1. jobs[c].status = "Absent"
    BY DEF InsertJob, PhaseInv, BeforeInsert, Recorded
  <2>2. /\ jobs'[c].status = "Publishing"
        /\ \A d \in Calls \ {c} : jobs'[d] = jobs[d]
    BY <1>4, InsertRows DEF Publishing
  <2>3. LedgerOf' = [LedgerOf EXCEPT ![c] = "Publishing"]
    BY <2>2 DEF LedgerOf
  <2>4. KeysOf' = [KeysOf EXCEPT ![c] = req[c].key]
    BY <1>1, <2>2 DEF KeysOf, Recorded
  <2>5. req[c].key # None =>
          \A d \in Calls : jobs[d].status = "Absent" \/ KeysOf[d] # req[c].key
    BY <1>4 DEF KeyTaken, KeysOf, Recorded
  <2> QED
    BY <1>2, <2>1, <2>3, <2>4, <2>5
    DEF Ledger!Record, LedgerOf, KeysOf, ContactedOf
<1> QED BY <1>3, <1>4

(* An UPDATE settles the entry, which was open.                            *)
LEMMA UpdateSettlesEntry ==
  ASSUME TypeOK, WriteInv, OpenInv, NEW w \in Writers, UpdateJob(w)
  PROVE  Ledger!Settle(write[w].job, write[w].status)
<1> DEFINE j == write[w].job
<1>1. /\ j \in Calls /\ jobs[j].status = "Publishing"
      /\ jobs'[j].status = write[w].status
      /\ \A d \in Calls \ {j} : jobs'[d] = jobs[d]
  BY UpdateRows DEF OpenInv, Publishing, UpdateJob
<1>2. req' = req /\ replies' = replies
  BY DEF UpdateJob
<1>3. \A d \in Calls : Recorded(d)' <=> Recorded(d)
  BY UpdateRecords
<1> HIDE DEF j
<1>4. LedgerOf' = [LedgerOf EXCEPT ![j] = write[w].status]
  BY <1>1 DEF LedgerOf
<1>5. KeysOf' = KeysOf
  BY <1>2, <1>3 DEF KeysOf
<1>6. ContactedOf' = ContactedOf
  BY <1>2 DEF ContactedOf, Contacted
<1>7. LedgerOf[j] = "Publishing"
  BY <1>1 DEF LedgerOf
<1> QED
  BY <1>4, <1>5, <1>6, <1>7
  DEF j, Ledger!Settle, LedgerOf, KeysOf, ContactedOf

(* A reply is a contact with a relay for an entry that is open.            *)
LEMMA ReplyContacts ==
  ASSUME TypeOK, OpenInv, NEW c \in Calls, NEW r \in Relays,
         NEW kind \in ReplyKinds, RelayReplies(c, r, kind)
  PROVE  Ledger!Contact(c)
<1>1. jobs[c].status = "Publishing"
  BY DEF RelayReplies, OpenInv, Attempting, Publishing
<1>2. jobs' = jobs /\ req' = req
  BY DEF RelayReplies, dbVars
<1>3. kind # None
  BY PublishAssumption DEF Kinds, None
<1>4. replies'[c][r] = kind
  BY DEF RelayReplies, TypeOK
<1>5. \A d \in Calls \ {c} : replies'[d] = replies[d]
  BY DEF RelayReplies, TypeOK
<1>6. ContactedOf' = ContactedOf \cup {c}
  BY <1>3, <1>4, <1>5 DEF ContactedOf, Contacted
<1> QED
  BY <1>1, <1>2, <1>6 DEF Ledger!Contact, LedgerOf, KeysOf, ContactedOf, Recorded

(* Every step of a database with one process is a step of the ledger.      *)
LEMMA LedgerStep ==
  ASSUME IInv, SoleInv, OpenInv, Next
  PROVE  [Ledger!LedgerNext]_(Ledger!ledgerVars)
<1> USE DEF dbVars, histVars
<1>0. ASSUME UNCHANGED <<LedgerOf, KeysOf, ContactedOf>>
      PROVE  UNCHANGED Ledger!ledgerVars
  BY <1>0 DEF Ledger!ledgerVars, LedgerOf, KeysOf, ContactedOf
<1>1. ASSUME NEW c \in Calls, InsertJob(c)
      PROVE  [Ledger!LedgerNext]_(Ledger!ledgerVars)
  <2>1. req[c].key \in Keys \cup {None}
    BY DEF IInv, TypeOK, Request, NoRequest
  <2>2. \/ Ledger!Record(c, req[c].key)
        \/ UNCHANGED <<LedgerOf, KeysOf, ContactedOf>>
    BY <1>1, InsertRecordsEntry DEF IInv
  <2>3. Ledger!Record(c, req[c].key) => Ledger!LedgerNext
    BY <2>1 DEF Ledger!LedgerNext, Ledger!Record
  <2> QED BY <1>0, <2>2, <2>3, Zenon
<1>2. ASSUME NEW w \in Writers, UpdateJob(w)
      PROVE  Ledger!LedgerNext
  <2>1. write[w].job \in Calls /\ write[w].status \in FinalStatus
    BY <1>2, UpdateRows DEF IInv
  <2>2. Ledger!Settle(write[w].job, write[w].status)
    BY <1>2, UpdateSettlesEntry DEF IInv
  <2> QED BY <2>1, <2>2 DEF Ledger!LedgerNext, Ledger!Settle
<1>3. ASSUME NEW c \in Calls, NEW r \in Relays, NEW kind \in ReplyKinds,
             RelayReplies(c, r, kind)
      PROVE  Ledger!LedgerNext
  BY <1>3, ReplyContacts DEF IInv, Ledger!LedgerNext
<1>4. ASSUME NEW c \in Calls, NEW q \in Request, Admit(c, q)
      PROVE  UNCHANGED Ledger!ledgerVars
  <2>1. ~Recorded(c)
    BY <1>4 DEF IInv, Admit, PhaseInv, BeforeInsert
  <2>2. jobs' = jobs /\ replies' = replies
        /\ \A d \in Calls \ {c} : req'[d] = req[d]
    BY <1>4 DEF Admit, IInv, TypeOK
  <2> QED
    BY <1>0, <2>1, <2>2 DEF LedgerOf, KeysOf, ContactedOf, Recorded, Contacted
<1>5. CASE UNCHANGED <<jobs, req, replies>>
  BY <1>0, <1>5 DEF LedgerOf, KeysOf, ContactedOf, Recorded, Contacted
<1>6. \/ UNCHANGED <<jobs, req, replies>>
      \/ \E c \in Calls : InsertJob(c)
      \/ \E c \in Calls : \E q \in Request : Admit(c, q)
      \/ \E c \in Calls : \E r \in Relays : \E kind \in ReplyKinds :
           RelayReplies(c, r, kind)
      \/ \E w \in Writers : UpdateJob(w)
  BY DEF Next, CallStep, RecoveryStep, Environment, Writers,
         Resolve, LookupKey, LookupReadOutcomes, ReadRow, RecordReadOutcomes,
         PublishDone, PublishAborted, DeleteResults, InsertResult,
         FinalReadOutcomes, SelectInterrupted, RecoverJob, FinishOpen, Refuse,
         OpenStore, CrashDaemon, DaemonGone, CrashCli, Disconnect,
         StatementFails
<1> QED BY <1>1, <1>2, <1>3, <1>4, <1>5, <1>6

(* The store implements the ledger as long as the daemon is the only       *)
(* process on the database: one entry per key, relays contacted only for   *)
(* an entry that is recorded and open, every entry settled once and for    *)
(* all, across crashes, recoveries, failing statements and disconnects.    *)
(* (principal init is excluded because its recovery rewrites the jobs of   *)
(* the running daemon.)                                                    *)
THEOREM LedgerImplemented == MaxCliRuns = 0 => (Spec => ImplementsLedger)
<1> DEFINE Inv == /\ MaxCliRuns = 0
                  /\ IInv /\ RunInv /\ SoleInv /\ OpenInv
<1>1. MaxCliRuns = 0 /\ Init => Inv
  <2> SUFFICES ASSUME MaxCliRuns = 0, Init PROVE Inv
    OBVIOUS
  <2>1. \A c \in Calls : pc[c] \notin Active /\ pc[c] \notin Attempting
    BY DEF Init, Active, DbSteps, Awaiting, Attempting
  <2>2. /\ \A p \in Procs : store[p].state = "closed" /\ store[p].todo = {}
        /\ \A w \in Writers : write[w].stage = "idle"
        /\ cliRuns = 0
    BY DEF Init, NoWrite
  <2>3. "daemon" \in Procs /\ "cli" \in Procs /\ Procs \subseteq Writers
    BY DEF Procs, Writers
  <2> QED BY <2>1, <2>2, <2>3, InitIInv DEF RunInv, SoleInv, OpenInv
<1>2. Inv /\ [Next]_vars => Inv'
  <2> SUFFICES ASSUME Inv, [Next]_vars PROVE Inv'
    OBVIOUS
  <2>1. CASE Next
    <3>1. cliRuns' = 0
      BY <2>1, CliRunsCount DEF IInv, SoleInv
    <3> QED BY <2>1, <3>1, StepIInv, RunStep, SoleStep, OpenStep DEF IInv
  <2>2. CASE UNCHANGED vars
    BY <2>2, StepIInv DEF vars, RunInv, SoleInv, OpenInv, Publishing
  <2> QED BY <2>1, <2>2
<1>3. Init => Ledger!LedgerInit
  BY LedgerStarts
<1>4. Inv /\ [Next]_vars => [Ledger!LedgerNext]_(Ledger!ledgerVars)
  <2> SUFFICES ASSUME Inv, [Next]_vars
               PROVE  [Ledger!LedgerNext]_(Ledger!ledgerVars)
    OBVIOUS
  <2>1. CASE Next
    BY <2>1, LedgerStep
  <2>2. CASE UNCHANGED vars
    BY <2>2 DEF vars, Ledger!ledgerVars, Recorded, Contacted
  <2> QED BY <2>1, <2>2
<1> QED
  BY <1>1, <1>2, <1>3, <1>4, PTL DEF Spec, ImplementsLedger, Ledger!LedgerSpec

-----------------------------------------------------------------------------
(* POLICIES AND OUTCOMES                                                   *)

(* delivery_status reports success exactly when the policy is satisfied.   *)
LEMMA SatisfiedStatus ==
  ASSUME NEW policy, NEW n, NEW outs,
         delivery_status(policy, n, outs) = "DeliverySatisfied"
  PROVE  Satisfied(policy, n, outs)
BY DEF delivery_status

(* The places of a sequence are as many as it is long.                     *)
LEMMA PlacesOf ==
  ASSUME NEW S, NEW s \in Seq(S)
  PROVE  /\ IsFiniteSet(DOMAIN s)
         /\ Cardinality(DOMAIN s) = Len(s)
         /\ Len(s) \in Nat
<1>1. Len(s) \in Nat /\ DOMAIN s = 1..Len(s)
  OBVIOUS
<1>2. /\ IsFiniteSet(1..Len(s))
      /\ Cardinality(1..Len(s)) = IF 1 > Len(s) THEN 0 ELSE Len(s) - 1 + 1
  BY <1>1, FS_Interval
<1> QED BY <1>1, <1>2

(* More acceptances do not undo a success.                                 *)
LEMMA FulfilsGrows ==
  ASSUME NEW p \in Policy, NEW snap \in Seq(Outcome),
         NEW A \in SUBSET DOMAIN snap, NEW B \in SUBSET DOMAIN snap,
         A \subseteq B, Fulfils(p, snap, A)
  PROVE  Fulfils(p, snap, B)
<1>1. /\ IsFiniteSet(DOMAIN snap)
      /\ Cardinality(DOMAIN snap) = Len(snap) /\ Len(snap) \in Nat
  BY PlacesOf
<1>2. IsFiniteSet(B) /\ Cardinality(B) <= Len(snap)
  BY <1>1, FS_Subset
<1>3. IsFiniteSet(A) /\ Cardinality(A) <= Cardinality(B)
  BY <1>2, FS_Subset
<1>4. Cardinality(A) \in Nat /\ Cardinality(B) \in Nat
  BY <1>2, <1>3, FS_CardinalityType
<1>5. p.quorum \in Nat
  BY DEF Policy
<1>6. CASE p.type = "Any"
  BY <1>3, <1>4, <1>6 DEF Fulfils
<1>7. CASE p.type = "All"
  BY <1>1, <1>2, <1>3, <1>4, <1>7 DEF Fulfils
<1>8. CASE p.type = "Quorum"
  BY <1>3, <1>4, <1>5, <1>8 DEF Fulfils
<1>9. CASE p.type \notin {"Any", "All", "Quorum"}
  <2>1. p.targets \subseteq {snap[i].target : i \in A}
    BY <1>9 DEF Fulfils
  <2>2. {snap[i].target : i \in A} \subseteq {snap[i].target : i \in B}
    OBVIOUS
  <2>3. p.targets \subseteq {snap[i].target : i \in B}
    BY <2>1, <2>2
  <2> QED BY <1>9, <2>3 DEF Fulfils
<1> QED BY <1>6, <1>7, <1>8, <1>9

(* The first outcomes of the required targets, when there are as many as   *)
(* required targets, are one for each.                                     *)
LEMMA RequiredCovered ==
  ASSUME NEW T \in SUBSET Targets, NEW outs \in Seq(Outcome),
         Cardinality(required_outcomes_for_policy(T, outs)) = Cardinality(T)
  PROVE  \A t \in T : \E i \in required_outcomes_for_policy(T, outs) :
           outs[i].target = t
<1> DEFINE found == required_outcomes_for_policy(T, outs)
           f     == [i \in found |-> outs[i].target]
<1>1. found \subseteq DOMAIN outs /\ DOMAIN outs \subseteq Nat
  BY DEF required_outcomes_for_policy
<1>2. \A i \in found : outs[i].target \in T
  BY DEF required_outcomes_for_policy
<1>3. \A i, j \in found : outs[i].target = outs[j].target => i = j
  <2> SUFFICES ASSUME NEW i \in found, NEW j \in found,
                      outs[i].target = outs[j].target
               PROVE  i = j
    OBVIOUS
  <2>1. i <= j /\ j <= i
    BY DEF required_outcomes_for_policy
  <2> QED BY <1>1, <2>1
<1> HIDE DEF found
<1>4. /\ f \in [found -> T] /\ \A i, j \in found : f[i] = f[j] => i = j
      /\ \A i \in found : f[i] = outs[i].target
  BY <1>2, <1>3
<1> HIDE DEF f
<1>5. f \in Injection(found, T)
  BY <1>4, Fun_IsInj
<1>6. IsFiniteSet(T)
  BY TargetAssumption, FS_Subset
<1>7. Cardinality(found) = Cardinality(T)
  BY DEF found
<1>8. f \in Surjection(found, T)
  BY <1>5, <1>6, <1>7, FS_Injection
<1>9. \A t \in T : \E i \in found : f[i] = t
  BY <1>8, Fun_SurjectionProperties
<1> QED BY <1>4, <1>9 DEF found

(* A policy that outcomes satisfy is fulfilled by the places accepted,     *)
(* when the outcomes are for the targets of the snapshot, in its order.    *)
LEMMA SatisfiedFulfils ==
  ASSUME NEW p \in Policy, NEW snap \in Seq(Outcome),
         NEW outs \in Seq(Outcome), NEW A \in SUBSET DOMAIN snap,
         Len(outs) = Len(snap),
         \A i \in DOMAIN snap : outs[i].target = snap[i].target,
         Acknowledged(outs) \subseteq A,
         Satisfied(p, Len(snap), outs)
  PROVE  Fulfils(p, snap, A)
<1>1. /\ IsFiniteSet(DOMAIN snap)
      /\ Cardinality(DOMAIN snap) = Len(snap) /\ Len(snap) \in Nat
  BY PlacesOf
<1>2. IsFiniteSet(A) /\ Cardinality(A) <= Len(snap)
  BY <1>1, FS_Subset
<1>3. /\ IsFiniteSet(Acknowledged(outs))
      /\ Cardinality(Acknowledged(outs)) <= Cardinality(A)
  BY <1>2, FS_Subset
<1>4. Cardinality(Acknowledged(outs)) \in Nat /\ Cardinality(A) \in Nat
  BY <1>2, <1>3, FS_CardinalityType
<1>5. p.quorum \in Nat /\ p.targets \in SUBSET Targets
  BY DEF Policy
<1>6. CASE p.type = "Any"
  BY <1>3, <1>4, <1>6 DEF Satisfied, required_target_count, Fulfils
<1>7. CASE p.type = "All"
  BY <1>1, <1>2, <1>3, <1>4, <1>7
  DEF Satisfied, required_target_count, Fulfils
<1>8. CASE p.type = "Quorum"
  BY <1>3, <1>4, <1>5, <1>8 DEF Satisfied, required_target_count, Fulfils
<1>9. CASE p.type = "RequiredTargets"
  <2> DEFINE found == required_outcomes_for_policy(p.targets, outs)
  <2>1. /\ Cardinality(found) = Cardinality(p.targets)
        /\ \A i \in found : outs[i].kind = "Accepted"
    BY <1>9 DEF Satisfied
  <2>2. found \subseteq DOMAIN outs
    BY DEF required_outcomes_for_policy
  <2>3. \A t \in p.targets : \E i \in found : outs[i].target = t
    BY <1>5, <2>1, RequiredCovered
  <2> HIDE DEF found
  <2>4. found \subseteq A
    BY <2>1, <2>2 DEF Acknowledged
  <2>5. p.targets \subseteq {snap[i].target : i \in A}
    BY <2>3, <2>4
  <2> QED BY <1>9, <2>5 DEF Fulfils
<1> QED BY <1>6, <1>7, <1>8, <1>9 DEF Policy

(* Both what is stored before an attempt and what comes out of it are the  *)
(* outcomes of the resolution, followed by one for each target to contact. *)
LEMMA AttemptShape ==
  ASSUME NEW r \in Resolution, NEW tail,
         tail \in [DOMAIN r.targets -> Outcome]
  PROVE  /\ r.outcomes \o tail \in Seq(Outcome)
         /\ Len(r.outcomes \o tail) = target_count(r)
         /\ target_count(r) \in Nat
         /\ \A i \in 1..target_count(r) :
              \/ /\ i \in DOMAIN r.outcomes
                 /\ (r.outcomes \o tail)[i] = r.outcomes[i]
              \/ /\ i \notin DOMAIN r.outcomes
                 /\ i - Len(r.outcomes) \in DOMAIN r.targets
                 /\ (r.outcomes \o tail)[i] = tail[i - Len(r.outcomes)]
<1> DEFINE s == r.outcomes
<1>1. r.targets \in Seq(Targets) /\ s \in Seq(Outcome)
  BY DEF Resolution
<1>2. tail \in Seq(Outcome) /\ Len(tail) = Len(r.targets)
  BY <1>1, MapType
<1> HIDE DEF s
<1>3. /\ s \o tail \in Seq(Outcome)
      /\ Len(s \o tail) = Len(s) + Len(tail)
      /\ \A i \in 1..Len(s) + Len(tail) :
           (s \o tail)[i] = IF i <= Len(s) THEN s[i] ELSE tail[i - Len(s)]
  BY <1>1, <1>2, ConcatProperties
<1>4. /\ Len(s) \in Nat /\ DOMAIN s = 1..Len(s)
      /\ Len(r.targets) \in Nat /\ DOMAIN r.targets = 1..Len(r.targets)
  BY <1>1
<1>5. target_count(r) = Len(s) + Len(tail) /\ target_count(r) \in Nat
  <2>1. target_count(r) = Len(r.targets) + Len(s)
    BY Zenon DEF target_count, s
  <2>2. Len(r.targets) + Len(s) = Len(s) + Len(tail)
    BY <1>2, <1>4
  <2> QED BY <1>4, <2>1, <2>2
<1>6. ASSUME NEW i \in 1..target_count(r)
      PROVE  \/ i \in DOMAIN s /\ (s \o tail)[i] = s[i]
             \/ /\ i \notin DOMAIN s
                /\ i - Len(s) \in DOMAIN r.targets
                /\ (s \o tail)[i] = tail[i - Len(s)]
  <2>1. i \in 1..Len(s) + Len(tail)
    BY <1>5
  <2>2. CASE i <= Len(s)
    BY <1>3, <1>4, <2>1, <2>2
  <2>3. CASE ~(i <= Len(s))
    <3>1. i - Len(s) \in 1..Len(r.targets) /\ i \notin 1..Len(s)
      BY <1>2, <1>4, <2>1, <2>3
    <3> QED BY <1>3, <1>4, <2>1, <2>3, <3>1
  <2> QED BY <2>2, <2>3
<1> QED BY <1>3, <1>5, <1>6 DEF s

(* A resolution accepts nothing by itself.                                 *)
NothingAccepted(outs) == \A i \in DOMAIN outs : outs[i].kind # "Accepted"

(* Nor does the snapshot taken of it.                                      *)
LEMMA SnapshotAcceptsNothing ==
  ASSUME NEW r \in Resolution, NothingAccepted(r.outcomes)
  PROVE  NothingAccepted(target_snapshots_from_resolution(r))
<1> DEFINE tail == [i \in DOMAIN r.targets |->
                      [target |-> r.targets[i], kind |-> "Retryable"]]
           snap == r.outcomes \o tail
<1>1. tail \in [DOMAIN r.targets -> Outcome]
  BY DEF Resolution, Outcome, Kinds
<1>2. \A i \in DOMAIN r.targets : tail[i].kind = "Retryable"
  OBVIOUS
<1>3. target_snapshots_from_resolution(r) = snap
  BY DEF target_snapshots_from_resolution
<1> HIDE DEF tail
<1>4. /\ snap \in Seq(Outcome) /\ Len(snap) = target_count(r)
      /\ \A i \in 1..target_count(r) :
           \/ i \in DOMAIN r.outcomes /\ snap[i] = r.outcomes[i]
           \/ /\ i - Len(r.outcomes) \in DOMAIN r.targets
              /\ snap[i] = tail[i - Len(r.outcomes)]
  BY <1>1, AttemptShape
<1> HIDE DEF snap
<1>5. DOMAIN snap = 1..target_count(r)
  BY <1>4
<1> QED BY <1>2, <1>3, <1>4, <1>5 DEF NothingAccepted

(* The outcomes of an attempt are for the targets of its snapshot, and an  *)
(* outcome is Accepted only where the relay of the target accepted.        *)
LEMMA OutcomesMatchSnapshot ==
  ASSUME NEW r \in Resolution, NothingAccepted(r.outcomes), NEW receipts,
         \A x \in RelaySet(r) : receipts[x] \in Kinds
  PROVE  LET outs == outcomes_from_receipts(r, receipts)
             snap == target_snapshots_from_resolution(r)
         IN  /\ outs \in Seq(Outcome) /\ snap \in Seq(Outcome)
             /\ Len(outs) = Len(snap) /\ Len(snap) = target_count(r)
             /\ \A i \in DOMAIN snap :
                  /\ outs[i].target = snap[i].target
                  /\ outs[i].kind = "Accepted" =>
                       /\ snap[i].kind = "Retryable"
                       /\ receipts[RelayOf[snap[i].target]] = "Accepted"
                       /\ RelayOf[snap[i].target] \in RelaySet(r)
<1> DEFINE pend == [i \in DOMAIN r.targets |->
                      [target |-> r.targets[i], kind |-> "Retryable"]]
           done == [i \in DOMAIN r.targets |->
                      [target |-> r.targets[i],
                       kind   |-> receipts[RelayOf[r.targets[i]]]]]
           snap == r.outcomes \o pend
           outs == r.outcomes \o done
<1>1. /\ pend \in [DOMAIN r.targets -> Outcome]
      /\ done \in [DOMAIN r.targets -> Outcome]
  BY DEF Resolution, Outcome, Kinds, RelaySet
<1>2. \A i \in DOMAIN r.targets :
        /\ pend[i].kind = "Retryable" /\ pend[i].target = r.targets[i]
        /\ done[i].kind = receipts[RelayOf[r.targets[i]]]
        /\ done[i].target = r.targets[i]
        /\ RelayOf[r.targets[i]] \in RelaySet(r)
  BY DEF RelaySet
<1>3. /\ target_snapshots_from_resolution(r) = snap
      /\ outcomes_from_receipts(r, receipts) = outs
  BY DEF target_snapshots_from_resolution, outcomes_from_receipts
<1> HIDE DEF pend, done
<1>4. /\ snap \in Seq(Outcome) /\ Len(snap) = target_count(r)
      /\ \A i \in 1..target_count(r) :
           \/ i \in DOMAIN r.outcomes /\ snap[i] = r.outcomes[i]
           \/ /\ i \notin DOMAIN r.outcomes
              /\ i - Len(r.outcomes) \in DOMAIN r.targets
              /\ snap[i] = pend[i - Len(r.outcomes)]
  BY <1>1, AttemptShape
<1>5. /\ outs \in Seq(Outcome) /\ Len(outs) = target_count(r)
      /\ \A i \in 1..target_count(r) :
           \/ i \in DOMAIN r.outcomes /\ outs[i] = r.outcomes[i]
           \/ /\ i \notin DOMAIN r.outcomes
              /\ i - Len(r.outcomes) \in DOMAIN r.targets
              /\ outs[i] = done[i - Len(r.outcomes)]
  BY <1>1, AttemptShape
<1> HIDE DEF snap, outs
<1>6. DOMAIN snap = 1..target_count(r)
  BY <1>4
<1>7. ASSUME NEW i \in DOMAIN snap
      PROVE  /\ outs[i].target = snap[i].target
             /\ outs[i].kind = "Accepted" =>
                  /\ snap[i].kind = "Retryable"
                  /\ receipts[RelayOf[snap[i].target]] = "Accepted"
                  /\ RelayOf[snap[i].target] \in RelaySet(r)
  <2>1. CASE i \in DOMAIN r.outcomes
    BY <1>4, <1>5, <1>6, <2>1 DEF NothingAccepted
  <2>2. CASE i \notin DOMAIN r.outcomes
    BY <1>2, <1>4, <1>5, <1>6, <2>2
  <2> QED BY <2>1, <2>2
<1> QED BY <1>3, <1>4, <1>5, <1>7

(* When nothing can be sent, the snapshot is the outcomes already decided. *)
LEMMA NothingToSend ==
  ASSUME NEW r \in Resolution, r.targets = <<>>
  PROVE  LET snap == target_snapshots_from_resolution(r)
         IN  /\ Len(snap) = target_count(r)
             /\ Len(r.outcomes) = Len(snap)
             /\ \A i \in DOMAIN snap : r.outcomes[i].target = snap[i].target
<1> DEFINE tail == [i \in DOMAIN r.targets |->
                      [target |-> r.targets[i], kind |-> "Retryable"]]
           snap == r.outcomes \o tail
<1>1. tail \in [DOMAIN r.targets -> Outcome]
  BY DEF Resolution, Outcome, Kinds
<1>2. target_snapshots_from_resolution(r) = snap
  BY DEF target_snapshots_from_resolution
<1> HIDE DEF tail
<1>3. /\ snap \in Seq(Outcome) /\ Len(snap) = target_count(r)
      /\ \A i \in 1..target_count(r) :
           \/ i \in DOMAIN r.outcomes /\ snap[i] = r.outcomes[i]
           \/ i - Len(r.outcomes) \in DOMAIN r.targets
  BY <1>1, AttemptShape
<1> HIDE DEF snap
<1>4. DOMAIN snap = 1..target_count(r) /\ DOMAIN r.targets = {}
  BY <1>3
<1>5. r.outcomes \in Seq(Outcome) /\ Len(r.targets) = 0
  BY DEF Resolution
<1>6. target_count(r) = Len(r.outcomes)
  BY <1>5 DEF target_count
<1> QED BY <1>2, <1>3, <1>4, <1>6

-----------------------------------------------------------------------------
(* NO FALSE SUCCESS                                                        *)

(* What the relays have accepted is what the policy of the job asks for.   *)
Earned(c) == Fulfils(PolicyFor(c), snapshots[c], Delivered(c))

(* A call in progress and a recorded job have a request, with a policy.    *)
RequestInv ==
  \A c \in Calls : Recorded(c) \/ pc[c] \in Active => req[c] \in Request

(* Neither a resolution nor what is stored of it counts as a delivery.     *)
RefusalInv ==
  \A c \in Calls : /\ NothingAccepted(res[c].outcomes)
                   /\ NothingAccepted(snapshots[c])

(* A writer about to record a success has the acceptances for it.          *)
EarnedInv ==
  \A w \in Writers :
    write[w].stage = "update" /\ write[w].status = "DeliverySatisfied" =>
      Earned(write[w].job)

FulfilInv == RequestInv /\ RefusalInv /\ EarnedInv /\ SatisfiedIsDelivered

(* Only Admit changes a request, and it does so before the job exists.     *)
LEMMA RequestChange ==
  ASSUME TypeOK, Next
  PROVE  \/ req' = req
         \/ \E c \in Calls : \E q \in Request : Admit(c, q)
BY DEF Next, CallStep, RecoveryStep, Environment, Writers,
       Resolve, LookupKey, LookupReadOutcomes, InsertJob, ReadRow,
       RecordReadOutcomes, PublishDone, PublishAborted, UpdateJob,
       DeleteResults, InsertResult, FinalReadOutcomes, SelectInterrupted,
       RecoverJob, FinishOpen, Refuse, RelayReplies, OpenStore, CrashDaemon,
       DaemonGone, CrashCli, Disconnect, StatementFails

(* A job that is recorded after a step was so before, or is inserted.      *)
LEMMA RecordedComes ==
  ASSUME TypeOK, WriteInv, Next, NEW c \in Calls, Recorded(c)'
  PROVE  Recorded(c) \/ InsertJob(c)
<1>1. CASE jobs' = jobs
  BY <1>1 DEF Recorded
<1>2. ASSUME NEW d \in Calls, InsertJob(d) PROVE Recorded(c) \/ InsertJob(c)
  BY <1>2, InsertRecords DEF Recorded
<1>3. ASSUME NEW w \in Writers, UpdateJob(w) PROVE Recorded(c)
  BY <1>3, UpdateRecords
<1> QED BY <1>1, <1>2, <1>3, JobsChange

(* A call that becomes active without being admitted was active already.   *)
LEMMA ActiveComes ==
  ASSUME TypeOK, WriteInv, Next, NEW c \in Calls, pc'[c] \in Active
  PROVE  pc[c] \in Active \/ \E q \in Request : Admit(c, q)
<1>1. ASSUME NEW d \in Calls, NEW q \in Request, Admit(d, q)
      PROVE  pc[c] \in Active \/ Admit(c, q)
  BY <1>1 DEF Admit, TypeOK
<1>2. CASE CallOrWriterStep
  BY <1>2 DEF CallOrWriterStep
<1>3. ASSUME NEW p \in Procs, OpeningStep(p) PROVE pc[c] \in Active
  <2>1. pc' = pc
    BY <1>3 DEF OpeningStep, OpenStore, SelectInterrupted, FinishOpen,
                RecoverJob
  <2> QED BY <2>1
<1>4. CASE CrashDaemon
  <2>1. "lost" \notin Active
    BY DEF Active, DbSteps, Awaiting
  <2> QED BY <1>4, <2>1 DEF CrashDaemon, DaemonGone
<1>5. CASE CrashCli
  BY <1>5 DEF CrashCli
<1> QED BY <1>1, <1>2, <1>3, <1>4, <1>5, StepKinds

(* Requests stay with their calls and jobs.                                *)
LEMMA RequestStep ==
  ASSUME TypeOK, WriteInv, RequestInv, Next
  PROVE  RequestInv'
<1> SUFFICES ASSUME NEW c \in Calls, Recorded(c)' \/ pc'[c] \in Active
             PROVE  req'[c] \in Request
  BY DEF RequestInv
<1>1. CASE \E q \in Request : Admit(c, q)
  BY <1>1 DEF Admit, TypeOK
<1>2. CASE ~ \E q \in Request : Admit(c, q)
  <2>1. Recorded(c) \/ pc[c] \in Active
    <3>1. InsertJob(c) => pc[c] \in Active
      BY DEF InsertJob, Active, DbSteps
    <3> QED BY <1>2, <3>1, RecordedComes, ActiveComes
  <2>2. req[c] \in Request
    BY <2>1 DEF RequestInv
  <2>3. ASSUME NEW d \in Calls, NEW q \in Request, Admit(d, q)
        PROVE  req'[c] = req[c]
    BY <1>2, <2>3 DEF Admit, TypeOK
  <2> QED BY <2>2, <2>3, RequestChange
<1> QED BY <1>1, <1>2

(* Where resolutions come from.                                            *)
LEMMA ResChange ==
  ASSUME TypeOK, Next, NEW c \in Calls
  PROVE  res'[c] = res[c] \/ res'[c] = NoRes \/ res'[c] \in Resolutions
<1>1. \/ res' = res
      \/ \E d \in Calls : res' = [res EXCEPT ![d] = NoRes]
      \/ \E d \in Calls : \E r \in Resolutions : res' = [res EXCEPT ![d] = r]
      \/ res' = [d \in Calls |-> NoRes]
  BY DEF Next, CallStep, RecoveryStep, Environment, Writers, End,
         Resolve, LookupKey, LookupReadOutcomes, InsertJob, ReadRow,
         RecordReadOutcomes, PublishDone, PublishAborted, UpdateJob,
         DeleteResults, InsertResult, FinalReadOutcomes, SelectInterrupted,
         RecoverJob, FinishOpen, Refuse, Admit, RelayReplies, OpenStore,
         CrashDaemon, DaemonGone, CrashCli, Disconnect, StatementFails
<1> QED BY <1>1 DEF TypeOK

(* A snapshot is written once, with the job.                               *)
LEMMA SnapshotChange ==
  ASSUME TypeOK, Next, NEW c \in Calls
  PROVE  \/ snapshots'[c] = snapshots[c]
         \/ /\ InsertJob(c)
            /\ snapshots'[c] = target_snapshots_from_resolution(res[c])
<1>1. snapshots' = snapshots \/ \E d \in Calls : InsertJob(d)
  BY DEF dbVars, Next, CallStep, RecoveryStep, Environment, Writers,
         Resolve, LookupKey, LookupReadOutcomes, ReadRow,
         RecordReadOutcomes, PublishDone, PublishAborted, UpdateJob,
         DeleteResults, InsertResult, FinalReadOutcomes, SelectInterrupted,
         RecoverJob, FinishOpen, Refuse, Admit, RelayReplies, OpenStore,
         CrashDaemon, CrashCli, Disconnect, StatementFails
<1>2. ASSUME NEW d \in Calls, InsertJob(d)
      PROVE  \/ snapshots'[c] = snapshots[c]
             \/ /\ InsertJob(c)
                /\ snapshots'[c] = target_snapshots_from_resolution(res[c])
  <2>1. \/ snapshots' = snapshots
        \/ snapshots' = [snapshots EXCEPT ![d] =
                           target_snapshots_from_resolution(res[d])]
    BY <1>2 DEF InsertJob
  <2> QED BY <1>2, <2>1 DEF TypeOK
<1> QED BY <1>1, <1>2

(* No step stores an acceptance before a relay gives one.                  *)
LEMMA RefusalStep ==
  ASSUME TypeOK, RefusalInv, Next
  PROVE  RefusalInv'
<1> SUFFICES ASSUME NEW c \in Calls
             PROVE  /\ NothingAccepted(res'[c].outcomes)
                    /\ NothingAccepted(snapshots'[c])
  BY DEF RefusalInv, NothingAccepted
<1>1. NothingAccepted(res[c].outcomes) /\ NothingAccepted(snapshots[c])
  BY DEF RefusalInv
<1>2. NothingAccepted(NoRes.outcomes)
  BY DEF NoRes, NothingAccepted
<1>3. \A r \in Resolutions : NothingAccepted(r.outcomes)
  BY ResolutionAssumption DEF NothingAccepted
<1>4. NothingAccepted(target_snapshots_from_resolution(res[c]))
  BY <1>1, SnapshotAcceptsNothing DEF TypeOK
<1> QED BY <1>1, <1>2, <1>3, <1>4, ResChange, SnapshotChange, Zenon

(* The places a relay accepted are places of the snapshot, and the policy  *)
(* of a recorded job is one of the policies.                               *)
LEMMA EarnedTypes ==
  ASSUME TypeOK, RequestInv, NEW c \in Calls, Recorded(c)
  PROVE  /\ PolicyFor(c) \in Policy
         /\ snapshots[c] \in Seq(Outcome)
         /\ Delivered(c) \in SUBSET DOMAIN snapshots[c]
<1>1. req[c].intent \in Intents
  BY DEF RequestInv, Request
<1>2. PolicyFor(c) \in Policy
  BY <1>1, PublishAssumption DEF PolicyFor
<1> QED BY <1>2 DEF TypeOK, Delivered

(* What a relay has answered is not taken back.                            *)
LEMMA RepliesStay ==
  ASSUME TypeOK, Next, NEW c \in Calls, NEW r \in Relays,
         replies[c][r] # None
  PROVE  replies'[c][r] = replies[c][r]
<1>1. \/ replies' = replies
      \/ \E d \in Calls : \E x \in Relays : \E kind \in ReplyKinds :
           RelayReplies(d, x, kind)
  BY DEF Next, CallStep, RecoveryStep, Environment, Writers,
         Resolve, LookupKey, LookupReadOutcomes, InsertJob, ReadRow,
         RecordReadOutcomes, PublishDone, PublishAborted, UpdateJob,
         DeleteResults, InsertResult, FinalReadOutcomes, SelectInterrupted,
         RecoverJob, FinishOpen, Refuse, Admit, OpenStore, CrashDaemon,
         DaemonGone, CrashCli, Disconnect, StatementFails
<1>2. ASSUME NEW d \in Calls, NEW x \in Relays, NEW kind \in ReplyKinds,
             RelayReplies(d, x, kind)
      PROVE  replies'[c][r] = replies[c][r]
  BY <1>2 DEF RelayReplies, TypeOK
<1> QED BY <1>1, <1>2

(* A success that was earned stays earned, whatever happens next.          *)
LEMMA EarnedStays ==
  ASSUME TypeOK, PhaseInv, RequestInv, Next,
         NEW c \in Calls, Recorded(c), Earned(c)
  PROVE  /\ Earned(c)'
         /\ PolicyFor(c)' = PolicyFor(c)
         /\ snapshots'[c] = snapshots[c]
<1>1. ~InsertJob(c)
  BY DEF InsertJob, PhaseInv, BeforeInsert
<1>2. snapshots'[c] = snapshots[c]
  BY <1>1, SnapshotChange
<1>3. req'[c] = req[c]
  <2>1. ASSUME NEW d \in Calls, NEW q \in Request, Admit(d, q)
        PROVE  req'[c] = req[c]
    BY <2>1 DEF Admit, TypeOK, PhaseInv, BeforeInsert
  <2> QED BY <2>1, RequestChange
<1>4. PolicyFor(c)' = PolicyFor(c)
  BY <1>3 DEF PolicyFor
<1>5. /\ PolicyFor(c) \in Policy /\ snapshots[c] \in Seq(Outcome)
      /\ Delivered(c) \in SUBSET DOMAIN snapshots[c]
  BY EarnedTypes
<1>6. Delivered(c)' \in SUBSET DOMAIN snapshots[c]
  BY <1>2 DEF Delivered
<1>7. Delivered(c) \subseteq Delivered(c)'
  <2>1. ASSUME NEW i \in Delivered(c) PROVE i \in Delivered(c)'
    <3>1. /\ i \in DOMAIN snapshots[c] /\ snapshots[c][i].kind = "Retryable"
          /\ replies[c][RelayOf[snapshots[c][i].target]] = "Accepted"
      BY <2>1 DEF Delivered
    <3>2. snapshots[c][i] \in Outcome
      BY <1>5, <3>1
    <3>3. RelayOf[snapshots[c][i].target] \in Relays
      BY <3>2, TargetAssumption DEF Outcome
    <3>4. replies'[c][RelayOf[snapshots[c][i].target]] = "Accepted"
      BY <3>1, <3>3, RepliesStay DEF None
    <3> QED BY <1>2, <3>1, <3>4 DEF Delivered
  <2> QED BY <2>1
<1>8. Fulfils(PolicyFor(c), snapshots[c], Delivered(c)')
  BY <1>5, <1>6, <1>7, FulfilsGrows DEF Earned
<1>9. Fulfils(PolicyFor(c)', snapshots'[c], Delivered(c)')
  BY <1>2, <1>4, <1>8
<1> QED BY <1>2, <1>4, <1>9 DEF Earned, Fulfils

(* A status computed from receipts that claim no more than the relays have *)
(* answered is earned when it is a success.                                *)
LEMMA AttemptEarns ==
  ASSUME TypeOK, PhaseInv, RequestInv, RefusalInv,
         NEW c \in Calls, pc[c] \in Attempting, NEW receipts,
         \A x \in RelaySet(res[c]) :
           /\ receipts[x] \in Kinds
           /\ receipts[x] = "Accepted" => replies[c][x] = "Accepted",
         delivery_status(PolicyFor(c), target_count(res[c]),
                         outcomes_from_receipts(res[c], receipts))
           = "DeliverySatisfied"
  PROVE  Earned(c)
<1> DEFINE outs == outcomes_from_receipts(res[c], receipts)
           snap == target_snapshots_from_resolution(res[c])
<1>1. snapshots[c] = snap /\ Recorded(c)
  BY DEF PhaseInv, Attempting, AfterInsert
<1>2. res[c] \in Resolution /\ NothingAccepted(res[c].outcomes)
  BY DEF TypeOK, RefusalInv
<1>3. /\ outs \in Seq(Outcome) /\ snap \in Seq(Outcome)
      /\ Len(outs) = Len(snap) /\ Len(snap) = target_count(res[c])
      /\ \A i \in DOMAIN snap :
           /\ outs[i].target = snap[i].target
           /\ outs[i].kind = "Accepted" =>
                /\ snap[i].kind = "Retryable"
                /\ receipts[RelayOf[snap[i].target]] = "Accepted"
                /\ RelayOf[snap[i].target] \in RelaySet(res[c])
  BY <1>2, OutcomesMatchSnapshot
<1>4. Satisfied(PolicyFor(c), target_count(res[c]), outs)
  BY SatisfiedStatus
<1>5. PolicyFor(c) \in Policy /\ Delivered(c) \in SUBSET DOMAIN snap
  BY <1>1, EarnedTypes
<1> HIDE DEF outs, snap
<1>6. DOMAIN outs = DOMAIN snap
  BY <1>3
<1>7. Acknowledged(outs) \subseteq Delivered(c)
  BY <1>1, <1>3, <1>6 DEF Acknowledged, Delivered
<1>8. Satisfied(PolicyFor(c), Len(snap), outs)
  BY <1>3, <1>4
<1>9. Fulfils(PolicyFor(c), snap, Delivered(c))
  BY <1>3, <1>5, <1>7, <1>8, SatisfiedFulfils
<1> QED BY <1>1, <1>9 DEF Earned

(* A status computed from outcomes none of which is an acceptance, for the *)
(* targets of the snapshot, is earned when it is a success (a policy that  *)
(* asks for nothing).                                                      *)
LEMMA NothingAcceptedEarns ==
  ASSUME TypeOK, RequestInv, NEW c \in Calls, Recorded(c),
         NEW outs \in Seq(Outcome), NothingAccepted(outs),
         Len(outs) = Len(snapshots[c]),
         \A i \in DOMAIN snapshots[c] :
           outs[i].target = snapshots[c][i].target,
         delivery_status(PolicyFor(c), Len(snapshots[c]), outs)
           = "DeliverySatisfied"
  PROVE  Earned(c)
<1>1. /\ PolicyFor(c) \in Policy /\ snapshots[c] \in Seq(Outcome)
      /\ Delivered(c) \in SUBSET DOMAIN snapshots[c]
  BY EarnedTypes
<1>2. Acknowledged(outs) \subseteq Delivered(c)
  BY DEF Acknowledged, NothingAccepted
<1>3. Satisfied(PolicyFor(c), Len(snapshots[c]), outs)
  BY SatisfiedStatus
<1> QED BY <1>1, <1>2, <1>3, SatisfiedFulfils DEF Earned

(* A call that completes its job, before or after contacting relays,       *)
(* hands on no success that is not earned.                                 *)
LEMMA CompletionEarned ==
  ASSUME TypeOK, PhaseInv, RequestInv, RefusalInv, NEW c \in Calls,
         RecordReadOutcomes(c) \/ PublishDone(c) \/ PublishAborted(c)
  PROVE  /\ Recorded(c)
         /\ \/ UNCHANGED write
            \/ \E status, error, rows :
                 /\ Complete(c, status, error, rows)
                 /\ status = "DeliverySatisfied" => Earned(c)
<1>1. pc[c] \in Attempting
  BY DEF RecordReadOutcomes, PublishDone, PublishAborted, Attempting
<1>2. Recorded(c) /\ snapshots[c] = target_snapshots_from_resolution(res[c])
  BY <1>1 DEF PhaseInv, Attempting, AfterInsert
<1>3. /\ res[c] \in Resolution /\ res[c].outcomes \in Seq(Outcome)
      /\ NothingAccepted(res[c].outcomes)
  BY DEF TypeOK, RefusalInv, Resolution
<1>4. ASSUME NEW receipts, CompleteWith(c, receipts),
             \A x \in RelaySet(res[c]) :
               /\ receipts[x] \in Kinds
               /\ receipts[x] = "Accepted" => replies[c][x] = "Accepted"
      PROVE  \E status, error, rows :
               /\ Complete(c, status, error, rows)
               /\ status = "DeliverySatisfied" => Earned(c)
  <2> DEFINE outs   == outcomes_from_receipts(res[c], receipts)
             status == delivery_status(PolicyFor(c), target_count(res[c]), outs)
  <2>1. status = "DeliverySatisfied" => Earned(c)
    BY <1>1, <1>4, AttemptEarns
  <2>2. Complete(c, status, last_error_for_status(status), outs)
    BY <1>4 DEF CompleteWith
  <2> QED BY <2>1, <2>2
<1>5. CASE PublishDone(c)
  <2>1. RelaySet(res[c]) \subseteq Relays
    BY <1>3, TargetAssumption DEF RelaySet, Resolution
  <2>2. \A x \in RelaySet(res[c]) : replies[c][x] \in Kinds
    BY <1>5, <2>1 DEF PublishDone, TypeOK
  <2> QED BY <1>2, <1>4, <1>5, <2>2 DEF PublishDone
<1>6. CASE PublishAborted(c)
  <2>1. \A x \in RelaySet(res[c]) :
          aborted_receipts(res[c])[x] = "Retryable"
    BY DEF aborted_receipts
  <2>2. "Retryable" \in Kinds
    BY DEF Kinds
  <2> QED BY <1>2, <1>4, <1>6, <2>1, <2>2 DEF PublishAborted
<1>7. CASE RecordReadOutcomes(c)
  <2>1. UNCHANGED write \/ Execute(c)
    BY <1>7 DEF RecordReadOutcomes
  <2>2. ASSUME Execute(c), res[c].targets = <<>>
        PROVE  \E status, error, rows :
                 /\ Complete(c, status, error, rows)
                 /\ status = "DeliverySatisfied" => Earned(c)
    <3> DEFINE n      == target_count(res[c])
               outs   == res[c].outcomes
               status == IF outs = <<>> THEN "Rejected"
                         ELSE delivery_status(PolicyFor(c), n, outs)
    <3>1. Complete(c, status, last_error_for_status(status), outs)
      BY <2>2 DEF Execute
    <3>2. /\ Len(snapshots[c]) = n /\ Len(outs) = Len(snapshots[c])
          /\ \A i \in DOMAIN snapshots[c] :
               outs[i].target = snapshots[c][i].target
      BY <1>2, <1>3, <2>2, NothingToSend
    <3>3. status = "DeliverySatisfied" =>
            delivery_status(PolicyFor(c), Len(snapshots[c]), outs)
              = "DeliverySatisfied"
      BY <3>2
    <3>4. status = "DeliverySatisfied" => Earned(c)
      BY <1>2, <1>3, <3>2, <3>3, NothingAcceptedEarns
    <3> QED BY <3>1, <3>4
  <2>3. ASSUME Execute(c), res[c].targets # <<>>
        PROVE  \/ UNCHANGED write
               \/ Complete(c, "Rejected",
                           "delivery_quorum_exceeds_target_count",
                           res[c].outcomes)
    BY <2>3 DEF Execute
  <2> QED BY <1>2, <2>1, <2>2, <2>3
<1> QED BY <1>5, <1>6, <1>7

(* Nor does recovery.                                                      *)
LEMMA RecoveryEarned ==
  ASSUME TypeOK, RequestInv, RefusalInv, NEW c \in Calls, Recorded(c),
         RecoveredStatus(c) = "DeliverySatisfied"
  PROVE  Earned(c)
<1>1. snapshots[c] \in Seq(Outcome) /\ NothingAccepted(snapshots[c])
  BY DEF TypeOK, RefusalInv
<1>2. delivery_status(PolicyFor(c), Len(snapshots[c]), snapshots[c])
        = "DeliverySatisfied"
  BY DEF RecoveredStatus
<1> QED BY <1>1, <1>2, NothingAcceptedEarns

(* A success in the hands of a writer is earned, in every step.            *)
LEMMA EarnedStep ==
  ASSUME TypeOK, WriteInv, TodoInv, PhaseInv, RequestInv, RefusalInv,
         EarnedInv, Next
  PROVE  EarnedInv'
<1> USE DEF dbVars, histVars
<1> SUFFICES ASSUME NEW w \in Writers, NEW j, j = write'[w].job,
                    write'[w].stage = "update",
                    write'[w].status = "DeliverySatisfied"
             PROVE  Earned(j)'
  BY DEF EarnedInv
<1> DEFINE News == j \in Calls /\ Recorded(j) /\ Earned(j)
<1> SUFFICES News
  BY EarnedStays
<1>1. CASE write'[w] = write[w]
  BY <1>1 DEF EarnedInv, WriteInv
<1>2. ASSUME NEW c \in Calls,
             RecordReadOutcomes(c) \/ PublishDone(c) \/ PublishAborted(c)
      PROVE  News
  <2>1. Recorded(c)
    BY <1>2, CompletionEarned
  <2>2. CASE UNCHANGED write
    BY <1>1, <2>2
  <2>3. ASSUME NEW status, NEW error, NEW rows,
               Complete(c, status, error, rows),
               status = "DeliverySatisfied" => Earned(c)
        PROVE  News
    <3>1. \A v \in Writers : write'[v] =
            IF v = c THEN [stage |-> "update", job |-> c, status |-> status,
                           lastError |-> error, rows |-> rows]
                     ELSE write[v]
      BY <2>3 DEF Complete, TypeOK
    <3>2. CASE w = c
      BY <2>1, <2>3, <3>1, <3>2
    <3> QED BY <1>1, <3>1, <3>2
  <2> QED BY <1>2, <2>2, <2>3, CompletionEarned
<1>3. ASSUME NEW v \in Writers, UpdateJob(v) PROVE News
  <2>1. write'[w] = write[w]
    BY <1>3 DEF UpdateJob, TypeOK, Writing
  <2> QED BY <1>1, <2>1
<1>4. ASSUME NEW v \in Writers, DeleteResults(v) \/ InsertResult(v)
      PROVE  News
  <2>1. PICK rest : ContinueWith(v, rest)
    BY <1>4 DEF DeleteResults, InsertResult
  <2>2. write'[v].stage # "update" /\ \A u \in Writers \ {v} :
          write'[u] = write[u]
    BY <2>1 DEF ContinueWith, TypeOK, Writing, NoWrite
  <2> QED BY <1>1, <2>2
<1>5. ASSUME NEW p \in Procs, NEW c \in Calls, RecoverJob(p, c)
      PROVE  News
  <2>1. p \in Writers
    BY DEF Writers
  <2>2. \A v \in Writers : v # p => write'[v] = write[v]
    BY <1>5 DEF RecoverJob, TypeOK
  <2>3. write'[p].job = c /\ write'[p].status = RecoveredStatus(c)
    BY <1>5, <2>1 DEF RecoverJob, TypeOK
  <2>4. Recorded(c)
    BY <1>5 DEF RecoverJob, TodoInv
  <2>5. RecoveredStatus(c) = "DeliverySatisfied" => Earned(c)
    BY <2>4, RecoveryEarned
  <2>6. CASE w = p
    BY <2>3, <2>4, <2>5, <2>6
  <2> QED BY <1>1, <2>2, <2>6
<1>6. ASSUME CrashDaemon \/ CrashCli \/ \E c \in Calls : StatementFails(c)
      PROVE  News
  <2>1. \A v \in Writers : write'[v] = write[v] \/ write'[v] = NoWrite
    BY <1>6 DEF CrashDaemon, DaemonGone, CrashCli, StatementFails, TypeOK
  <2> QED BY <1>1, <2>1 DEF NoWrite
<1>7. CASE UNCHANGED write
  BY <1>1, <1>7
<1>8. \/ UNCHANGED write
      \/ \E c \in Calls :
           RecordReadOutcomes(c) \/ PublishDone(c) \/ PublishAborted(c)
      \/ \E v \in Writers :
           UpdateJob(v) \/ DeleteResults(v) \/ InsertResult(v)
      \/ \E p \in Procs : \E c \in Calls : RecoverJob(p, c)
      \/ CrashDaemon \/ CrashCli \/ \E c \in Calls : StatementFails(c)
  BY DEF Next, CallStep, RecoveryStep, Environment, Writers,
         Resolve, LookupKey, LookupReadOutcomes, InsertJob, ReadRow,
         FinalReadOutcomes, SelectInterrupted, FinishOpen, Refuse, Admit,
         RelayReplies, OpenStore, Disconnect
<1> QED BY <1>2, <1>3, <1>4, <1>5, <1>6, <1>7, <1>8

(* The row a success is written to is that of the job that earned it.      *)
LEMMA SatisfiedStep ==
  ASSUME TypeOK, WriteInv, PhaseInv, RequestInv, EarnedInv,
         SatisfiedIsDelivered, Next
  PROVE  SatisfiedIsDelivered'
<1> SUFFICES ASSUME NEW c \in Calls, jobs'[c].status = "DeliverySatisfied"
             PROVE  Earned(c)'
  BY DEF SatisfiedIsDelivered, Earned
<1> SUFFICES Recorded(c) /\ Earned(c)
  BY EarnedStays
<1>1. CASE jobs'[c] = jobs[c]
  BY <1>1 DEF SatisfiedIsDelivered, Earned, Recorded
<1>2. ASSUME NEW d \in Calls, InsertJob(d)
      PROVE  Recorded(c) /\ Earned(c)
  <2>1. CASE KeyTaken(d)
    BY <1>1, <1>2, <2>1 DEF InsertJob
  <2>2. CASE ~KeyTaken(d)
    BY <1>1, <1>2, <2>2, InsertRows DEF Publishing
  <2> QED BY <2>1, <2>2
<1>3. ASSUME NEW w \in Writers, UpdateJob(w)
      PROVE  Recorded(c) /\ Earned(c)
  <2>1. CASE c = write[w].job
    <3>1. write[w].status = "DeliverySatisfied"
      BY <1>3, <2>1, UpdateRows
    <3>2. write[w].stage = "update"
      BY <1>3 DEF UpdateJob
    <3> QED BY <2>1, <3>1, <3>2 DEF EarnedInv, WriteInv
  <2> QED BY <1>1, <1>3, <2>1, UpdateRows
<1> QED BY <1>1, <1>2, <1>3, JobsChange

(* No false success: a job stored as DeliverySatisfied was accepted by as  *)
(* many relays as its policy asks for, or by those it names, whether its   *)
(* call completed it, completed it after a timeout, or recovery or another *)
(* process settled it.                                                     *)
THEOREM NoFalseSuccess == Spec => []SatisfiedIsDelivered
<1> DEFINE Inv == IInv /\ FulfilInv
<1>1. Init => Inv
  <2> SUFFICES ASSUME Init PROVE Inv
    OBVIOUS
  <2>1. \A c \in Calls : pc[c] \notin Active /\ ~Recorded(c)
    BY DEF Init, Active, DbSteps, Awaiting, Recorded, NoRow
  <2>2. RefusalInv
    BY DEF Init, NoRes, RefusalInv, NothingAccepted
  <2>3. EarnedInv
    BY DEF Init, NoWrite, EarnedInv
  <2>4. SatisfiedIsDelivered
    BY DEF Init, NoRow, SatisfiedIsDelivered
  <2> QED BY <2>1, <2>2, <2>3, <2>4, InitIInv DEF FulfilInv, RequestInv
<1>2. Inv /\ [Next]_vars => Inv'
  <2> SUFFICES ASSUME Inv, [Next]_vars PROVE Inv'
    OBVIOUS
  <2>1. CASE Next
    BY <2>1, StepIInv, RequestStep, RefusalStep, EarnedStep, SatisfiedStep
    DEF IInv, FulfilInv
  <2>2. CASE UNCHANGED vars
    <3>1. IInv'
      BY StepIInv
    <3>2. RequestInv' /\ RefusalInv'
      BY <2>2
      DEF vars, FulfilInv, RequestInv, RefusalInv, NothingAccepted, Recorded
    <3>3. SatisfiedIsDelivered'
      BY <2>2 DEF vars, FulfilInv, SatisfiedIsDelivered, PolicyFor, Delivered
    <3>4. EarnedInv'
      BY <2>2 DEF vars, FulfilInv, EarnedInv, Earned, PolicyFor, Delivered
    <3> QED BY <3>1, <3>2, <3>3, <3>4 DEF FulfilInv
  <2> QED BY <2>1, <2>2
<1>3. Inv => SatisfiedIsDelivered
  BY DEF FulfilInv
<1> QED BY <1>1, <1>2, <1>3, PTL DEF Spec

-----------------------------------------------------------------------------
(* THE ORDER OF ROWS                                                       *)

(* s lists the elements of R, each once.                                   *)
OneEach(s, R) ==
  /\ DOMAIN s \subseteq Nat /\ IsFiniteSet(DOMAIN s)
  /\ \A i \in DOMAIN s : s[i] \in R
  /\ \A i, j \in DOMAIN s : s[i] = s[j] => i = j
  /\ \A o \in R : \E i \in DOMAIN s : s[i] = o

(* The primary key (job_id, target) of the outcome rows.                   *)
DistinctRows(R) == \A o, p \in R : o.target = p.target => o = p

(* Two listings of the same rows count the same.                           *)
LEMMA SameCount ==
  ASSUME NEW R, NEW s, NEW t, OneEach(s, R), OneEach(t, R),
         NEW Q \in SUBSET R
  PROVE  Cardinality({i \in DOMAIN s : s[i] \in Q}) =
         Cardinality({i \in DOMAIN t : t[i] \in Q})
<1> DEFINE A == {i \in DOMAIN s : s[i] \in Q}
           B == {i \in DOMAIN t : t[i] \in Q}
           f == [i \in A |-> CHOOSE j \in DOMAIN t : t[j] = s[i]]
<1>1. \A i \in A : f[i] \in DOMAIN t /\ t[f[i]] = s[i]
  BY DEF OneEach
<1>2. f \in [A -> B]
  BY <1>1
<1>3. \A i, j \in A : f[i] = f[j] => i = j
  BY <1>1 DEF OneEach
<1>4. \A j \in B : \E i \in A : f[i] = j
  <2> SUFFICES ASSUME NEW j \in B PROVE \E i \in A : f[i] = j
    OBVIOUS
  <2>1. PICK i \in DOMAIN s : s[i] = t[j]
    BY DEF OneEach
  <2>2. i \in A
    BY <2>1
  <2>3. f[i] \in DOMAIN t /\ t[f[i]] = t[j] /\ j \in DOMAIN t
    BY <1>1, <2>1, <2>2
  <2>4. f[i] = j
    BY <2>3 DEF OneEach
  <2> QED BY <2>2, <2>4
<1> HIDE DEF f
<1>5. IsFiniteSet(A)
  BY FS_Subset DEF OneEach
<1> HIDE DEF A, B
<1>6. f \in Bijection(A, B)
  BY <1>2, <1>3, <1>4, Fun_IsBij
<1>7. ExistsBijection(A, B)
  BY <1>6, Fun_ExistsBij
<1>8. Cardinality(B) = Cardinality(A)
  BY <1>5, <1>7, FS_Bijection
<1> QED BY <1>8 DEF A, B

(* The status of a job does not depend on the order its rows come in.      *)
LEMMA SameStatus ==
  ASSUME NEW R, NEW s, NEW t, OneEach(s, R), OneEach(t, R), DistinctRows(R),
         NEW policy, NEW n
  PROVE  delivery_status(policy, n, s) = delivery_status(policy, n, t)
<1> DEFINE Accepting == {o \in R : o.kind = "Accepted"}
           Wanted    == {o \in R : o.target \in policy.targets}
           Looked    == IF policy.type = "RequiredTargets" THEN Wanted ELSE R
<1>1. ASSUME NEW u, OneEach(u, R)
      PROVE  /\ Acknowledged(u) = {i \in DOMAIN u : u[i] \in Accepting}
             /\ required_outcomes_for_policy(policy.targets, u) =
                  {i \in DOMAIN u : u[i] \in Wanted}
  <2>1. Acknowledged(u) = {i \in DOMAIN u : u[i] \in Accepting}
    BY <1>1 DEF Acknowledged, OneEach
  <2>2. \A i, j \in DOMAIN u : u[j].target = u[i].target => i <= j
    <3> SUFFICES ASSUME NEW i \in DOMAIN u, NEW j \in DOMAIN u,
                        u[j].target = u[i].target
                 PROVE  i <= j
      OBVIOUS
    <3>1. i = j /\ i \in Nat
      BY <1>1 DEF OneEach, DistinctRows
    <3> QED BY <3>1
  <2>3. required_outcomes_for_policy(policy.targets, u) =
          {i \in DOMAIN u : u[i].target \in policy.targets}
    BY <2>2 DEF required_outcomes_for_policy
  <2>4. \A i \in DOMAIN u : u[i] \in R
    BY <1>1 DEF OneEach
  <2> QED BY <2>1, <2>3, <2>4
<1>2. /\ Cardinality(Acknowledged(s)) = Cardinality(Acknowledged(t))
      /\ Cardinality(required_outcomes_for_policy(policy.targets, s)) =
         Cardinality(required_outcomes_for_policy(policy.targets, t))
  <2>1. Accepting \in SUBSET R /\ Wanted \in SUBSET R
    OBVIOUS
  <2> HIDE DEF Accepting, Wanted
  <2>2. /\ Cardinality({i \in DOMAIN s : s[i] \in Accepting}) =
           Cardinality({i \in DOMAIN t : t[i] \in Accepting})
        /\ Cardinality({i \in DOMAIN s : s[i] \in Wanted}) =
           Cardinality({i \in DOMAIN t : t[i] \in Wanted})
    BY <2>1, SameCount
  <2> QED BY <1>1, <2>2
<1>3. ASSUME NEW u, OneEach(u, R)
      PROVE  {u[i].kind : i \in StatusOutcomes(policy, u)} =
               {o.kind : o \in Looked}
  <2>1. StatusOutcomes(policy, u) = {i \in DOMAIN u : u[i] \in Looked}
    BY <1>1, <1>3 DEF StatusOutcomes, OneEach
  <2>2. Looked \subseteq R
    OBVIOUS
  <2> HIDE DEF Looked
  <2>3. \A o \in Looked : \E i \in DOMAIN u : u[i] = o
    BY <1>3, <2>2 DEF OneEach
  <2> QED BY <2>1, <2>3
<1>4. ASSUME NEW u, OneEach(u, R), policy.type = "RequiredTargets"
      PROVE  (\A i \in required_outcomes_for_policy(policy.targets, u) :
                u[i].kind = "Accepted")
             <=> \A o \in Wanted : o.kind = "Accepted"
  <2>1. \A o \in Wanted : \E i \in DOMAIN u : u[i] = o
    BY <1>4 DEF OneEach
  <2> HIDE DEF Wanted
  <2> QED BY <1>1, <1>4, <2>1
<1>5. Satisfied(policy, n, s) <=> Satisfied(policy, n, t)
  <2> HIDE DEF Wanted
  <2>1. CASE policy.type = "RequiredTargets"
    BY <1>2, <1>4, <2>1 DEF Satisfied
  <2>2. CASE policy.type # "RequiredTargets"
    BY <1>2, <2>2 DEF Satisfied
  <2> QED BY <2>1, <2>2
<1>6. {s[i].kind : i \in StatusOutcomes(policy, s)} =
        {t[i].kind : i \in StatusOutcomes(policy, t)}
  BY <1>3
<1> QED BY <1>5, <1>6 DEF delivery_status

(* What the code reads back is a listing of the rows.                      *)
LEMMA ListingLists ==
  ASSUME NEW R, IsFiniteSet(R)
  PROVE  OneEach(Listing(R), R)
<1> DEFINE n == Cardinality(R)
           l == Listing(R)
<1>1. n \in Nat /\ ExistsBijection(1..n, R)
  BY FS_CardinalityType
<1>a. l = CHOOSE s \in [1..n -> R] : {s[i] : i \in 1..n} = R
  BY DEF Listing
<1> HIDE DEF n, l
<1>2. PICK f : f \in Bijection(1..n, R)
  BY <1>1, Fun_ExistsBij
<1>3. f \in [1..n -> R] /\ \A o \in R : \E i \in 1..n : f[i] = o
  BY <1>2 DEF Bijection, Surjection, Injection
<1>4. {f[i] : i \in 1..n} = R
  BY <1>3
<1>5. l \in [1..n -> R] /\ {l[i] : i \in 1..n} = R
  <2>1. \E s \in [1..n -> R] : {s[i] : i \in 1..n} = R
    BY <1>3, <1>4
  <2> QED BY <2>1, <1>a
<1>6. IsFiniteSet(1..n) /\ Cardinality(1..n) = n
  BY <1>1, FS_Interval
<1>7. l \in Surjection(1..n, R)
  BY <1>5, Fun_IsSurj
<1>8. l \in Injection(1..n, R)
  BY <1>6, <1>7, FS_SurjSameCardinalityImpliesInj DEF n
<1>9. \A i, j \in 1..n : l[i] = l[j] => i = j
  BY <1>8, Fun_InjectionProperties
<1>10. OneEach(l, R)
  BY <1>1, <1>5, <1>6, <1>9 DEF OneEach
<1> QED BY <1>10 DEF l

(* Outcomes for distinct targets are as many rows, and list them.          *)
LEMMA RowsListed ==
  ASSUME NEW S \in Seq(Outcome), DistinctTargets(S), NEW R,
         R = {S[i] : i \in DOMAIN S}
  PROVE  /\ IsFiniteSet(R) /\ Cardinality(R) = Len(S)
         /\ OneEach(S, R) /\ DistinctRows(R)
         /\ {o.target : o \in R} = {S[i].target : i \in DOMAIN S}
<1>1. /\ IsFiniteSet(DOMAIN S) /\ Cardinality(DOMAIN S) = Len(S)
      /\ DOMAIN S \subseteq Nat
  BY PlacesOf
<1>2. \A i, j \in DOMAIN S : S[i] = S[j] => i = j
  BY DEF DistinctTargets
<1>3. OneEach(S, R) /\ DistinctRows(R)
  BY <1>1, <1>2 DEF OneEach, DistinctRows, DistinctTargets
<1> DEFINE D == DOMAIN S
<1>4. S \in [D -> R] /\ \A o \in R : \E i \in D : S[i] = o
  OBVIOUS
<1>5. S \in Bijection(D, R)
  BY <1>2, <1>4, Fun_IsBij
<1>6. ExistsBijection(D, R)
  BY <1>5, Fun_ExistsBij
<1>7. IsFiniteSet(R) /\ Cardinality(R) = Len(S)
  BY <1>1, <1>6, FS_Bijection
<1>8. {o.target : o \in R} = {S[i].target : i \in DOMAIN S}
  OBVIOUS
<1> QED BY <1>3, <1>7, <1>8

-----------------------------------------------------------------------------
(* WHOLE JOBS                                                              *)

(* What the outcomes handed over with a status are: acceptances by relays, *)
(* for distinct targets if the snapshot has those, and, unless the job is  *)
(* rejected, for the targets of the snapshot and with this status; a job   *)
(* that is rejected has none, or its policy asks for more than there are.  *)
Justified(c, status, S) ==
  /\ S \in Seq(Outcome)
  /\ \A i \in DOMAIN S : S[i].kind = "Accepted" =>
       replies[c][RelayOf[S[i].target]] = "Accepted"
  /\ DistinctTargets(snapshots[c]) => DistinctTargets(S)
  /\ status # "Rejected" =>
       /\ {S[i].target : i \in DOMAIN S} =
            {snapshots[c][i].target : i \in DOMAIN snapshots[c]}
       /\ status = delivery_status(PolicyFor(c), Len(S), S)
  /\ status = "Rejected" => S = <<>> \/ ~QuorumFits(c)

(* Whoever is about to settle a job has such outcomes in hand.             *)
PlanInv ==
  \A w \in Writers : write[w].stage = "update" =>
    Justified(write[w].job, write[w].status, write[w].rows)

(* Somebody is between the statements that settle job c.                   *)
Busy(c) == \E w \in Writers : write[w].stage # "idle" /\ write[w].job = c

(* The call of job c belongs to this run and its statements did not fail.  *)
Sound(c) == born[c] = epoch /\ pc[c] \notin {"lost", "failed"}

(* The first k of the outcomes are written, these rows are not.            *)
Remaining(S, k, rows) ==
  /\ Len(rows) = Len(S) - k
  /\ \A i \in 1..Len(S) - k : rows[i] = S[k + i]

(* Job c was settled with the outcomes S, of which the first k have been   *)
(* written.                                                                *)
SettledWith(c, S, k) ==
  /\ Justified(c, jobs[c].status, S)
  /\ Len(S) = jobs[c].count
  /\ k \in 0..Len(S)
  /\ results[c] \subseteq {S[i] : i \in 1..k}
  /\ DistinctTargets(S) => {S[i] : i \in 1..k} \subseteq results[c]
  /\ \A w \in Writers : write[w].job = c =>
       /\ write[w].stage = "delete" => k = 0 /\ write[w].rows = S
       /\ write[w].stage = "insert" => Remaining(S, k, write[w].rows)
  /\ ~Busy(c) /\ Sound(c) => k = Len(S)

RowsInv == \A c \in Calls : Settled(c) =>
             \E S \in Seq(Outcome) : \E k \in Nat : SettledWith(c, S, k)

(* Outcomes are written for settled jobs only.                             *)
FreshInv ==
  /\ \A c \in Calls : ~Settled(c) => results[c] = {}
  /\ \A w \in Writers : write[w].stage \in {"delete", "insert"} =>
                          Settled(write[w].job)

(* A job recorded in this run of the daemon is not one it recovers.        *)
BornInv ==
  \A c \in Calls :
    /\ born[c] <= epoch
    /\ Recorded(c) /\ store["daemon"].state \in {"selecting", "recovering"} =>
         born[c] < epoch

(* While no other process runs.                                            *)
AloneInv == cliRuns = 0 => SoleInv /\ OpenInv /\ FreshInv /\ RowsInv

(* Outcomes stay justified while the snapshot and the policy of the job    *)
(* stay, and relays take nothing back.                                     *)
LEMMA JustifiedStays ==
  ASSUME NEW c \in Calls, NEW status, NEW S, Justified(c, status, S),
         snapshots'[c] = snapshots[c], PolicyFor(c)' = PolicyFor(c),
         \A r \in Relays : replies[c][r] = "Accepted" =>
                             replies'[c][r] = "Accepted"
  PROVE  Justified(c, status, S)'
<1>1. \A i \in DOMAIN S : RelayOf[S[i].target] \in Relays
  <2>1. S \in Seq(Outcome)
    BY DEF Justified
  <2>2. \A i \in DOMAIN S : S[i] \in Outcome
    BY <2>1
  <2> QED BY <2>2, TargetAssumption DEF Outcome
<1>2. \A i \in DOMAIN S : S[i].kind = "Accepted" =>
        replies'[c][RelayOf[S[i].target]] = "Accepted"
  BY <1>1 DEF Justified
<1>3. S \in Seq(Outcome)
  BY DEF Justified
<1>4. DistinctTargets(snapshots'[c]) => DistinctTargets(S)
  BY DEF Justified
<1>5. status # "Rejected" =>
        /\ {S[i].target : i \in DOMAIN S} =
             {snapshots'[c][i].target : i \in DOMAIN snapshots'[c]}
        /\ status = delivery_status(PolicyFor(c)', Len(S), S)
  BY DEF Justified
<1>6. status = "Rejected" => S = <<>> \/ ~QuorumFits(c)'
  <2>1. QuorumFits(c)' <=> QuorumFits(c)
    BY DEF QuorumFits
  <2> QED BY <2>1 DEF Justified
<1> QED BY <1>2, <1>3, <1>4, <1>5, <1>6
        DEF Justified, DistinctTargets, delivery_status

(* The snapshot and the policy of a recorded job do not change.            *)
LEMMA RecordedFrame ==
  ASSUME TypeOK, PhaseInv, Next, NEW c \in Calls, Recorded(c)
  PROVE  /\ snapshots'[c] = snapshots[c] /\ PolicyFor(c)' = PolicyFor(c)
         /\ born'[c] = born[c]
         /\ \A r \in Relays : replies[c][r] = "Accepted" =>
                                replies'[c][r] = "Accepted"
<1>1. ~InsertJob(c)
  BY DEF InsertJob, PhaseInv, BeforeInsert
<1>2. snapshots'[c] = snapshots[c]
  BY <1>1, SnapshotChange
<1>3. ASSUME NEW d \in Calls, NEW q \in Request, Admit(d, q)
      PROVE  req'[c] = req[c] /\ born'[c] = born[c]
  BY <1>3 DEF Admit, TypeOK, PhaseInv, BeforeInsert
<1>4. PolicyFor(c)' = PolicyFor(c)
  BY <1>3, RequestChange DEF PolicyFor
<1>5. \/ born' = born
      \/ \E d \in Calls : \E q \in Request : Admit(d, q)
  BY DEF Next, CallStep, RecoveryStep, Environment, Writers, histVars,
         Resolve, LookupKey, LookupReadOutcomes, InsertJob, ReadRow,
         RecordReadOutcomes, PublishDone, PublishAborted, UpdateJob,
         DeleteResults, InsertResult, FinalReadOutcomes, SelectInterrupted,
         RecoverJob, FinishOpen, Refuse, RelayReplies, OpenStore, CrashDaemon,
         DaemonGone, CrashCli, Disconnect, StatementFails, Fault
<1>6. \A r \in Relays : replies[c][r] = "Accepted" =>
                          replies'[c][r] = "Accepted"
  BY RepliesStay DEF None
<1> QED BY <1>2, <1>3, <1>4, <1>5, <1>6

(* No outcomes make a job rejected.                                        *)
LEMMA NeverRejected ==
  ASSUME NEW policy, NEW n, NEW S
  PROVE  delivery_status(policy, n, S) # "Rejected"
BY DEF delivery_status

(* Outcomes for the targets of the snapshot, in its order.                 *)
LEMMA InOrderJustified ==
  ASSUME TypeOK, NEW c \in Calls, NEW status, NEW S \in Seq(Outcome),
         Len(S) = Len(snapshots[c]),
         \A i \in DOMAIN snapshots[c] :
           /\ S[i].target = snapshots[c][i].target
           /\ S[i].kind = "Accepted" =>
                replies[c][RelayOf[S[i].target]] = "Accepted",
         \/ status = "Rejected" /\ S = <<>>
         \/ status = delivery_status(PolicyFor(c), Len(S), S)
  PROVE  Justified(c, status, S)
<1>1. snapshots[c] \in Seq(Outcome)
  BY DEF TypeOK
<1>2. DOMAIN S = DOMAIN snapshots[c]
  BY <1>1
<1>3. status = "Rejected" => S = <<>>
  BY NeverRejected
<1> QED BY <1>2, <1>3 DEF Justified, DistinctTargets

(* What recovery settles a job with.                                       *)
LEMMA RecoveryJustified ==
  ASSUME TypeOK, RefusalInv, NEW c \in Calls
  PROVE  Justified(c, RecoveredStatus(c), snapshots[c])
<1>1. snapshots[c] \in Seq(Outcome)
  BY DEF TypeOK
<1>2. \A i \in DOMAIN snapshots[c] : snapshots[c][i].kind # "Accepted"
  BY DEF RefusalInv, NothingAccepted
<1>3. \/ RecoveredStatus(c) = "Rejected" /\ snapshots[c] = <<>>
      \/ RecoveredStatus(c) =
           delivery_status(PolicyFor(c), Len(snapshots[c]), snapshots[c])
  BY DEF RecoveredStatus
<1> QED BY <1>1, <1>2, <1>3, InOrderJustified

(* What a call settles its job with.                                       *)
LEMMA CompletionJustified ==
  ASSUME TypeOK, PhaseInv, RefusalInv, NEW c \in Calls,
         RecordReadOutcomes(c) \/ PublishDone(c) \/ PublishAborted(c)
  PROVE  \/ UNCHANGED write
         \/ \E status, error, rows : /\ Complete(c, status, error, rows)
                                     /\ Justified(c, status, rows)
<1>1. pc[c] \in Attempting
  BY DEF RecordReadOutcomes, PublishDone, PublishAborted, Attempting
<1>2. snapshots[c] = target_snapshots_from_resolution(res[c])
  BY <1>1 DEF PhaseInv
<1>3. /\ res[c] \in Resolution /\ res[c].outcomes \in Seq(Outcome)
      /\ NothingAccepted(res[c].outcomes)
  BY DEF TypeOK, RefusalInv, Resolution
<1>4. ASSUME NEW receipts, CompleteWith(c, receipts),
             \A x \in RelaySet(res[c]) :
               /\ receipts[x] \in Kinds
               /\ receipts[x] = "Accepted" => replies[c][x] = "Accepted"
      PROVE  \E status, error, rows : /\ Complete(c, status, error, rows)
                                      /\ Justified(c, status, rows)
  <2> DEFINE outs   == outcomes_from_receipts(res[c], receipts)
             status == delivery_status(PolicyFor(c), target_count(res[c]), outs)
  <2>1. Complete(c, status, last_error_for_status(status), outs)
    BY <1>4 DEF CompleteWith
  <2>2. /\ outs \in Seq(Outcome) /\ Len(outs) = Len(snapshots[c])
        /\ Len(snapshots[c]) = target_count(res[c])
        /\ \A i \in DOMAIN snapshots[c] :
             /\ outs[i].target = snapshots[c][i].target
             /\ outs[i].kind = "Accepted" =>
                  /\ receipts[RelayOf[snapshots[c][i].target]] = "Accepted"
                  /\ RelayOf[snapshots[c][i].target] \in RelaySet(res[c])
    BY <1>2, <1>3, <1>4, OutcomesMatchSnapshot
  <2>3. status = delivery_status(PolicyFor(c), Len(outs), outs)
    BY <2>2
  <2> HIDE DEF outs, status
  <2>4. \A i \in DOMAIN snapshots[c] : outs[i].kind = "Accepted" =>
          replies[c][RelayOf[outs[i].target]] = "Accepted"
    BY <1>4, <2>2
  <2>5. Justified(c, status, outs)
    BY <2>2, <2>3, <2>4, InOrderJustified
  <2> QED BY <2>1, <2>5
<1>5. CASE PublishDone(c)
  <2>1. RelaySet(res[c]) \subseteq Relays
    BY <1>3, TargetAssumption DEF RelaySet, Resolution
  <2>2. \A x \in RelaySet(res[c]) : replies[c][x] \in Kinds
    BY <1>5, <2>1 DEF PublishDone, TypeOK
  <2> QED BY <1>4, <1>5, <2>2 DEF PublishDone
<1>6. CASE PublishAborted(c)
  <2>1. \A x \in RelaySet(res[c]) :
          aborted_receipts(res[c])[x] = "Retryable"
    BY DEF aborted_receipts
  <2>2. "Retryable" \in Kinds
    BY DEF Kinds
  <2> QED BY <1>4, <1>6, <2>1, <2>2 DEF PublishAborted
<1>7. CASE RecordReadOutcomes(c)
  <2>1. UNCHANGED write \/ Execute(c)
    BY <1>7 DEF RecordReadOutcomes
  <2> DEFINE outs == res[c].outcomes
  <2>2. ASSUME Execute(c), res[c].targets = <<>>
        PROVE  \E status, error, rows : /\ Complete(c, status, error, rows)
                                        /\ Justified(c, status, rows)
    <3> DEFINE n      == target_count(res[c])
               status == IF outs = <<>> THEN "Rejected"
                         ELSE delivery_status(PolicyFor(c), n, outs)
    <3>1. Complete(c, status, last_error_for_status(status), outs)
      BY <2>2 DEF Execute
    <3>2. /\ Len(snapshots[c]) = n /\ Len(outs) = Len(snapshots[c])
          /\ \A i \in DOMAIN snapshots[c] :
               outs[i].target = snapshots[c][i].target
      BY <1>2, <1>3, <2>2, NothingToSend
    <3>3. \/ status = "Rejected" /\ outs = <<>>
          \/ status = delivery_status(PolicyFor(c), Len(outs), outs)
      BY <3>2
    <3>4. \A i \in DOMAIN snapshots[c] : outs[i].kind # "Accepted"
      <4>1. DOMAIN snapshots[c] = DOMAIN outs
        BY <1>3, <3>2 DEF TypeOK
      <4> QED BY <1>3, <4>1 DEF NothingAccepted
    <3> HIDE DEF n, status, outs
    <3>5. Justified(c, status, outs)
      BY <1>3, <3>2, <3>3, <3>4, InOrderJustified DEF outs
    <3> QED BY <3>1, <3>5
  <2>3. ASSUME Execute(c), res[c].targets # <<>>
        PROVE  \/ UNCHANGED write
               \/ /\ Complete(c, "Rejected",
                              "delivery_quorum_exceeds_target_count", outs)
                  /\ ~QuorumFits(c)
    <3>1. Len(snapshots[c]) = target_count(res[c])
      BY <1>2, <1>3, SnapshotType
    <3> QED BY <2>3, <3>1 DEF Execute, QuorumFits
  <2>4. ASSUME ~QuorumFits(c) PROVE Justified(c, "Rejected", outs)
    <3>1. \A i \in DOMAIN outs : /\ i \in DOMAIN snapshots[c]
                                 /\ snapshots[c][i] = outs[i]
      <4> DEFINE tail == [i \in DOMAIN res[c].targets |->
                            [target |-> res[c].targets[i],
                             kind |-> "Retryable"]]
                 s == outs
      <4>1. tail \in [DOMAIN res[c].targets -> Outcome]
        BY <1>3 DEF Resolution, Outcome, Kinds
      <4>2. snapshots[c] = s \o tail
        BY <1>2 DEF target_snapshots_from_resolution
      <4> HIDE DEF tail
      <4>3. tail \in Seq(Outcome) /\ s \in Seq(Outcome)
        BY <1>3, <4>1, MapType DEF Resolution
      <4> HIDE DEF s
      <4>4. /\ s \o tail \in Seq(Outcome)
            /\ Len(s \o tail) = Len(s) + Len(tail)
            /\ \A i \in 1..Len(s) + Len(tail) :
                 (s \o tail)[i] = IF i <= Len(s) THEN s[i] ELSE tail[i - Len(s)]
        BY <4>3, ConcatProperties
      <4>5. /\ Len(s) \in Nat /\ Len(tail) \in Nat /\ DOMAIN s = 1..Len(s)
            /\ DOMAIN (s \o tail) = 1..Len(s) + Len(tail)
        BY <4>3, <4>4
      <4>6. \A i \in DOMAIN s : i \in DOMAIN (s \o tail) /\ (s \o tail)[i] = s[i]
        BY <4>4, <4>5
      <4> QED BY <4>2, <4>6 DEF s
    <3>2. DistinctTargets(snapshots[c]) => DistinctTargets(outs)
      BY <3>1 DEF DistinctTargets
    <3> QED BY <1>3, <2>4, <3>2 DEF Justified, NothingAccepted
  <2> QED BY <2>1, <2>2, <2>3, <2>4
<1> QED BY <1>5, <1>6, <1>7

(* Who changes what the writers hold.                                      *)
LEMMA WriteChange ==
  ASSUME Next
  PROVE  \/ UNCHANGED write
         \/ \E c \in Calls :
              RecordReadOutcomes(c) \/ PublishDone(c) \/ PublishAborted(c)
         \/ \E w \in Writers :
              UpdateJob(w) \/ DeleteResults(w) \/ InsertResult(w)
         \/ \E p \in Procs : \E c \in Calls : RecoverJob(p, c)
         \/ CrashDaemon \/ CrashCli \/ \E c \in Calls : StatementFails(c)
BY DEF Next, CallStep, RecoveryStep, Environment, Writers,
       Resolve, LookupKey, LookupReadOutcomes, InsertJob, ReadRow,
       FinalReadOutcomes, SelectInterrupted, FinishOpen, Refuse, Admit,
       RelayReplies, OpenStore, Disconnect

(* Nobody comes to settle a job with outcomes that are not justified.      *)
LEMMA PlanStep ==
  ASSUME TypeOK, WriteInv, TodoInv, PhaseInv, RefusalInv, PlanInv, Next
  PROVE  PlanInv'
<1> USE DEF dbVars, histVars
<1> SUFFICES ASSUME NEW w \in Writers, NEW j, j = write'[w].job,
                    NEW status, status = write'[w].status,
                    NEW rows, rows = write'[w].rows,
                    write'[w].stage = "update"
             PROVE  Justified(j, status, rows)'
  BY DEF PlanInv
<1> DEFINE News == j \in Calls /\ Recorded(j) /\ Justified(j, status, rows)
<1> SUFFICES News
  BY RecordedFrame, JustifiedStays
<1>1. CASE write'[w] = write[w]
  BY <1>1 DEF PlanInv, WriteInv
<1>2. ASSUME NEW c \in Calls,
             RecordReadOutcomes(c) \/ PublishDone(c) \/ PublishAborted(c)
      PROVE  News
  <2>1. Recorded(c)
    BY <1>2 DEF RecordReadOutcomes, PublishDone, PublishAborted, PhaseInv,
                AfterInsert
  <2>2. CASE UNCHANGED write
    BY <1>1, <2>2
  <2>3. ASSUME NEW s, NEW e, NEW r, Complete(c, s, e, r), Justified(c, s, r)
        PROVE  News
    <3>1. \A v \in Writers : write'[v] =
            IF v = c THEN [stage |-> "update", job |-> c, status |-> s,
                           lastError |-> e, rows |-> r]
                     ELSE write[v]
      BY <2>3 DEF Complete, TypeOK
    <3>2. CASE w = c
      BY <2>1, <2>3, <3>1, <3>2
    <3> QED BY <1>1, <3>1, <3>2
  <2> QED BY <1>2, <2>2, <2>3, CompletionJustified
<1>3. ASSUME NEW v \in Writers, UpdateJob(v) PROVE News
  <2>1. write'[w] = write[w]
    BY <1>3 DEF UpdateJob, TypeOK, Writing
  <2> QED BY <1>1, <2>1
<1>4. ASSUME NEW v \in Writers, DeleteResults(v) \/ InsertResult(v)
      PROVE  News
  <2>1. PICK rest : ContinueWith(v, rest)
    BY <1>4 DEF DeleteResults, InsertResult
  <2>2. write'[v].stage # "update" /\ \A u \in Writers \ {v} :
          write'[u] = write[u]
    BY <2>1 DEF ContinueWith, TypeOK, Writing, NoWrite
  <2> QED BY <1>1, <2>2
<1>5. ASSUME NEW p \in Procs, NEW c \in Calls, RecoverJob(p, c)
      PROVE  News
  <2>1. p \in Writers
    BY DEF Writers
  <2>2. \A v \in Writers : v # p => write'[v] = write[v]
    BY <1>5 DEF RecoverJob, TypeOK
  <2>3. /\ write'[p].job = c /\ write'[p].status = RecoveredStatus(c)
        /\ write'[p].rows = snapshots[c]
    BY <1>5, <2>1 DEF RecoverJob, TypeOK
  <2>4. Recorded(c)
    BY <1>5 DEF RecoverJob, TodoInv
  <2>5. CASE w = p
    BY <2>3, <2>4, <2>5, RecoveryJustified
  <2> QED BY <1>1, <2>2, <2>5
<1>6. ASSUME CrashDaemon \/ CrashCli \/ \E c \in Calls : StatementFails(c)
      PROVE  News
  <2>1. \A v \in Writers : write'[v] = write[v] \/ write'[v] = NoWrite
    BY <1>6 DEF CrashDaemon, DaemonGone, CrashCli, StatementFails, TypeOK
  <2> QED BY <1>1, <2>1 DEF NoWrite
<1>7. CASE UNCHANGED write
  BY <1>1, <1>7
<1> QED BY <1>2, <1>3, <1>4, <1>5, <1>6, <1>7, WriteChange

(* The daemon recovers jobs of earlier runs only.                          *)
LEMMA BornStep ==
  ASSUME TypeOK, WriteInv, RunInv, BornInv, Next
  PROVE  BornInv'
<1> USE DEF histVars, dbVars
<1>a. "daemon" \in Procs /\ "daemon" # "cli"
  BY DEF Procs
<1>b. epoch \in Nat /\ \A c \in Calls : born[c] \in Nat
  BY DEF TypeOK
<1>1. ASSUME NEW c \in Calls, NEW q \in Request, Admit(c, q) PROVE BornInv'
  <2>1. /\ epoch' = epoch /\ store' = store /\ store["daemon"].state = "open"
        /\ \A d \in Calls : born'[d] = IF d = c THEN epoch ELSE born[d]
    BY <1>1 DEF Admit, TypeOK
  <2> QED BY <1>b, <2>1 DEF BornInv
<1>2. ASSUME CallOrWriterStep PROVE BornInv'
  <2>1. store' = store /\ born' = born /\ epoch' = epoch
    BY <1>2 DEF CallOrWriterStep
  <2>2. \A c \in Calls : InsertJob(c) => store["daemon"].state = "open"
    <3>1. "insert" \in Active
      BY DEF Active, DbSteps
    <3> QED BY <3>1 DEF InsertJob, RunInv
  <2> QED BY <2>1, <2>2, RecordedComes DEF BornInv
<1>3. ASSUME NEW p \in Procs, OpeningStep(p) PROVE BornInv'
  <2>1. born' = born /\ jobs' = jobs
    BY <1>3 DEF OpeningStep, OpenStore, SelectInterrupted, FinishOpen,
                RecoverJob
  <2>2. \A c \in Calls : Recorded(c)' <=> Recorded(c)
    BY <2>1 DEF Recorded
  <2>3. CASE p = "cli"
    <3>1. epoch' = epoch /\ store'["daemon"] = store["daemon"]
      BY <1>3, <1>a, <2>3 DEF OpeningStep, OpenStore, SelectInterrupted,
                              FinishOpen, RecoverJob, TypeOK
    <3> QED BY <2>1, <2>2, <3>1 DEF BornInv
  <2>4. CASE p = "daemon" /\ OpenStore(p)
    <3>1. epoch' = epoch + 1
      BY <2>4 DEF OpenStore
    <3> QED BY <1>b, <2>1, <3>1 DEF BornInv
  <2>5. CASE p = "daemon" /\ ~OpenStore(p)
    <3>1. /\ epoch' = epoch
          /\ \/ store["daemon"].state \in {"selecting", "recovering"}
             \/ store'["daemon"].state = "open"
      BY <1>3, <2>5, <1>a DEF OpeningStep, SelectInterrupted, FinishOpen,
                              RecoverJob, TypeOK
    <3> QED BY <2>1, <2>2, <3>1 DEF BornInv
  <2> QED BY <2>3, <2>4, <2>5 DEF Procs
<1>4. ASSUME CrashDaemon PROVE BornInv'
  <2>1. /\ born' = born /\ epoch' = epoch
        /\ store'["daemon"].state = "closed"
    BY <1>4, <1>a DEF CrashDaemon, DaemonGone, Fault, TypeOK
  <2> QED BY <2>1 DEF BornInv
<1>5. ASSUME CrashCli PROVE BornInv'
  <2>1. /\ born' = born /\ epoch' = epoch /\ jobs' = jobs
        /\ store'["daemon"] = store["daemon"]
    BY <1>5, <1>a DEF CrashCli, Fault, TypeOK
  <2> QED BY <2>1 DEF BornInv, Recorded
<1> QED BY <1>1, <1>2, <1>3, <1>4, <1>5, StepKinds

(* With one process no job is in two hands.                                *)
LEMMA OneWriter ==
  ASSUME WriteInv, RunInv, SoleInv, NEW v \in Writers, NEW w \in Writers,
         write[v].stage # "idle", write[w].stage # "idle",
         write[v].job = write[w].job
  PROVE  v = w
<1>1. "completing" \in Active
  BY DEF Active, DbSteps
<1>2. \A u \in Writers : write[u].stage # "idle" =>
        \/ /\ u \in Calls /\ write[u].job = u
           /\ store["daemon"].state = "open"
        \/ u = "daemon" /\ store["daemon"].state = "recovering"
  BY <1>1 DEF WriteInv, RunInv, SoleInv, Writers, Procs
<1> QED BY <1>2

(* A writer at work goes on with its statements unless it dies or fails.   *)
LEMMA WriterStays ==
  ASSUME TypeOK, WriteInv, Next, NEW w \in Writers, write[w].stage # "idle"
  PROVE  \/ write'[w] = write[w]
         \/ UpdateJob(w) \/ DeleteResults(w) \/ InsertResult(w)
         \/ CrashDaemon /\ w # "cli"
         \/ CrashCli /\ w = "cli"
         \/ w \in Calls /\ StatementFails(w)
<1>1. CASE UNCHANGED write
  BY <1>1
<1>2. ASSUME NEW c \in Calls,
             RecordReadOutcomes(c) \/ PublishDone(c) \/ PublishAborted(c)
      PROVE  write'[w] = write[w]
  <2>1. CallAction(c)
    BY <1>2 DEF CallAction, CallStep
  <2>2. w # c
    BY <1>2 DEF RecordReadOutcomes, PublishDone, PublishAborted, WriteInv
  <2> QED BY <2>1, <2>2, CallFrame
<1>3. ASSUME NEW v \in Writers,
             UpdateJob(v) \/ DeleteResults(v) \/ InsertResult(v)
      PROVE  v = w \/ write'[w] = write[w]
  <2>1. write' = [write EXCEPT ![v].stage = "delete"]
        \/ \E rest : ContinueWith(v, rest)
    BY <1>3 DEF UpdateJob, DeleteResults, InsertResult
  <2> QED BY <2>1 DEF ContinueWith, TypeOK
<1>4. ASSUME NEW p \in Procs, NEW c \in Calls, RecoverJob(p, c)
      PROVE  write'[w] = write[w]
  BY <1>4 DEF RecoverJob, TypeOK
<1>5. ASSUME CrashDaemon PROVE w # "cli" \/ write'[w] = write[w]
  BY <1>5 DEF CrashDaemon, DaemonGone, TypeOK
<1>6. ASSUME CrashCli PROVE w = "cli" \/ write'[w] = write[w]
  BY <1>6 DEF CrashCli, TypeOK
<1>7. ASSUME NEW c \in Calls, StatementFails(c)
      PROVE  w = c \/ write'[w] = write[w]
  BY <1>7 DEF StatementFails, TypeOK
<1> QED BY <1>1, <1>2, <1>3, <1>4, <1>5, <1>6, <1>7, WriteChange

(* A writer that is past its UPDATE was so before, or comes from it.       *)
LEMMA WriterComes ==
  ASSUME TypeOK, WriteInv, Next, NEW w \in Writers,
         write'[w].stage \in {"delete", "insert"}
  PROVE  \/ write'[w] = write[w]
         \/ /\ UpdateJob(w) \/ DeleteResults(w) \/ InsertResult(w)
            /\ write'[w].job = write[w].job
<1>1. CASE UNCHANGED write
  BY <1>1
<1>2. ASSUME NEW c \in Calls,
             RecordReadOutcomes(c) \/ PublishDone(c) \/ PublishAborted(c)
      PROVE  write'[w] = write[w]
  <2>1. \/ write' = write
        \/ \E s, e, r : Complete(c, s, e, r)
    BY <1>2 DEF RecordReadOutcomes, PublishDone, PublishAborted,
                CompleteWith, Execute
  <2> QED BY <2>1 DEF Complete, TypeOK
<1>3. ASSUME NEW v \in Writers,
             UpdateJob(v) \/ DeleteResults(v) \/ InsertResult(v)
      PROVE  \/ v # w /\ write'[w] = write[w]
             \/ v = w /\ write'[w].job = write[w].job
  <2>1. write' = [write EXCEPT ![v].stage = "delete"]
        \/ \E rest : ContinueWith(v, rest)
    BY <1>3 DEF UpdateJob, DeleteResults, InsertResult
  <2> QED BY <2>1 DEF ContinueWith, TypeOK, Writing, NoWrite
<1>4. ASSUME NEW p \in Procs, NEW c \in Calls, RecoverJob(p, c)
      PROVE  write'[w] = write[w]
  BY <1>4 DEF RecoverJob, TypeOK
<1>5. ASSUME CrashDaemon \/ CrashCli \/ \E c \in Calls : StatementFails(c)
      PROVE  write'[w] = write[w]
  <2>1. write'[w] = write[w] \/ write'[w] = NoWrite
    BY <1>5 DEF CrashDaemon, DaemonGone, CrashCli, StatementFails, TypeOK
  <2> QED BY <2>1 DEF NoWrite
<1> QED BY <1>1, <1>2, <1>3, <1>4, <1>5, WriteChange

(* The outcome rows change by DELETE and INSERT alone.                     *)
LEMMA ResultsChange ==
  ASSUME Next
  PROVE  \/ results' = results
         \/ \E w \in Writers : DeleteResults(w) \/ InsertResult(w)
BY DEF dbVars, Next, CallStep, RecoveryStep, Environment, Writers,
       Resolve, LookupKey, LookupReadOutcomes, InsertJob, ReadRow,
       RecordReadOutcomes, PublishDone, PublishAborted, UpdateJob,
       FinalReadOutcomes, SelectInterrupted, RecoverJob, FinishOpen, Admit,
       Refuse, RelayReplies, OpenStore, CrashDaemon, CrashCli, Disconnect,
       StatementFails

(* The row of a settled job changes by another UPDATE alone.               *)
LEMMA SettledRowStays ==
  ASSUME TypeOK, WriteInv, PhaseInv, Next, NEW c \in Calls, Recorded(c)
  PROVE  \/ jobs'[c] = jobs[c]
         \/ \E w \in Writers : UpdateJob(w) /\ write[w].job = c
<1>1. CASE jobs' = jobs
  BY <1>1
<1>2. ASSUME NEW d \in Calls, InsertJob(d) PROVE jobs'[c] = jobs[c]
  <2>1. c # d
    BY <1>2 DEF InsertJob, PhaseInv, BeforeInsert
  <2>2. CASE KeyTaken(d)
    BY <1>2, <2>2 DEF InsertJob
  <2>3. CASE ~KeyTaken(d)
    BY <1>2, <2>1, <2>3, InsertRows
  <2> QED BY <2>2, <2>3
<1>3. ASSUME NEW w \in Writers, UpdateJob(w)
      PROVE  jobs'[c] = jobs[c] \/ write[w].job = c
  BY <1>3, UpdateRows
<1> QED BY <1>1, <1>2, <1>3, JobsChange

(* Settled jobs stay settled.                                              *)
LEMMA SettledStays ==
  ASSUME TypeOK, WriteInv, PhaseInv, Next, NEW c \in Calls, Settled(c)
  PROVE  Settled(c)'
<1>1. Recorded(c)
  BY DEF Settled, Recorded, FinalStatus
<1>2. ASSUME NEW w \in Writers, UpdateJob(w), write[w].job = c
      PROVE  Settled(c)'
  BY <1>2, UpdateRows DEF Settled
<1>3. CASE jobs'[c] = jobs[c]
  BY <1>3 DEF Settled
<1> QED BY <1>1, <1>2, <1>3, SettledRowStays

(* No outcome is written for a job that is not settled.                    *)
LEMMA FreshStep ==
  ASSUME TypeOK, WriteInv, PhaseInv, FreshInv, Next
  PROVE  FreshInv'
<1>1. ASSUME NEW c \in Calls, ~Settled(c)' PROVE results'[c] = {}
  <2>1. ~Settled(c) /\ results[c] = {}
    BY <1>1, SettledStays DEF FreshInv
  <2>2. ASSUME NEW w \in Writers, DeleteResults(w) \/ InsertResult(w)
        PROVE  results'[c] = results[c]
    <3>1. write[w].stage \in {"delete", "insert"}
      BY <2>2 DEF DeleteResults, InsertResult
    <3>2. write[w].job # c
      BY <2>1, <3>1 DEF FreshInv
    <3> QED BY <2>2, <3>2 DEF DeleteResults, InsertResult, TypeOK
  <2> QED BY <2>1, <2>2, ResultsChange
<1>2. ASSUME NEW w \in Writers, write'[w].stage \in {"delete", "insert"},
             NEW j, j = write'[w].job
      PROVE  Settled(j)'
  <2>1. CASE write'[w] = write[w]
    <3>1. j \in Calls /\ Settled(j)
      BY <1>2, <2>1 DEF FreshInv, WriteInv
    <3> QED BY <3>1, SettledStays
  <2>2. CASE UpdateJob(w) /\ write'[w].job = write[w].job
    BY <1>2, <2>2, UpdateRows DEF Settled
  <2>3. CASE /\ DeleteResults(w) \/ InsertResult(w)
             /\ write'[w].job = write[w].job
    <3>1. write[w].stage \in {"delete", "insert"}
      BY <2>3 DEF DeleteResults, InsertResult
    <3>2. j \in Calls /\ Settled(j)
      BY <1>2, <2>3, <3>1 DEF FreshInv, WriteInv
    <3> QED BY <3>2, SettledStays
  <2> QED BY <1>2, <2>1, <2>2, <2>3, WriterComes
<1> QED BY <1>1, <1>2 DEF FreshInv, Settled

(* The statements of a call that has failed or died are over.              *)
LEMMA FailedStays ==
  ASSUME TypeOK, WriteInv, Next, NEW c \in Calls, pc[c] \in {"lost", "failed"}
  PROVE  pc'[c] = pc[c]
<1>1. pc[c] \notin Active /\ pc[c] # "idle"
  BY DEF Active, DbSteps, Awaiting
<1>2. ASSUME NEW d \in Calls, CallAction(d) PROVE pc'[c] = pc[c]
  <2>1. d # c
    <3>1. \A d1 \in Calls : write[d1].stage # "idle" => pc[d1] = "completing"
      BY DEF WriteInv, Writers
    <3> QED
      BY <1>2, <3>1
      DEF CallAction, CallStep, Resolve, LookupKey, LookupReadOutcomes,
          InsertJob, ReadRow, RecordReadOutcomes, PublishDone, PublishAborted,
          UpdateJob, DeleteResults, InsertResult, FinalReadOutcomes, Admit,
          Refuse, RelayReplies, Disconnect, StatementFails, DbSteps, Awaiting
  <2>2. pc' = pc \/ \E x : pc' = [pc EXCEPT ![d] = x]
    BY <1>2
    DEF CallAction, CallStep, Resolve, LookupKey, LookupReadOutcomes,
        InsertJob, ReadRow, RecordReadOutcomes, PublishDone, PublishAborted,
        UpdateJob, DeleteResults, InsertResult, FinalReadOutcomes, Admit,
        Refuse, RelayReplies, Disconnect, StatementFails, CompleteWith,
        Complete, Execute, ContinueWith, End
  <2> QED BY <2>1, <2>2 DEF TypeOK
<1>3. ASSUME NEW p \in Procs, RecoveryStep(p) PROVE pc'[c] = pc[c]
  <2>1. p \notin Calls
    BY PublishAssumption DEF Procs
  <2> QED BY <1>3, <2>1
          DEF RecoveryStep, SelectInterrupted, RecoverJob, UpdateJob,
              DeleteResults, InsertResult, FinishOpen, ContinueWith
<1>4. ASSUME NEW p \in Procs, OpenStore(p) PROVE pc'[c] = pc[c]
  BY <1>4 DEF OpenStore
<1>5. CASE CrashDaemon
  BY <1>1, <1>5 DEF CrashDaemon, DaemonGone
<1>6. CASE CrashCli
  BY <1>6 DEF CrashCli
<1> QED
  BY <1>2, <1>3, <1>4, <1>5, <1>6, Zenon DEF Next, Environment, CallAction

(* A job of this run whose call is sound was so before the step.           *)
LEMMA SoundComes ==
  ASSUME TypeOK, WriteInv, PhaseInv, BornInv, Next,
         NEW c \in Calls, Recorded(c), Sound(c)'
  PROVE  Sound(c)
<1>1. born'[c] = born[c]
  BY RecordedFrame
<1>2. pc[c] \notin {"lost", "failed"}
  BY FailedStays DEF Sound
<1>3. epoch' = epoch \/ epoch' = epoch + 1
  BY DEF Next, CallStep, RecoveryStep, Environment, histVars,
         Resolve, LookupKey, LookupReadOutcomes, InsertJob, ReadRow,
         RecordReadOutcomes, PublishDone, PublishAborted, UpdateJob,
         DeleteResults, InsertResult, FinalReadOutcomes, SelectInterrupted,
         RecoverJob, FinishOpen, Refuse, RelayReplies, Admit, OpenStore,
         CrashDaemon, DaemonGone, CrashCli, Disconnect, StatementFails, Fault
<1>4. born[c] \in Nat /\ epoch \in Nat /\ born[c] <= epoch
  BY DEF TypeOK, BornInv
<1>5. epoch = born[c]
  BY <1>1, <1>3, <1>4 DEF Sound
<1> QED BY <1>2, <1>5 DEF Sound

(* While the daemon is alone, whoever settles a job of this run goes on    *)
(* unless the call of the job dies or fails.                               *)
LEMMA BusyStays ==
  ASSUME TypeOK, WriteInv, RunInv, SoleInv, BornInv, Next,
         NEW c \in Calls, Busy(c), Sound(c), Sound(c)',
         \A w \in Writers : write[w].job = c =>
           ~DeleteResults(w) /\ ~InsertResult(w)
  PROVE  Busy(c)'
<1>1. PICK w \in Writers : write[w].stage # "idle" /\ write[w].job = c
  BY DEF Busy
<1>2. CASE write'[w] = write[w]
  BY <1>1, <1>2 DEF Busy
<1>3. CASE UpdateJob(w)
  <2>1. write'[w].stage = "delete" /\ write'[w].job = c
    BY <1>1, <1>3 DEF UpdateJob, TypeOK, Writing
  <2> QED BY <2>1 DEF Busy
<1>4. CASE CrashDaemon /\ w # "cli"
  <2>1. CASE w \in Calls
    <3>1. w = c /\ pc[c] = "completing"
      BY <1>1, <2>1 DEF WriteInv
    <3>2. pc'[c] = "lost"
      BY <1>4, <3>1 DEF CrashDaemon, DaemonGone, Active, DbSteps
    <3> QED BY <3>2 DEF Sound
  <2>2. CASE w = "daemon"
    <3>1. store["daemon"].state = "recovering" /\ Recorded(c)
      BY <1>1, <2>2 DEF SoleInv, WriteInv
    <3>2. born[c] < epoch /\ born[c] \in Nat /\ epoch \in Nat
      BY <3>1 DEF BornInv, TypeOK
    <3> QED BY <3>2 DEF Sound
  <2> QED BY <1>4, <2>1, <2>2 DEF Writers, Procs
<1>5. CASE CrashCli /\ w = "cli"
  BY <1>1, <1>5 DEF SoleInv
<1>6. CASE w \in Calls /\ StatementFails(w)
  <2>1. w = c
    BY <1>1, <1>6 DEF WriteInv
  <2>2. pc'[c] = "failed"
    BY <1>6, <2>1 DEF StatementFails, End, TypeOK
  <2> QED BY <2>2 DEF Sound
<1> QED BY <1>1, <1>2, <1>3, <1>4, <1>5, <1>6, WriterStays

(* The UPDATE of a job nothing has been written for.                       *)
LEMMA RowsAfterUpdate ==
  ASSUME TypeOK, WriteInv, PhaseInv, RunInv, SoleInv, OpenInv, FreshInv,
         PlanInv, Next, NEW w \in Writers, UpdateJob(w),
         NEW c \in Calls, c = write[w].job, NEW S, S = write[w].rows,
         NEW status, status = write[w].status
  PROVE  S \in Seq(Outcome) /\ SettledWith(c, S, 0)'
<1>1. write[w].stage = "update"
  BY DEF UpdateJob
<1>2. Justified(c, status, S) /\ S \in Seq(Outcome)
  <2>1. Justified(write[w].job, write[w].status, write[w].rows)
    BY <1>1 DEF PlanInv
  <2>2. Justified(c, status, S)
    BY <2>1
  <2> QED BY <2>2 DEF Justified
<1>3. Recorded(c)
  BY <1>1 DEF WriteInv
<1>4. results'[c] = {}
  <2>1. ~Settled(c)
    BY <1>1 DEF OpenInv, Publishing, Settled, FinalStatus
  <2>2. results' = results
    BY DEF UpdateJob
  <2> QED BY <2>1, <2>2 DEF FreshInv
<1>5. jobs'[c].status = status /\ jobs'[c].count = Len(S)
  BY DEF UpdateJob, TypeOK
<1>6. Justified(c, status, S)'
  BY <1>2, <1>3, RecordedFrame, JustifiedStays
<1>7. Justified(c, jobs[c].status, S)'
  BY <1>5, <1>6 DEF Justified
<1>8. /\ write'[w].stage = "delete" /\ write'[w].job = c /\ write'[w].rows = S
      /\ \A v \in Writers \ {w} : write'[v] = write[v]
  BY DEF UpdateJob, TypeOK, Writing
<1>9. \A v \in Writers \ {w} : write[v].job = c => write[v].stage = "idle"
  BY <1>1, OneWriter
<1>10. Busy(c)'
  BY <1>8 DEF Busy
<1>11. Len(S) \in Nat
  BY <1>2
<1>12. {S[i] : i \in 1..0} = {}
  OBVIOUS
<1>13. \A v \in Writers : write'[v].job = c =>
         /\ write'[v].stage = "delete" => 0 = 0 /\ write'[v].rows = S
         /\ write'[v].stage = "insert" => Remaining(S, 0, write'[v].rows)
  BY <1>8, <1>9
<1> QED
  BY <1>2, <1>4, <1>5, <1>7, <1>10, <1>11, <1>12, <1>13
  DEF SettledWith, Remaining, DistinctTargets

(* What ContinueWith leaves in the writers' hands.                         *)
LEMMA HandsAfter ==
  ASSUME TypeOK, WriteInv, RunInv, SoleInv, NEW w \in Writers,
         write[w].stage # "idle", NEW c \in Calls, c = write[w].job,
         NEW rest \in Seq(Outcome), ContinueWith(w, rest)
  PROVE  /\ \A v \in Writers : write'[v].job = c /\ write'[v].stage # "idle" =>
              /\ v = w /\ rest # <<>>
              /\ write'[v].stage = "insert" /\ write'[v].rows = rest
         /\ ~Busy(c)' => rest = <<>>
<1>1. \A v \in Writers \ {w} :
        write'[v] = write[v] /\ (write[v].job = c => write[v].stage = "idle")
  BY OneWriter DEF ContinueWith, TypeOK
<1>2. CASE rest = <<>>
  <2>1. write'[w].stage = "idle"
    BY <1>2 DEF ContinueWith, TypeOK, NoWrite
  <2> QED BY <1>1, <1>2, <2>1
<1>3. CASE rest # <<>>
  <2>1. /\ write'[w].stage = "insert" /\ write'[w].rows = rest
        /\ write'[w].job = c
    BY <1>3 DEF ContinueWith, TypeOK, Writing
  <2>2. Busy(c)'
    BY <2>1 DEF Busy
  <2> QED BY <1>1, <1>3, <2>1, <2>2
<1> QED BY <1>2, <1>3

(* The DELETE.                                                             *)
LEMMA RowsAfterDelete ==
  ASSUME TypeOK, WriteInv, RunInv, SoleInv, NEW w \in Writers,
         DeleteResults(w), NEW c \in Calls, c = write[w].job,
         NEW S \in Seq(Outcome), NEW k \in Nat, SettledWith(c, S, k),
         Justified(c, jobs[c].status, S)', jobs'[c] = jobs[c]
  PROVE  SettledWith(c, S, 0)'
<1>1. write[w].stage = "delete"
  BY DEF DeleteResults
<1>2. write[w].rows = S
  BY <1>1 DEF SettledWith
<1>3. ContinueWith(w, S) /\ results'[c] = {}
  BY <1>2 DEF DeleteResults, TypeOK
<1>4. /\ \A v \in Writers : write'[v].job = c /\ write'[v].stage # "idle" =>
           write'[v].stage = "insert" /\ write'[v].rows = S
      /\ ~Busy(c)' => S = <<>>
  BY <1>1, <1>3, HandsAfter
<1>5. Len(S) = jobs'[c].count /\ Len(S) \in Nat
  BY DEF SettledWith
<1>6. {S[i] : i \in 1..0} = {}
  OBVIOUS
<1>7. Remaining(S, 0, S)
  BY <1>5 DEF Remaining
<1>8. \A v \in Writers : write'[v].job = c =>
         /\ write'[v].stage = "delete" => 0 = 0 /\ write'[v].rows = S
         /\ write'[v].stage = "insert" => Remaining(S, 0, write'[v].rows)
  BY <1>4, <1>7
<1>9. ~Busy(c)' => Len(S) = 0
  BY <1>4
<1> QED
  BY <1>3, <1>5, <1>6, <1>8, <1>9 DEF SettledWith, Remaining, DistinctTargets

(* An INSERT.                                                              *)
LEMMA RowsAfterInsert ==
  ASSUME TypeOK, WriteInv, RunInv, SoleInv, NEW w \in Writers,
         InsertResult(w), NEW c \in Calls, c = write[w].job,
         NEW S \in Seq(Outcome), NEW k \in Nat, SettledWith(c, S, k),
         Justified(c, jobs[c].status, S)', jobs'[c] = jobs[c]
  PROVE  SettledWith(c, S, k + 1)'
<1> DEFINE rows == write[w].rows
           row  == Head(rows)
           rest == Tail(rows)
<1>1. write[w].stage = "insert"
  BY DEF InsertResult
<1>2. rows # <<>> /\ rows \in Seq(Outcome) /\ Remaining(S, k, rows)
  BY <1>1 DEF WriteInv, SettledWith, TypeOK, Writing
<1>3. /\ Len(S) \in Nat /\ k \in 0..Len(S) /\ Len(S) = jobs'[c].count
      /\ results[c] \subseteq {S[i] : i \in 1..k}
      /\ DistinctTargets(S) => {S[i] : i \in 1..k} \subseteq results[c]
  BY DEF SettledWith
<1>4. /\ ContinueWith(w, rest)
      /\ results'[c] = {o \in results[c] : o.target # row.target} \cup {row}
  BY DEF InsertResult, TypeOK
<1> HIDE DEF rows
<1>5. Len(rows) \in Nat \ {0} /\ row = rows[1] /\ rest \in Seq(Outcome)
      /\ Len(rest) = Len(rows) - 1
      /\ \A i \in 1..Len(rows) - 1 : rest[i] = rows[i + 1]
  BY <1>2
<1> HIDE DEF row, rest
<1>a. /\ Len(rows) = Len(S) - k
      /\ \A i \in 1..Len(rows) : rows[i] = S[k + i]
  BY <1>2 DEF Remaining
<1>b. k + 1 \in 0..Len(S) /\ Len(rest) = Len(S) - (k + 1)
  <2> DEFINE m == Len(S)
             n == Len(rows)
             l == Len(rest)
  <2>1. m \in Nat /\ n \in Nat \ {0} /\ k \in Nat
    BY <1>3, <1>5
  <2>2. n = m - k /\ l = n - 1
    BY <1>5, <1>a
  <2> HIDE DEF m, n, l
  <2>3. k + 1 \in 0..m /\ l = m - (k + 1)
    BY <2>1, <2>2
  <2> QED BY <2>3 DEF m, l
<1>c. 1 \in 1..Len(rows)
  BY <1>5
<1>6. k + 1 \in 0..Len(S) /\ row = S[k + 1] /\ Len(rest) = Len(S) - (k + 1)
  BY <1>5, <1>a, <1>b, <1>c
<1>7. \A i \in 1..Len(S) - (k + 1) : rest[i] = S[(k + 1) + i]
  <2> SUFFICES ASSUME NEW i \in 1..Len(S) - (k + 1)
               PROVE  rest[i] = S[(k + 1) + i]
    OBVIOUS
  <2>1. i \in 1..Len(rows) - 1 /\ i + 1 \in 1..Len(rows)
    <3> DEFINE m == Len(S)
               n == Len(rows)
    <3>1. m \in Nat /\ n \in Nat \ {0} /\ k \in Nat
      BY <1>3, <1>5
    <3>2. n = m - k /\ i \in 1..m - (k + 1)
      BY <1>a
    <3> HIDE DEF m, n
    <3>3. i \in 1..n - 1 /\ i + 1 \in 1..n
      BY <3>1, <3>2
    <3> QED BY <3>3 DEF n
  <2>2. k + (i + 1) = (k + 1) + i
    BY <1>3
  <2>3. rest[i] = rows[i + 1] /\ rows[i + 1] = S[k + (i + 1)]
    BY <1>5, <1>a, <2>1
  <2> QED BY <2>2, <2>3
<1>8. Remaining(S, k + 1, rest)
  BY <1>6, <1>7 DEF Remaining
<1>9. {S[i] : i \in 1..k + 1} = {S[i] : i \in 1..k} \cup {row}
  BY <1>3, <1>6
<1>10. results'[c] \subseteq {S[i] : i \in 1..k + 1}
  BY <1>3, <1>4, <1>9
<1>11. ASSUME DistinctTargets(S)
       PROVE  {S[i] : i \in 1..k + 1} \subseteq results'[c]
  <2>1. \A i \in 1..k : S[i].target # row.target
    <3>1. \A i \in 1..k : i \in DOMAIN S /\ k + 1 \in DOMAIN S /\ i # k + 1
      BY <1>3, <1>6
    <3> QED BY <1>6, <1>11, <3>1 DEF DistinctTargets
  <2>2. {S[i] : i \in 1..k} \subseteq results[c]
    BY <1>3, <1>11
  <2>3. {S[i] : i \in 1..k} \subseteq {o \in results[c] : o.target # row.target}
    BY <2>1, <2>2
  <2> QED BY <1>4, <1>9, <2>3
<1>12. /\ \A v \in Writers : write'[v].job = c /\ write'[v].stage # "idle" =>
            write'[v].stage = "insert" /\ write'[v].rows = rest
       /\ ~Busy(c)' => rest = <<>>
  BY <1>1, <1>4, <1>5, HandsAfter
<1>13. \A v \in Writers : write'[v].job = c =>
         /\ write'[v].stage = "delete" => k + 1 = 0 /\ write'[v].rows = S
         /\ write'[v].stage = "insert" => Remaining(S, k + 1, write'[v].rows)
  BY <1>8, <1>12
<1>14. ~Busy(c)' => k + 1 = Len(S)
  BY <1>3, <1>6, <1>12
<1> QED
  BY <1>3, <1>6, <1>10, <1>11, <1>13, <1>14
  DEF SettledWith, Remaining, DistinctTargets

(* Every other step leaves the rows of a settled job as they are.          *)
LEMMA RowsLeftAlone ==
  ASSUME TypeOK, WriteInv, PhaseInv, RunInv, SoleInv, BornInv, Next,
         NEW c \in Calls, Recorded(c),
         \A w \in Writers : write[w].job = c =>
           ~UpdateJob(w) /\ ~DeleteResults(w) /\ ~InsertResult(w),
         NEW S \in Seq(Outcome), NEW k \in Nat, SettledWith(c, S, k),
         Justified(c, jobs[c].status, S)', jobs'[c] = jobs[c]
  PROVE  SettledWith(c, S, k)'
<1>1. results'[c] = results[c]
  <2>1. ASSUME NEW w \in Writers, DeleteResults(w) \/ InsertResult(w)
        PROVE  results'[c] = results[c]
    <3>1. write[w].job # c
      BY <2>1
    <3> QED BY <2>1, <3>1 DEF DeleteResults, InsertResult, TypeOK
  <2> QED BY <2>1, ResultsChange
<1>2. \A w \in Writers :
        write'[w].job = c /\ write'[w].stage \in {"delete", "insert"} =>
          write'[w] = write[w]
  BY WriterComes
<1>3. ~Busy(c)' /\ Sound(c)' => k = Len(S)
  <2>1. ~Busy(c)' /\ Sound(c)' => ~Busy(c) /\ Sound(c)
    BY SoundComes, BusyStays
  <2> QED BY <2>1 DEF SettledWith
<1>4. \A w \in Writers : write'[w].job = c =>
        /\ write'[w].stage = "delete" => k = 0 /\ write'[w].rows = S
        /\ write'[w].stage = "insert" => Remaining(S, k, write'[w].rows)
  BY <1>2 DEF SettledWith
<1> QED
  BY <1>1, <1>3, <1>4 DEF SettledWith, Remaining, DistinctTargets

(* While the daemon is alone, the rows of a settled job are those of its   *)
(* outcomes that have been written.                                        *)
LEMMA RowsStep ==
  ASSUME TypeOK, WriteInv, PhaseInv, RunInv, BornInv, PlanInv, SoleInv,
         OpenInv, FreshInv, RowsInv, Next
  PROVE  RowsInv'
<1> SUFFICES ASSUME NEW c \in Calls, Settled(c)'
             PROVE  \E S \in Seq(Outcome) : \E k \in Nat :
                      SettledWith(c, S, k)'
  BY DEF RowsInv
<1>1. ASSUME NEW w \in Writers, UpdateJob(w), write[w].job = c
      PROVE  \E S \in Seq(Outcome) : \E k \in Nat : SettledWith(c, S, k)'
  <2>a. \E T, status : T = write[w].rows /\ status = write[w].status
    OBVIOUS
  <2>b. PICK T, status : T = write[w].rows /\ status = write[w].status
    BY <2>a
  <2>1. T \in Seq(Outcome) /\ SettledWith(c, T, 0)'
    BY <1>1, <2>b, RowsAfterUpdate
  <2> QED BY <2>1
<1>2. ASSUME \A w \in Writers : write[w].job = c => ~UpdateJob(w)
      PROVE  \E S \in Seq(Outcome) : \E k \in Nat : SettledWith(c, S, k)'
  <2>1. Recorded(c) /\ jobs'[c] = jobs[c]
    <3>1. Recorded(c)'
      BY DEF Settled, Recorded, FinalStatus
    <3>2. Recorded(c)
      <4>1. CASE InsertJob(c) /\ ~KeyTaken(c)
        BY <4>1, InsertRows DEF Publishing, Settled, FinalStatus
      <4>2. CASE InsertJob(c) /\ KeyTaken(c)
        BY <3>1, <4>2 DEF InsertJob, Recorded
      <4> QED BY <3>1, <4>1, <4>2, RecordedComes
    <3> QED BY <1>2, <3>2, SettledRowStays
  <2>2. PICK S \in Seq(Outcome), k \in Nat : SettledWith(c, S, k)
    <3>1. Settled(c)
      BY <2>1 DEF Settled
    <3> QED BY <3>1 DEF RowsInv
  <2>3. Justified(c, jobs[c].status, S)'
    <3>1. PICK status : status = jobs[c].status
      OBVIOUS
    <3>2. Justified(c, status, S) /\ jobs'[c].status = status
      BY <2>1, <2>2, <3>1 DEF SettledWith
    <3>3. Justified(c, status, S)'
      BY <2>1, <3>2, RecordedFrame, JustifiedStays
    <3> QED BY <3>2, <3>3 DEF Justified
  <2>4. ASSUME NEW w \in Writers, DeleteResults(w), write[w].job = c
        PROVE  \E T \in Seq(Outcome) : \E l \in Nat : SettledWith(c, T, l)'
    <3>1. SettledWith(c, S, 0)'
      BY <2>1, <2>2, <2>3, <2>4, RowsAfterDelete
    <3> QED BY <3>1
  <2>5. ASSUME NEW w \in Writers, InsertResult(w), write[w].job = c
        PROVE  \E T \in Seq(Outcome) : \E l \in Nat : SettledWith(c, T, l)'
    <3>1. SettledWith(c, S, k + 1)'
      BY <2>1, <2>2, <2>3, <2>5, RowsAfterInsert
    <3>2. k + 1 \in Nat
      OBVIOUS
    <3> DEFINE l == k + 1
    <3> HIDE DEF l
    <3> QED BY <3>1, <3>2 DEF l
  <2>6. ASSUME \A w \in Writers : write[w].job = c =>
                 ~DeleteResults(w) /\ ~InsertResult(w)
        PROVE  \E T \in Seq(Outcome) : \E l \in Nat : SettledWith(c, T, l)'
    <3>1. SettledWith(c, S, k)'
      BY <1>2, <2>1, <2>2, <2>3, <2>6, RowsLeftAlone
    <3> QED BY <3>1
  <2> QED BY <2>4, <2>5, <2>6
<1> QED BY <1>1, <1>2

(* The rows of a settled job nobody is at work on, if its call is sound.   *)
LEMMA WholeWhenQuiet ==
  ASSUME TypeOK, RowsInv, NEW c \in Calls,
         Settled(c), ~Busy(c), Sound(c), DistinctTargets(snapshots[c])
  PROVE  /\ jobs[c].count = Cardinality(results[c])
         /\ jobs[c].status # "Rejected" =>
              /\ {o.target : o \in results[c]} =
                   {snapshots[c][i].target : i \in DOMAIN snapshots[c]}
              /\ jobs[c].status = delivery_status(PolicyFor(c), jobs[c].count,
                                                  Listing(results[c]))
         /\ jobs[c].status = "Rejected" /\ QuorumFits(c) => results[c] = {}
<1>1. PICK S \in Seq(Outcome), k \in Nat : SettledWith(c, S, k)
  BY DEF RowsInv
<1>2. /\ k = Len(S) /\ Len(S) = jobs[c].count
      /\ Justified(c, jobs[c].status, S) /\ DistinctTargets(S)
  BY <1>1 DEF SettledWith, Justified
<1>3. results[c] = {S[i] : i \in DOMAIN S}
  <2>1. DOMAIN S = 1..k
    BY <1>2
  <2> QED BY <1>1, <1>2, <2>1 DEF SettledWith
<1>4. /\ IsFiniteSet(results[c]) /\ Cardinality(results[c]) = Len(S)
      /\ OneEach(S, results[c]) /\ DistinctRows(results[c])
      /\ {o.target : o \in results[c]} = {S[i].target : i \in DOMAIN S}
  BY <1>2, <1>3, RowsListed
<1>5. OneEach(Listing(results[c]), results[c])
  BY <1>4, ListingLists
<1>6. delivery_status(PolicyFor(c), Len(S), S) =
        delivery_status(PolicyFor(c), Len(S), Listing(results[c]))
  BY <1>4, <1>5, SameStatus
<1>7. jobs[c].status = "Rejected" /\ QuorumFits(c) => results[c] = {}
  <2>1. S = <<>> => DOMAIN S = {}
    OBVIOUS
  <2> QED BY <1>2, <1>3, <2>1 DEF Justified
<1> QED BY <1>2, <1>4, <1>6, <1>7 DEF Justified

(* Egress never meets a malformed job that a call of this run of the       *)
(* daemon has completed, while only the daemon writes: however the calls,  *)
(* their statements, failures, disconnects, crashes and recoveries         *)
(* interleave, a settled job has as many outcome rows as it counts, one    *)
(* for every target of the attempt, and the status those rows justify in   *)
(* whatever order they are read.                                           *)
THEOREM WholeJobs == Spec => []SettledJobsAreWhole
<1> DEFINE Inv == /\ IInv /\ RunInv /\ RefusalInv
                  /\ BornInv /\ PlanInv /\ AloneInv
<1>1. Init => Inv
  <2> SUFFICES ASSUME Init PROVE Inv
    OBVIOUS
  <2>1. /\ \A c \in Calls : /\ pc[c] \notin Active /\ pc[c] \notin Attempting
                            /\ ~Recorded(c) /\ ~Settled(c)
                            /\ results[c] = {} /\ born[c] = 0 /\ epoch = 0
        /\ RefusalInv
    BY DEF Init, Active, DbSteps, Awaiting, Attempting, Recorded, Settled,
           FinalStatus, NoRow, NoRes, RefusalInv, NothingAccepted
  <2>2. /\ \A p \in Procs : store[p].state = "closed" /\ store[p].todo = {}
        /\ \A w \in Writers : write[w].stage = "idle"
    BY DEF Init, NoWrite
  <2>3. "daemon" \in Procs /\ "cli" \in Procs /\ Procs \subseteq Writers
    BY DEF Procs, Writers
  <2>4. SoleInv /\ OpenInv
    BY <2>1, <2>2, <2>3 DEF Init, SoleInv, OpenInv
  <2>5. FreshInv /\ RowsInv
    BY <2>1, <2>2 DEF FreshInv, RowsInv
  <2>6. RunInv /\ BornInv /\ PlanInv
    BY <2>1, <2>2, <2>3 DEF RunInv, BornInv, PlanInv
  <2> QED BY <2>1, <2>4, <2>5, <2>6, InitIInv DEF AloneInv
<1>2. Inv /\ [Next]_vars => Inv'
  <2> SUFFICES ASSUME Inv, [Next]_vars PROVE Inv'
    OBVIOUS
  <2>1. CASE Next
    <3>1. IInv' /\ RunInv' /\ RefusalInv' /\ BornInv' /\ PlanInv'
      BY <2>1, StepIInv, RunStep, RefusalStep, BornStep, PlanStep DEF IInv
    <3>2. AloneInv'
      <4> SUFFICES ASSUME cliRuns' = 0
                   PROVE  SoleInv' /\ OpenInv' /\ FreshInv' /\ RowsInv'
        BY DEF AloneInv
      <4>1. cliRuns = 0
        <5>1. cliRuns \in Nat
          BY DEF IInv, TypeOK
        <5> QED BY <2>1, <5>1, CliRunsCount DEF IInv
      <4>2. SoleInv /\ OpenInv /\ FreshInv /\ RowsInv
        BY <4>1 DEF AloneInv
      <4> QED BY <2>1, <4>2, SoleStep, OpenStep, FreshStep, RowsStep DEF IInv
    <3> QED BY <3>1, <3>2
  <2>2. CASE UNCHANGED vars
    <3>1. IInv'
      BY StepIInv
    <3>2. RunInv' /\ RefusalInv'
      BY <2>2 DEF vars, RunInv, RefusalInv, NothingAccepted
    <3>3. BornInv'
      BY <2>2 DEF vars, BornInv, Recorded
    <3>4. PlanInv'
      <4>1. \A c, status, S :
              Justified(c, status, S)' <=> Justified(c, status, S)
        BY <2>2 DEF vars, Justified, PolicyFor, DistinctTargets, QuorumFits
      <4> SUFFICES ASSUME NEW w \in Writers, NEW c, c = write[w].job,
                          NEW status, status = write[w].status,
                          NEW S, S = write[w].rows, write'[w].stage = "update"
                   PROVE  Justified(c, status, S)'
        BY <2>2 DEF vars, PlanInv
      <4>2. write[w].stage = "update"
        BY <2>2 DEF vars
      <4>3. Justified(write[w].job, write[w].status, write[w].rows)
        BY <4>2 DEF PlanInv
      <4> QED BY <4>1, <4>3
    <3>5. AloneInv'
      <4>1. SoleInv' <=> SoleInv
        BY <2>2 DEF vars, SoleInv
      <4>2. OpenInv' <=> OpenInv
        BY <2>2 DEF vars, OpenInv, Publishing
      <4>3. FreshInv' <=> FreshInv
        BY <2>2 DEF vars, FreshInv, Settled
      <4>4. \A c, S, k : SettledWith(c, S, k)' <=> SettledWith(c, S, k)
        BY <2>2 DEF vars, SettledWith, Justified, PolicyFor, DistinctTargets,
                    QuorumFits, Busy, Sound, Remaining
      <4>5. RowsInv' <=> RowsInv
        BY <2>2, <4>4 DEF vars, RowsInv, Settled
      <4> QED BY <2>2, <4>1, <4>2, <4>3, <4>5 DEF vars, AloneInv
    <3> QED BY <3>1, <3>2, <3>3, <3>4, <3>5
  <2> QED BY <2>1, <2>2
<1>3. Inv => SettledJobsAreWhole
  <2> SUFFICES ASSUME Inv, NEW c \in Calls,
                      Settled(c), Quiet(c), DistinctTargets(snapshots[c]),
                      born[c] = epoch, pc[c] \notin {"lost", "failed"},
                      cliRuns = 0
               PROVE  /\ jobs[c].count = Cardinality(results[c])
                      /\ jobs[c].status # "Rejected" =>
                           /\ {o.target : o \in results[c]} =
                                {snapshots[c][i].target :
                                   i \in DOMAIN snapshots[c]}
                           /\ jobs[c].status =
                                delivery_status(PolicyFor(c), jobs[c].count,
                                                Listing(results[c]))
    BY DEF SettledJobsAreWhole
  <2>1. TypeOK /\ RowsInv /\ Sound(c) /\ ~Busy(c)
    BY DEF IInv, AloneInv, Sound, Quiet, Busy
  <2> QED BY <2>1, WholeWhenQuiet
<1> QED BY <1>1, <1>2, <1>3, PTL DEF Spec
=============================================================================
