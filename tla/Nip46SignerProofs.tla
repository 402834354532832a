-------------------------- MODULE Nip46SignerProofs --------------------------
(***************************************************************************)
(* Proofs about Nip46Signer, for any clients, requests, secrets and RPC    *)
(* calls: a secret admits one session, the keys are used through the gate  *)
(* only, and no delivery of a request is served twice.                     *)
(***************************************************************************)
EXTENDS Nip46Signer, FiniteSetTheorems, TLAPS

-----------------------------------------------------------------------------
(* THE INDUCTIVE INVARIANT                                                 *)

(* A handler has the request or the secret that its next step works with.  *)
TaskInv ==
  \A h \in Handlers :
    /\ task[h].at \in {"read", "park"} => task[h].request \in Requests
    /\ task[h].at = "claim" => task[h].secret \in Secrets

(* A secret that has admitted a session, or is about to, is a used one,    *)
(* and only the handler that claimed it is on its way to insert.           *)
Inserting(h, s) == task[h].at = "insert" /\ task[h].secret = s

SecretInv ==
  \A s \in Secrets :
    /\ admitted[s] <= 1
    /\ admitted[s] # 0 => s \in used
    /\ \A h \in Handlers :
         Inserting(h, s) =>
           /\ s \in used /\ admitted[s] = 0
           /\ \A k \in Handlers : Inserting(k, s) => k = h

(* A session parks requests of its own client only.                        *)
PendingInv ==
  \A c \in Clients :
    sessions[c].pending # None => ClientOf[sessions[c].pending] = c

IInv == TypeOK /\ TaskInv /\ SecretInv /\ PendingInv /\ ServedOncePerDelivery

(* What every store method but set_pending_request does to the parked      *)
(* requests.                                                               *)
Cleared ==
  \A c \in Clients : sessions'[c].pending \in {sessions[c].pending, None}

-----------------------------------------------------------------------------
(* COUNTING HANDLERS                                                       *)

(* There are finitely many handlers, so they can be counted.               *)
LEMMA Count ==
  ASSUME NEW A, A \subseteq Handlers
  PROVE  IsFiniteSet(A) /\ Cardinality(A) \in Nat
<1>1. IsFiniteSet(Rpcs \cup {"listener"})
  BY SignerAssumption, FS_AddElement
<1>2. Handlers = Rpcs \cup {"listener"}
  BY DEF Handlers
<1>3. IsFiniteSet(A)
  BY <1>1, <1>2, FS_Subset
<1> QED BY <1>3, FS_CardinalityType

(* A handler that gives its request up does not raise the count.           *)
LEMMA CountFewer ==
  ASSUME NEW A, NEW B, A \subseteq B, B \subseteq Handlers
  PROVE  Cardinality(A) <= Cardinality(B)
BY Count, FS_Subset

(* A handler that takes a request up raises the count by at most one.      *)
LEMMA CountOneMore ==
  ASSUME NEW A, NEW B, NEW h \in Handlers, B \subseteq Handlers,
         A \subseteq B \cup {h}
  PROVE  Cardinality(A) <= Cardinality(B) + 1
<1>1. IsFiniteSet(B) /\ Cardinality(B) \in Nat
  BY Count
<1>2. /\ IsFiniteSet(B \cup {h})
      /\ Cardinality(B \cup {h}) <= Cardinality(B) + 1
  BY <1>1, FS_AddElement
<1>3. Cardinality(A) <= Cardinality(B \cup {h})
  BY <1>2, FS_Subset
<1>4. Cardinality(A) \in Nat /\ Cardinality(B \cup {h}) \in Nat
  BY <1>2, Count, FS_CardinalityType
<1> QED BY <1>1, <1>2, <1>3, <1>4

(* A handler that ends with a request lowers the count.                    *)
LEMMA CountOneFewer ==
  ASSUME NEW A, NEW B, NEW h \in B, B \subseteq Handlers,
         A \subseteq B \ {h}
  PROVE  Cardinality(A) + 1 <= Cardinality(B)
<1>1. IsFiniteSet(B) /\ Cardinality(B) \in Nat
  BY Count
<1>2. /\ IsFiniteSet(B \ {h})
      /\ Cardinality(B \ {h}) = Cardinality(B) - 1
  BY <1>1, FS_RemoveElement
<1>3. Cardinality(A) <= Cardinality(B \ {h})
  BY <1>2, FS_Subset
<1>4. Cardinality(A) \in Nat
  BY Count
<1> QED BY <1>1, <1>2, <1>3, <1>4

(* A session that parks nothing new.                                       *)
LEMMA ParkedFewer ==
  ASSUME NEW r \in Requests, Cleared
  PROVE  Parked(r)' <= Parked(r)
BY SignerAssumption DEF Parked, Cleared

(* What most steps do to a request: no handler takes it up, it is not      *)
(* parked anew and not served.                                             *)
LEMMA NothingCopied ==
  ASSUME TypeOK, TypeOK', ServedOncePerDelivery,
         served' = served, delivered' = delivered,
         \A r \in Requests : KindOf[r] = "use" =>
           Handling(r)' \subseteq Handling(r),
         Cleared
  PROVE  ServedOncePerDelivery'
<1> SUFFICES ASSUME NEW r \in Requests, KindOf[r] = "use"
             PROVE  (served[r] + Cardinality(Handling(r)) + Parked(r)
                       <= delivered[r])'
  BY DEF ServedOncePerDelivery
<1>1. Handling(r) \subseteq Handlers /\ Handling(r)' \subseteq Handlers
  BY DEF Handling
<1>2. Cardinality(Handling(r)') <= Cardinality(Handling(r))
  BY <1>1, CountFewer
<1>3. Cardinality(Handling(r)) \in Nat /\ Cardinality(Handling(r)') \in Nat
  BY <1>1, Count
<1>4. Parked(r) \in Nat /\ Parked(r)' \in Nat /\ Parked(r)' <= Parked(r)
  BY ParkedFewer DEF Parked
<1>5. served[r] \in Nat /\ delivered[r] \in Nat
  BY DEF TypeOK
<1>6. served[r] + Cardinality(Handling(r)) + Parked(r) <= delivered[r]
  BY DEF ServedOncePerDelivery
<1>7. served[r] + Cardinality(Handling(r)') + Parked(r)' <= delivered[r]
  BY <1>2, <1>3, <1>4, <1>5, <1>6
<1> QED BY <1>7



-----------------------------------------------------------------------------
(* TYPES                                                                   *)

(* Where handle_request starts: a request to be served is read, a secret   *)
(* is claimed first, and only a connect without one goes straight to       *)
(* insert.                                                                 *)
LEMMA StartOfType ==
  ASSUME NEW r \in Requests
  PROVE  /\ StartOf(r) \in Task
         /\ StartOf(r).at # "park"
         /\ StartOf(r).at = "read" => StartOf(r).request = r
         /\ StartOf(r).at = "claim" => StartOf(r).secret \in Secrets
         /\ StartOf(r).at = "insert" => StartOf(r).secret = None
         /\ StartOf(r).request \in {r, None}
BY SignerAssumption DEF StartOf, Task, None

(* The session and the task of nobody have their types.                    *)
LEMMA EmptyTypes == NoSession \in Session /\ Idle \in Task
BY DEF NoSession, Session, Idle, Task

(* Types, and what a handler needs for its next step, hold at the start.   *)
LEMMA InitTypes == Init => TypeOK /\ TaskInv
<1> SUFFICES ASSUME Init PROVE TypeOK /\ TaskInv
  OBVIOUS
<1>1. TypeOK
  BY EmptyTypes DEF Init, TypeOK
<1>2. TaskInv
  BY DEF Init, TaskInv, Idle
<1> QED BY <1>1, <1>2

(* Every step keeps the types and what handlers need.                      *)
LEMMA TypeStep ==
  ASSUME TypeOK, TaskInv, [Next]_vars
  PROVE  TypeOK' /\ TaskInv'
<1>0. "listener" \in Handlers /\ Rpcs \subseteq Handlers
  BY DEF Handlers
<1> USE EmptyTypes, SignerAssumption, <1>0
<1>1. ASSUME NEW r \in Requests, Receive(r)
      PROVE  TypeOK' /\ TaskInv'
  <2>3. TypeOK'
    BY <1>1, StartOfType DEF Receive, TypeOK, TaskInv, Session, Task
  <2>4. TaskInv'
    BY <1>1, StartOfType DEF Receive, TypeOK, TaskInv, Task, Idle
  <2> QED BY <2>3, <2>4
<1>2. ASSUME NEW h \in Handlers, ClaimSecret(h)
      PROVE  TypeOK' /\ TaskInv'
  <2>1. task[h].secret \in Secrets
    BY <1>2 DEF ClaimSecret, TaskInv
  <2>2. [task[h] EXCEPT !.at = "insert"] \in Task
    BY DEF TypeOK, Task
  <2>3. TypeOK'
    BY <1>2, <2>1, <2>2 DEF ClaimSecret, Finish, TypeOK
  <2>4. TaskInv'
    BY <1>2 DEF ClaimSecret, SecretTaken, Finish, TypeOK, TaskInv, Task, Idle
  <2> QED BY <2>3, <2>4
<1>3. ASSUME NEW h \in Handlers, InsertSession(h)
      PROVE  TypeOK' /\ TaskInv'
  <2>3. TypeOK'
    BY <1>3 DEF InsertSession, Finish, TypeOK, TaskInv, Session, Task
  <2>4. TaskInv'
    BY <1>3 DEF InsertSession, Finish, TypeOK, TaskInv, Task, Idle
  <2> QED BY <2>3, <2>4
<1>4. ASSUME NEW h \in Handlers, ReadSession(h)
      PROVE  TypeOK' /\ TaskInv'
  <2>1. [task[h] EXCEPT !.at = "park"] \in Task
    BY DEF TypeOK, Task
  <2>2. sessions' \in [Clients -> Session] /\ served' \in [Requests -> Nat]
    BY <1>4 DEF ReadSession, Remove, TypeOK
  <2>3. TypeOK'
    BY <1>4, <2>1, <2>2 DEF ReadSession, Finish, TypeOK
  <2>4. TaskInv'
    BY <1>4 DEF ReadSession, Remove, Finish, TypeOK, TaskInv, Task, Idle
  <2> QED BY <2>3, <2>4
<1>5. ASSUME NEW h \in Handlers, ParkRequest(h)
      PROVE  TypeOK' /\ TaskInv'
  <2>1. task[h].request \in Requests
    BY <1>5 DEF ParkRequest, TaskInv
  <2>2. [sessions[ClientOf[task[h].request]]
           EXCEPT !.pending = task[h].request] \in Session
    BY <2>1 DEF TypeOK, Session
  <2>3. TypeOK'
    BY <1>5, <2>1, <2>2 DEF ParkRequest, Remove, Finish, TypeOK
  <2>4. TaskInv'
    BY <1>5 DEF ParkRequest, Remove, Finish, Live, TypeOK, TaskInv, Task, Idle
  <2> QED BY <2>3, <2>4
<1>6. ASSUME NEW h \in Rpcs, NEW s \in Secrets, ConnectOutbound(h, s)
      PROVE  TypeOK' /\ TaskInv'
  <2>3. TypeOK'
    BY <1>6 DEF ConnectOutbound, TypeOK, TaskInv, Session, Task
  <2>4. TaskInv'
    BY <1>6 DEF ConnectOutbound, TypeOK, TaskInv, Task, Idle
  <2> QED BY <2>3, <2>4
<1>7. ASSUME NEW h \in Rpcs, NEW c \in Clients, Authorize(h, c)
      PROVE  TypeOK' /\ TaskInv'
  <2>0. sessions[c].pending \in Requests \cup {None}
    BY DEF TypeOK, Session
  <2>1. [sessions[c] EXCEPT !.authorized = TRUE, !.pending = None] \in Session
    BY DEF TypeOK, Session
  <2>2. sessions' \in [Clients -> Session]
    <3>1. CASE Live(c)
      <4>1. sessions' = [sessions EXCEPT ![c] =
              [sessions[c] EXCEPT !.authorized = TRUE, !.pending = None]]
        BY <1>7, <3>1 DEF Authorize, TypeOK, Session
      <4> QED BY <2>1, <4>1 DEF TypeOK
    <3>2. CASE ~Live(c)
      BY <1>7, <3>2 DEF Authorize, Remove, TypeOK
    <3> QED BY <3>1, <3>2
  <2>3. TypeOK'
    <3>1. task' \in [Handlers -> Task]
      BY <1>7, <2>0, StartOfType DEF Authorize, TypeOK
    <3> QED BY <1>7, <2>2, <3>1 DEF Authorize, OperatorCall, TypeOK
  <2>4. TaskInv'
    BY <1>7, <2>0, StartOfType DEF Authorize, OperatorCall, Remove, Live,
      TypeOK, TaskInv, Task, Idle
  <2> QED BY <2>3, <2>4
<1>8. ASSUME NEW h \in Rpcs, DropRpc(h)
      PROVE  TypeOK' /\ TaskInv'
  <2>3. TypeOK'
    BY <1>8 DEF DropRpc, Finish, TypeOK, TaskInv, Session, Task
  <2>4. TaskInv'
    BY <1>8 DEF DropRpc, Finish, TypeOK, TaskInv, Task, Idle
  <2> QED BY <2>3, <2>4
<1>9. ASSUME NEW c \in Clients, RequireAuth(c)
      PROVE  TypeOK' /\ TaskInv'
  <2>1. [sessions[c] EXCEPT !.required = TRUE, !.authorized = FALSE,
                              !.pending = None] \in Session
    BY DEF TypeOK, Session
  <2>2. sessions' \in [Clients -> Session]
    <3>1. CASE Live(c)
      <4>1. sessions' = [sessions EXCEPT ![c] =
              [sessions[c] EXCEPT !.required = TRUE, !.authorized = FALSE,
                                  !.pending = None]]
        BY <1>9, <3>1 DEF RequireAuth, TypeOK, Session
      <4> QED BY <2>1, <4>1 DEF TypeOK
    <3>2. CASE ~Live(c)
      BY <1>9, <3>2 DEF RequireAuth, Remove, TypeOK
    <3> QED BY <3>1, <3>2
  <2>3. TypeOK'
    BY <1>9, <2>2 DEF RequireAuth, OperatorCall, TypeOK
  <2>4. TaskInv'
    BY <1>9 DEF RequireAuth, OperatorCall, Remove, Live, TypeOK, TaskInv, Task,
      Idle
  <2> QED BY <2>3, <2>4
<1>10. ASSUME NEW c \in Clients, CloseSession(c)
      PROVE  TypeOK' /\ TaskInv'
  <2>3. TypeOK'
    BY <1>10 DEF CloseSession, OperatorCall, Remove, TypeOK, TaskInv, Session,
      Task
  <2>4. TaskInv'
    BY <1>10 DEF CloseSession, OperatorCall, Remove, TypeOK, TaskInv, Task,
      Idle
  <2> QED BY <2>3, <2>4
<1>11. ASSUME NEW c \in Clients, SessionStatus(c)
      PROVE  TypeOK' /\ TaskInv'
  <2>3. TypeOK'
    BY <1>11 DEF SessionStatus, Remove, TypeOK, TaskInv, Session, Task
  <2>4. TaskInv'
    BY <1>11 DEF SessionStatus, Remove, TypeOK, TaskInv, Task, Idle
  <2> QED BY <2>3, <2>4
<1>12. ASSUME NEW c \in Clients, Expire(c)
      PROVE  TypeOK' /\ TaskInv'
  <2>3. TypeOK'
    BY <1>12 DEF Expire, Live, TypeOK, TaskInv, Session, Task
  <2>4. TaskInv'
    BY <1>12 DEF Expire, Live, TypeOK, TaskInv, Task, Idle
  <2> QED BY <2>3, <2>4
<1>13. ASSUME ListSessions
      PROVE  TypeOK' /\ TaskInv'
  <2>3. TypeOK'
    BY <1>13 DEF ListSessions, Live, TypeOK, TaskInv, Session, Task
  <2>4. TaskInv'
    BY <1>13 DEF ListSessions, Live, TypeOK, TaskInv, Task, Idle
  <2> QED BY <2>3, <2>4
<1>14. ASSUME ListenerStops
      PROVE  TypeOK' /\ TaskInv'
  <2>1. [task["listener"] EXCEPT !.at = "stopped"] \in Task
    BY DEF TypeOK, Task
  <2>3. TypeOK'
    BY <1>14, <2>1 DEF ListenerStops, TypeOK
  <2>4. TaskInv'
    BY <1>14 DEF ListenerStops, TypeOK, TaskInv, Task, Idle
  <2> QED BY <2>3, <2>4
<1>15. ASSUME Restart
      PROVE  TypeOK' /\ TaskInv'
  BY <1>15 DEF Restart, TypeOK, TaskInv, Idle
<1>16. CASE UNCHANGED vars
  BY <1>16 DEF vars, TypeOK, TaskInv
<1> QED BY <1>1, <1>2, <1>3, <1>4, <1>5, <1>6, <1>7, <1>8, <1>9, <1>10, <1>11,
    <1>12, <1>13, <1>14, <1>15, <1>16
          DEF Next, HandlerStep

-----------------------------------------------------------------------------
(* SECRETS                                                                 *)

(* Every step keeps a secret with the one handler that claimed it.         *)
LEMMA SecretStep ==
  ASSUME TypeOK, TaskInv, SecretInv, [Next]_vars
  PROVE  SecretInv'
<1>0. "listener" \in Handlers /\ Rpcs \subseteq Handlers
  BY DEF Handlers
<1> USE SignerAssumption, <1>0
<1>1. ASSUME NEW r \in Requests, Receive(r)
      PROVE  SecretInv'
  BY <1>1, StartOfType DEF Receive, TypeOK, Task, SecretInv, Inserting
<1>2. ASSUME NEW h \in Handlers, ClaimSecret(h)
      PROVE  SecretInv'
  <2>1. task[h].secret \in Secrets
    BY <1>2 DEF ClaimSecret, TaskInv
  <2>2. CASE SecretTaken(task[h].secret)
    BY <1>2, <2>2 DEF ClaimSecret, Finish, Idle, TypeOK, SecretInv, Inserting
  <2>3. CASE ~SecretTaken(task[h].secret)
    <3>1. /\ used' = used \cup {task[h].secret} /\ admitted' = admitted
          /\ task[h].secret \notin used
      BY <1>2, <2>3 DEF ClaimSecret, SecretTaken
    <3>2. \A k \in Handlers, s \in Secrets : Inserting(k, s)' =>
            IF k = h THEN s = task[h].secret ELSE Inserting(k, s)
      BY <1>2, <2>3 DEF ClaimSecret, TypeOK, Task, Inserting
    <3> QED BY <2>1, <3>1, <3>2 DEF SecretInv
  <2> QED BY <2>2, <2>3
<1>3. ASSUME NEW h \in Handlers, InsertSession(h)
      PROVE  SecretInv'
  <2>1. CASE task[h].secret = None
    BY <1>3, <2>1
    DEF InsertSession, Finish, Idle, TypeOK, SecretInv, Inserting
  <2>2. CASE task[h].secret \in Secrets
    BY <1>3, <2>2
    DEF InsertSession, Finish, Idle, TypeOK, SecretInv, Inserting
  <2> QED BY <2>1, <2>2 DEF TypeOK, Task
<1>4. ASSUME NEW h \in Handlers, ReadSession(h)
      PROVE  SecretInv'
  BY <1>4 DEF ReadSession, Remove, Finish, Idle, TypeOK, Task, SecretInv,
    Inserting
<1>5. ASSUME NEW h \in Handlers, ParkRequest(h)
      PROVE  SecretInv'
  BY <1>5 DEF ParkRequest, Remove, Finish, Live, Idle, TypeOK, Task, SecretInv,
    Inserting
<1>6. ASSUME NEW h \in Rpcs, NEW s \in Secrets, ConnectOutbound(h, s)
      PROVE  SecretInv'
  BY <1>6 DEF ConnectOutbound, Idle, TypeOK, Task, SecretInv, Inserting
<1>7. ASSUME NEW h \in Rpcs, NEW c \in Clients, Authorize(h, c)
      PROVE  SecretInv'
  <2>1. sessions[c].pending \in Requests \cup {None}
    BY DEF TypeOK, Session
  <2>2. \A k \in Handlers, s \in Secrets :
          Inserting(k, s)' => Inserting(k, s)
    BY <1>7, <2>1, StartOfType DEF Authorize, TypeOK, Inserting
  <2> QED BY <1>7, <2>2 DEF Authorize, SecretInv
<1>8. ASSUME NEW h \in Rpcs, DropRpc(h)
      PROVE  SecretInv'
  BY <1>8 DEF DropRpc, Finish, Idle, TypeOK, Task, SecretInv, Inserting
<1>9. ASSUME NEW c \in Clients, RequireAuth(c)
      PROVE  SecretInv'
  BY <1>9 DEF RequireAuth, OperatorCall, Remove, Live, Idle, TypeOK, Task,
    SecretInv, Inserting
<1>10. ASSUME NEW c \in Clients, CloseSession(c)
      PROVE  SecretInv'
  BY <1>10 DEF CloseSession, OperatorCall, Remove, Idle, TypeOK, Task,
    SecretInv, Inserting
<1>11. ASSUME NEW c \in Clients, SessionStatus(c)
      PROVE  SecretInv'
  BY <1>11 DEF SessionStatus, Remove, Idle, TypeOK, Task, SecretInv, Inserting
<1>12. ASSUME NEW c \in Clients, Expire(c)
      PROVE  SecretInv'
  BY <1>12 DEF Expire, Live, Idle, TypeOK, Task, SecretInv, Inserting
<1>13. ASSUME ListSessions
      PROVE  SecretInv'
  BY <1>13 DEF ListSessions, Live, Idle, TypeOK, Task, SecretInv, Inserting
<1>14. ASSUME ListenerStops
      PROVE  SecretInv'
  BY <1>14 DEF ListenerStops, Idle, TypeOK, Task, SecretInv, Inserting
<1>15. ASSUME Restart
      PROVE  SecretInv'
  BY <1>15 DEF Restart, Idle, TypeOK, Task, SecretInv, Inserting
<1>16. CASE UNCHANGED vars
  BY <1>16 DEF vars, SecretInv, Inserting
<1> QED BY <1>1, <1>2, <1>3, <1>4, <1>5, <1>6, <1>7, <1>8, <1>9, <1>10, <1>11,
    <1>12, <1>13, <1>14, <1>15, <1>16
          DEF Next, HandlerStep

-----------------------------------------------------------------------------
(* PARKED REQUESTS                                                         *)

(* Only set_pending_request parks a request.                               *)
LEMMA OnlyParkParks ==
  ASSUME TypeOK, [Next]_vars
  PROVE  Cleared \/ \E h \in Handlers : ParkRequest(h)
<1> SUFFICES ASSUME ~\E h \in Handlers : ParkRequest(h)
             PROVE  Cleared
  OBVIOUS
<1>1. ASSUME NEW r \in Requests, Receive(r)
      PROVE  Cleared
  BY <1>1 DEF Receive, NoSession, Cleared, TypeOK
<1>2. ASSUME NEW h \in Handlers, ClaimSecret(h)
      PROVE  Cleared
  BY <1>2 DEF ClaimSecret, SecretTaken, Finish, NoSession, Cleared, TypeOK
<1>3. ASSUME NEW h \in Handlers, InsertSession(h)
      PROVE  Cleared
  BY <1>3 DEF InsertSession, Finish, NoSession, Cleared, TypeOK
<1>4. ASSUME NEW h \in Handlers, ReadSession(h)
      PROVE  Cleared
  BY <1>4 DEF ReadSession, Remove, Finish, NoSession, Cleared, TypeOK
<1>5. ASSUME NEW h \in Rpcs, NEW s \in Secrets, ConnectOutbound(h, s)
      PROVE  Cleared
  BY <1>5 DEF ConnectOutbound, NoSession, Cleared, TypeOK
<1>6. ASSUME NEW h \in Rpcs, NEW c \in Clients, Authorize(h, c)
      PROVE  Cleared
  <2>1. CASE Live(c)
    BY <1>6, <2>1 DEF Authorize, Cleared, TypeOK, Session
  <2>2. CASE ~Live(c)
    BY <1>6, <2>2 DEF Authorize, Remove, NoSession, Cleared, TypeOK
  <2> QED BY <2>1, <2>2
<1>7. ASSUME NEW h \in Rpcs, DropRpc(h)
      PROVE  Cleared
  BY <1>7 DEF DropRpc, Finish, NoSession, Cleared, TypeOK
<1>8. ASSUME NEW c \in Clients, RequireAuth(c)
      PROVE  Cleared
  <2>1. CASE Live(c)
    BY <1>8, <2>1 DEF RequireAuth, Cleared, TypeOK, Session
  <2>2. CASE ~Live(c)
    BY <1>8, <2>2 DEF RequireAuth, Remove, NoSession, Cleared, TypeOK
  <2> QED BY <2>1, <2>2
<1>9. ASSUME NEW c \in Clients, CloseSession(c)
      PROVE  Cleared
  BY <1>9 DEF CloseSession, OperatorCall, Remove, NoSession, Cleared, TypeOK
<1>10. ASSUME NEW c \in Clients, SessionStatus(c)
      PROVE  Cleared
  BY <1>10 DEF SessionStatus, Remove, NoSession, Cleared, TypeOK
<1>11. ASSUME NEW c \in Clients, Expire(c)
      PROVE  Cleared
  BY <1>11 DEF Expire, Live, NoSession, Cleared, TypeOK
<1>12. ASSUME ListSessions
      PROVE  Cleared
  BY <1>12 DEF ListSessions, Live, NoSession, Cleared, TypeOK
<1>13. ASSUME ListenerStops
      PROVE  Cleared
  BY <1>13 DEF ListenerStops, NoSession, Cleared, TypeOK
<1>14. ASSUME Restart
      PROVE  Cleared
  BY <1>14 DEF Restart, NoSession, Cleared
<1>15. CASE UNCHANGED vars
  BY <1>15 DEF vars, Cleared
<1> QED BY <1>1, <1>2, <1>3, <1>4, <1>5, <1>6, <1>7, <1>8, <1>9, <1>10, <1>11,
    <1>12, <1>13, <1>14, <1>15
          DEF Next, HandlerStep

(* Every step keeps parked requests with the session of their client.      *)
LEMMA PendingStep ==
  ASSUME TypeOK, TaskInv, PendingInv, [Next]_vars
  PROVE  PendingInv'
<1>1. CASE Cleared
  BY <1>1 DEF Cleared, PendingInv
<1>2. ASSUME NEW h \in Handlers, ParkRequest(h)
      PROVE  PendingInv'
  <2>1. task[h].request \in Requests
    BY <1>2 DEF ParkRequest, TaskInv
  <2>2. \A c \in Clients :
          \/ sessions'[c].pending \in {sessions[c].pending, None}
          \/ /\ sessions'[c].pending = task[h].request
             /\ ClientOf[task[h].request] = c
    <3>1. CASE Live(ClientOf[task[h].request])
      BY <1>2, <2>1, <3>1, SignerAssumption DEF ParkRequest, TypeOK, Session
    <3>2. CASE ~Live(ClientOf[task[h].request])
      BY <1>2, <2>1, <3>2 DEF ParkRequest, Remove, NoSession, TypeOK
    <3> QED BY <3>1, <3>2
  <2> QED BY <2>2 DEF PendingInv
<1> QED BY <1>1, <1>2, OnlyParkParks

-----------------------------------------------------------------------------
(* DELIVERIES                                                              *)

(* Every step moves a delivery between the listener, a session and a call, *)
(* or uses it up.                                                          *)
LEMMA ServedStep ==
  ASSUME TypeOK, TaskInv, TypeOK', PendingInv, ServedOncePerDelivery,
         [Next]_vars
  PROVE  ServedOncePerDelivery'
<1>0. "listener" \in Handlers /\ Rpcs \subseteq Handlers
  BY DEF Handlers
<1> USE SignerAssumption, <1>0
<1>1. ASSUME Cleared, NEW r \in Requests, Receive(r)
      PROVE  ServedOncePerDelivery'
  <2> SUFFICES ASSUME NEW q \in Requests, KindOf[q] = "use"
               PROVE  (served[q] + Cardinality(Handling(q)) + Parked(q)
                      <= delivered[q])'
    BY DEF ServedOncePerDelivery
  <2>1. Handling(q) \subseteq Handlers /\ Handling(q)' \subseteq Handlers
    BY DEF Handling
  <2>2. Cardinality(Handling(q)) \in Nat /\ Cardinality(Handling(q)') \in Nat
    BY <2>1, Count
  <2>3. served[q] \in Nat /\ delivered[q] \in Nat
    BY DEF TypeOK
  <2>4. served[q] + Cardinality(Handling(q)) + Parked(q) <= delivered[q]
    BY DEF ServedOncePerDelivery
  <2>5. Parked(q) \in {0, 1} /\ Parked(q)' \in {0, 1}
    BY DEF Parked
  <2>6. Parked(q)' = Parked(q) /\ served' = served
    BY <1>1 DEF Receive, Parked
  <2>7. CASE q = r
    <3>1. Handling(q)' \subseteq Handling(q) \cup {"listener"}
      BY <1>1 DEF Receive, Handling, TypeOK
    <3>2. Cardinality(Handling(q)') <= Cardinality(Handling(q)) + 1
      BY <2>1, <3>1, CountOneMore
    <3>3. delivered'[q] = delivered[q] + 1
      BY <1>1, <2>7 DEF Receive, TypeOK
    <3> QED BY <2>2, <2>3, <2>4, <2>5, <2>6, <3>2, <3>3
  <2>8. CASE q # r
    <3>1. Handling(q)' \subseteq Handling(q)
      BY <1>1, <2>8, StartOfType DEF Receive, Handling, TypeOK
    <3>2. Cardinality(Handling(q)') <= Cardinality(Handling(q))
      BY <2>1, <3>1, CountFewer
    <3>3. delivered'[q] = delivered[q]
      BY <1>1, <2>8 DEF Receive, TypeOK
    <3> QED BY <2>2, <2>3, <2>4, <2>5, <2>6, <3>2, <3>3
  <2> QED BY <2>7, <2>8
<1>2. ASSUME Cleared, NEW h \in Handlers, ClaimSecret(h)
      PROVE  ServedOncePerDelivery'
  <2>1. served' = served /\ delivered' = delivered
    BY <1>2 DEF ClaimSecret
  <2>2. \A k \in Handlers : task'[k].request \in {task[k].request, None}
    BY <1>2 DEF ClaimSecret, Finish, Idle, TypeOK, Task
  <2>3. \A r \in Requests : Handling(r)' \subseteq Handling(r)
    BY <2>2 DEF Handling
  <2> QED BY <1>2, <2>1, <2>3, NothingCopied
<1>3. ASSUME Cleared, NEW h \in Handlers, InsertSession(h)
      PROVE  ServedOncePerDelivery'
  <2>1. served' = served /\ delivered' = delivered
    BY <1>3 DEF InsertSession
  <2>2. \A r \in Requests : Handling(r)' \subseteq Handling(r)
    BY <1>3 DEF InsertSession, Finish, Idle, Handling, TypeOK
  <2> QED BY <1>3, <2>1, <2>2, NothingCopied
<1>4. ASSUME Cleared, NEW h \in Handlers, ReadSession(h)
      PROVE  ServedOncePerDelivery'
  <2> SUFFICES ASSUME NEW q \in Requests, KindOf[q] = "use"
               PROVE  (served[q] + Cardinality(Handling(q)) + Parked(q)
                      <= delivered[q])'
    BY DEF ServedOncePerDelivery
  <2>1. Handling(q) \subseteq Handlers /\ Handling(q)' \subseteq Handlers
    BY DEF Handling
  <2>2. Cardinality(Handling(q)) \in Nat /\ Cardinality(Handling(q)') \in Nat
    BY <2>1, Count
  <2>3. served[q] \in Nat /\ delivered[q] \in Nat
    BY DEF TypeOK
  <2>4. served[q] + Cardinality(Handling(q)) + Parked(q) <= delivered[q]
    BY DEF ServedOncePerDelivery
  <2>5. Parked(q) \in {0, 1} /\ Parked(q)' \in {0, 1}
    BY DEF Parked
  <2>6. task[h].request \in Requests
    BY <1>4 DEF ReadSession, TaskInv
  <2>7. Parked(q)' <= Parked(q) /\ delivered' = delivered
    BY <1>4, ParkedFewer DEF ReadSession
  <2>8. Handling(q)' \subseteq Handling(q)
    <3>1. \A k \in Handlers : task'[k].request \in {task[k].request, None}
      BY <1>4 DEF ReadSession, Finish, Idle, TypeOK, Task
    <3> QED BY <3>1 DEF Handling
  <2>9. Cardinality(Handling(q)') <= Cardinality(Handling(q))
    BY <2>1, <2>8, CountFewer
  <2>10. CASE served'[q] = served[q]
    BY <2>2, <2>3, <2>4, <2>5, <2>7, <2>9, <2>10
  <2>11. CASE served'[q] # served[q]
    <3>1. /\ q = task[h].request /\ Finish(h)
          /\ served' = [served EXCEPT ![task[h].request] = @ + 1]
      BY <1>4, <2>6, <2>11 DEF ReadSession, TypeOK
    <3>2. served'[q] = served[q] + 1
      BY <3>1 DEF TypeOK
    <3>3. h \in Handling(q) /\ Handling(q)' \subseteq Handling(q) \ {h}
      BY <1>4, <2>8, <3>1 DEF Finish, Idle, Handling, TypeOK
    <3>4. Cardinality(Handling(q)') + 1 <= Cardinality(Handling(q))
      BY <2>1, <3>3, CountOneFewer
    <3> QED BY <2>2, <2>3, <2>4, <2>5, <2>7, <3>2, <3>4
  <2> QED BY <2>10, <2>11
<1>5. ASSUME NEW h \in Handlers, ParkRequest(h)
      PROVE  ServedOncePerDelivery'
  <2> SUFFICES ASSUME NEW q \in Requests, KindOf[q] = "use"
               PROVE  (served[q] + Cardinality(Handling(q)) + Parked(q)
                      <= delivered[q])'
    BY DEF ServedOncePerDelivery
  <2>1. Handling(q) \subseteq Handlers /\ Handling(q)' \subseteq Handlers
    BY DEF Handling
  <2>2. Cardinality(Handling(q)) \in Nat /\ Cardinality(Handling(q)') \in Nat
    BY <2>1, Count
  <2>3. served[q] \in Nat /\ delivered[q] \in Nat
    BY DEF TypeOK
  <2>4. served[q] + Cardinality(Handling(q)) + Parked(q) <= delivered[q]
    BY DEF ServedOncePerDelivery
  <2>5. Parked(q) \in {0, 1} /\ Parked(q)' \in {0, 1}
    BY DEF Parked
  <2>6. task[h].request \in Requests
    BY <1>5 DEF ParkRequest, TaskInv
  <2>7. delivered' = delivered /\ served' = served
    BY <1>5 DEF ParkRequest
  <2>8. Handling(q)' \subseteq Handling(q)
    BY <1>5 DEF ParkRequest, Finish, Idle, Handling, TypeOK
  <2>9. CASE q = task[h].request
    <3>1. h \in Handling(q) /\ Handling(q)' \subseteq Handling(q) \ {h}
      BY <1>5, <2>8, <2>9 DEF ParkRequest, Finish, Idle, Handling, TypeOK
    <3>2. Cardinality(Handling(q)') + 1 <= Cardinality(Handling(q))
      BY <2>1, <3>1, CountOneFewer
    <3> QED BY <2>2, <2>3, <2>4, <2>5, <2>7, <3>2
  <2>10. CASE q # task[h].request
    <3>1. Parked(q)' <= Parked(q)
      <4>1. CASE Live(ClientOf[task[h].request])
        BY <1>5, <2>6, <2>10, <4>1 DEF ParkRequest, Parked, TypeOK, Session
      <4>2. CASE ~Live(ClientOf[task[h].request])
        BY <1>5, <2>6, <4>2 DEF ParkRequest, Remove, NoSession, Parked, TypeOK
      <4> QED BY <4>1, <4>2
    <3>2. Cardinality(Handling(q)') <= Cardinality(Handling(q))
      BY <2>1, <2>8, CountFewer
    <3> QED BY <2>2, <2>3, <2>4, <2>5, <2>7, <3>1, <3>2
  <2> QED BY <2>9, <2>10
<1>6. ASSUME Cleared, NEW h \in Rpcs, NEW s \in Secrets, ConnectOutbound(h, s)
      PROVE  ServedOncePerDelivery'
  <2>1. served' = served /\ delivered' = delivered
    BY <1>6 DEF ConnectOutbound
  <2>2. \A r \in Requests : Handling(r)' \subseteq Handling(r)
    BY <1>6 DEF ConnectOutbound, Handling, TypeOK
  <2> QED BY <1>6, <2>1, <2>2, NothingCopied
<1>7. ASSUME Cleared, NEW h \in Rpcs, NEW c \in Clients, Authorize(h, c)
      PROVE  ServedOncePerDelivery'
  <2> SUFFICES ASSUME NEW q \in Requests, KindOf[q] = "use"
               PROVE  (served[q] + Cardinality(Handling(q)) + Parked(q)
                      <= delivered[q])'
    BY DEF ServedOncePerDelivery
  <2>1. Handling(q) \subseteq Handlers /\ Handling(q)' \subseteq Handlers
    BY DEF Handling
  <2>2. Cardinality(Handling(q)) \in Nat /\ Cardinality(Handling(q)') \in Nat
    BY <2>1, Count
  <2>3. served[q] \in Nat /\ delivered[q] \in Nat
    BY DEF TypeOK
  <2>4. served[q] + Cardinality(Handling(q)) + Parked(q) <= delivered[q]
    BY DEF ServedOncePerDelivery
  <2>5. Parked(q) \in {0, 1} /\ Parked(q)' \in {0, 1}
    BY DEF Parked
  <2>6. delivered' = delivered /\ served' = served
    BY <1>7 DEF Authorize
  <2>7. sessions[c].pending \in Requests \cup {None}
    BY DEF TypeOK, Session
  <2>8. Parked(q)' <= Parked(q)
    BY <1>7, ParkedFewer
  <2>9. CASE Live(c) /\ sessions[c].pending = q
    <3>0. ClientOf[q] = c
      BY <2>9 DEF PendingInv
    <3>1. Parked(q) = 1 /\ Parked(q)' = 0
      BY <1>7, <2>9, <3>0 DEF Authorize, Parked, TypeOK, Session
    <3>2. Handling(q)' \subseteq Handling(q) \cup {h}
      BY <1>7 DEF Authorize, Handling, TypeOK
    <3>3. Cardinality(Handling(q)') <= Cardinality(Handling(q)) + 1
      BY <2>1, <3>2, CountOneMore
    <3> QED BY <2>2, <2>3, <2>4, <2>6, <3>1, <3>3
  <2>10. CASE ~(Live(c) /\ sessions[c].pending = q)
    <3>1. Handling(q)' \subseteq Handling(q)
      BY <1>7, <2>7, <2>10, StartOfType DEF Authorize, Handling, TypeOK
    <3>2. Cardinality(Handling(q)') <= Cardinality(Handling(q))
      BY <2>1, <3>1, CountFewer
    <3> QED BY <2>2, <2>3, <2>4, <2>5, <2>6, <2>8, <3>2
  <2> QED BY <2>9, <2>10
<1>8. ASSUME Cleared, NEW h \in Rpcs, DropRpc(h)
      PROVE  ServedOncePerDelivery'
  <2>1. served' = served /\ delivered' = delivered
    BY <1>8 DEF DropRpc
  <2>2. \A r \in Requests : Handling(r)' \subseteq Handling(r)
    BY <1>8 DEF DropRpc, Finish, Idle, Handling, TypeOK
  <2> QED BY <1>8, <2>1, <2>2, NothingCopied
<1>9. ASSUME Cleared, NEW c \in Clients, RequireAuth(c)
      PROVE  ServedOncePerDelivery'
  <2>1. served' = served /\ delivered' = delivered
    BY <1>9 DEF RequireAuth
  <2>2. \A r \in Requests : Handling(r)' \subseteq Handling(r)
    BY <1>9 DEF RequireAuth, Handling, TypeOK
  <2> QED BY <1>9, <2>1, <2>2, NothingCopied
<1>10. ASSUME Cleared, NEW c \in Clients, CloseSession(c)
      PROVE  ServedOncePerDelivery'
  <2>1. served' = served /\ delivered' = delivered
    BY <1>10 DEF CloseSession
  <2>2. \A r \in Requests : Handling(r)' \subseteq Handling(r)
    BY <1>10 DEF CloseSession, Handling, TypeOK
  <2> QED BY <1>10, <2>1, <2>2, NothingCopied
<1>11. ASSUME Cleared, NEW c \in Clients, SessionStatus(c)
      PROVE  ServedOncePerDelivery'
  <2>1. served' = served /\ delivered' = delivered
    BY <1>11 DEF SessionStatus
  <2>2. \A r \in Requests : Handling(r)' \subseteq Handling(r)
    BY <1>11 DEF SessionStatus, Handling, TypeOK
  <2> QED BY <1>11, <2>1, <2>2, NothingCopied
<1>12. ASSUME Cleared, NEW c \in Clients, Expire(c)
      PROVE  ServedOncePerDelivery'
  <2>1. served' = served /\ delivered' = delivered
    BY <1>12 DEF Expire
  <2>2. \A r \in Requests : Handling(r)' \subseteq Handling(r)
    BY <1>12 DEF Expire, Handling, TypeOK
  <2> QED BY <1>12, <2>1, <2>2, NothingCopied
<1>13. ASSUME Cleared, ListSessions
      PROVE  ServedOncePerDelivery'
  <2>1. served' = served /\ delivered' = delivered
    BY <1>13 DEF ListSessions
  <2>2. \A r \in Requests : Handling(r)' \subseteq Handling(r)
    BY <1>13 DEF ListSessions, Handling, TypeOK
  <2> QED BY <1>13, <2>1, <2>2, NothingCopied
<1>14. ASSUME Cleared, ListenerStops
      PROVE  ServedOncePerDelivery'
  <2>1. served' = served /\ delivered' = delivered
    BY <1>14 DEF ListenerStops
  <2>2. \A r \in Requests : Handling(r)' \subseteq Handling(r)
    BY <1>14 DEF ListenerStops, Handling, TypeOK
  <2> QED BY <1>14, <2>1, <2>2, NothingCopied
<1>15. ASSUME Cleared, Restart
      PROVE  ServedOncePerDelivery'
  <2>1. served' = served /\ delivered' = delivered
    BY <1>15 DEF Restart
  <2>2. \A r \in Requests : Handling(r)' \subseteq Handling(r)
    BY <1>15 DEF Restart, Idle, Handling, TypeOK
  <2> QED BY <1>15, <2>1, <2>2, NothingCopied
<1>16. ASSUME Cleared, UNCHANGED vars
      PROVE  ServedOncePerDelivery'
  BY <1>16, NothingCopied DEF vars, Handling
<1> QED BY OnlyParkParks, <1>1, <1>2, <1>3, <1>4, <1>5, <1>6, <1>7, <1>8, <1>9,
    <1>10, <1>11, <1>12, <1>13, <1>14, <1>15, <1>16
          DEF Next, HandlerStep

-----------------------------------------------------------------------------
(* THEOREMS                                                                *)

(* The inductive invariant holds of the listener, the session store and    *)
(* the RPC methods in any interleaving, with expiry, cancelled calls and   *)
(* restarts.                                                               *)
THEOREM Invariance == Spec => []IInv
<1>1. Init => IInv
  <2> SUFFICES ASSUME Init PROVE IInv
    OBVIOUS
  <2>1. SecretInv /\ PendingInv
    BY DEF Init, SecretInv, Inserting, Idle, PendingInv, NoSession
  <2>2. ServedOncePerDelivery
    <3> SUFFICES ASSUME NEW r \in Requests
                 PROVE  served[r] + Cardinality(Handling(r)) + Parked(r)
                          <= delivered[r]
      BY DEF ServedOncePerDelivery
    <3>1. Handling(r) = {} /\ Parked(r) = 0
      BY SignerAssumption DEF Init, Handling, Idle, Parked, NoSession
    <3>2. Cardinality(Handling(r)) = 0
      BY <3>1, FS_EmptySet
    <3> QED BY <3>1, <3>2 DEF Init
  <2> QED BY <2>1, <2>2, InitTypes DEF IInv
<1>2. IInv /\ [Next]_vars => IInv'
  BY TypeStep, SecretStep, PendingStep, ServedStep DEF IInv
<1> QED BY <1>1, <1>2, PTL DEF Spec

(* Types: sessions, used secrets and the handlers' progress.               *)
THEOREM TypeCorrect == Spec => []TypeOK
<1>1. IInv => TypeOK BY DEF IInv
<1> QED BY <1>1, Invariance, PTL

(* claim_secret is the only way to a session with a secret and lets one    *)
(* handler through, so between two restarts a secret admits one session.   *)
THEOREM SecretOnce == Spec => []SecretAdmitsOne
<1>1. IInv => SecretAdmitsOne
  BY DEF IInv, SecretInv, SecretAdmitsOne
<1> QED BY <1>1, Invariance, PTL

(* However handle_request, set_pending_request and authorize interleave,   *)
(* a delivered request is served at most once.                             *)
THEOREM DeliveryOnce == Spec => []ServedOncePerDelivery
<1>1. IInv => ServedOncePerDelivery BY DEF IInv
<1> QED BY <1>1, Invariance, PTL

(* The keys are used for a live session only, that has the permission and  *)
(* is not waiting for the operator: handle_request reads and serves with   *)
(* no await in between.                                                    *)
THEOREM GateKept == Spec => ServedThroughTheGate
<1> DEFINE Gate == \A r \in Requests : served'[r] # served[r] =>
                     LET s == sessions[ClientOf[r]]
                     IN  /\ s.present /\ ~s.expired
                         /\ ~s.required \/ s.authorized
                         /\ r \in Permitted
<1>1. TypeOK /\ [Next]_vars => [Gate]_vars
  <2> SUFFICES ASSUME TypeOK, Next, NEW r \in Requests,
                      served'[r] # served[r]
               PROVE  LET s == sessions[ClientOf[r]]
                      IN  /\ s.present /\ ~s.expired
                          /\ ~s.required \/ s.authorized
                          /\ r \in Permitted
    OBVIOUS
  <2>1. PICK h \in Handlers : ReadSession(h)
    BY DEF Next, HandlerStep, Receive, ClaimSecret, InsertSession,
           ParkRequest, ConnectOutbound, Authorize, DropRpc, RequireAuth,
           CloseSession, SessionStatus, Expire, ListSessions, ListenerStops,
           Restart
  <2>2. /\ r = task[h].request
        /\ served' = [served EXCEPT ![task[h].request] = @ + 1]
    BY <2>1 DEF ReadSession, TypeOK
  <2> QED BY <2>1, <2>2 DEF ReadSession, Live
<1> QED BY <1>1, TypeCorrect, PTL DEF Spec, ServedThroughTheGate

=============================================================================
