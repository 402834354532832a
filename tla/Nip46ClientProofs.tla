--------------------------- MODULE Nip46ClientProofs ---------------------------
(***************************************************************************)
(* Proofs about Nip46Client, for any calls, signers, secrets, URLs, and    *)
(* whatever relays and signers send.                                       *)
(*                                                                         *)
(* A call goes through few kinds of moves (CallMoves), and one that has    *)
(* succeeded does not move again.  The inductive invariant adds to the     *)
(* properties                                                              *)
(*   CallInv     what a call knows of its signer and session, by place,    *)
(*   SessionInv  a session is the work of a connect that has succeeded,    *)
(*   MailInv     who may have sent what lies in the receiver of a call,    *)
(*   HeardInv    an answer comes only to a request that was sent,          *)
(*   SecretInv   who has claimed a secret.                                 *)
(***************************************************************************)
EXTENDS Nip46Client, TLAPS

-----------------------------------------------------------------------------
(* TYPES                                                                   *)

Values == {e.body.value : e \in Events} \cup {None}
Kinds  == {u.kind : u \in Uses} \cup {None}

CallRecord ==
  [at : Places, op : Methods \cup {"connect", None}, kind : Kinds,
   url : Urls \cup {None}, on : Connects \cup {None},
   signer : Signers \cup {None}, user : Values, answer : Events \cup {None}]
SessionRecord ==
  [present : BOOLEAN, expired : BOOLEAN, required : BOOLEAN,
   authorized : BOOLEAN, signer : Signers \cup {None}, user : Values,
   perms : SUBSET Permission]

Types ==
  /\ sessions \in [Connects -> SessionRecord]
  /\ used \subseteq {Trim[s] : s \in Secrets} \ {Blank}
  /\ call \in [Calls -> CallRecord]
  /\ subs \subseteq Calls /\ asked \subseteq Calls
  /\ answered \subseteq asked
  /\ lagged \subseteq Calls
  /\ mail \in [Calls -> SUBSET Events]
  /\ events \in 0..MaxEvents /\ incidents \in 0..MaxIncidents

(* The records that stand for nothing have the types of their places.      *)
LEMMA EmptyTypes == Idle \in CallRecord /\ NoSession \in SessionRecord
<1>1. None \in Values /\ None \in Kinds
  BY DEF Values, Kinds
<1>2. Idle \in CallRecord
  BY <1>1 DEF Idle, CallRecord, Places
<1>3. NoSession \in SessionRecord
  BY <1>1 DEF NoSession, SessionRecord
<1> QED BY <1>2, <1>3

(* The call goes on with all that it has.                                  *)
LEMMA AdvanceEffect ==
  ASSUME call \in [Calls -> CallRecord], NEW c \in Calls, NEW at \in Places,
         call' = [call EXCEPT ![c].at = at]
  PROVE  /\ call' \in [Calls -> CallRecord]
         /\ call'[c].at = at
         /\ call'[c].op = call[c].op /\ call'[c].kind = call[c].kind
         /\ call'[c].url = call[c].url /\ call'[c].on = call[c].on
         /\ call'[c].signer = call[c].signer /\ call'[c].user = call[c].user
         /\ call'[c].answer = call[c].answer
         /\ \A d \in Calls \ {c} : call'[d] = call[d]
BY DEF CallRecord

(* The call succeeds with all that it has ...                              *)
LEMMA SuccessEffect ==
  ASSUME Types, NEW c \in Calls, Return(c, "ok")
  PROVE  /\ call' \in [Calls -> CallRecord]
         /\ call'[c].at = "ok"
         /\ call'[c].op = call[c].op /\ call'[c].kind = call[c].kind
         /\ call'[c].url = call[c].url /\ call'[c].on = call[c].on
         /\ call'[c].signer = call[c].signer /\ call'[c].user = call[c].user
         /\ call'[c].answer = call[c].answer
         /\ \A d \in Calls \ {c} : call'[d] = call[d]
         /\ mail' \in [Calls -> SUBSET Events]
         /\ mail'[c] = {}
         /\ \A d \in Calls \ {c} : mail'[d] = mail[d]
<1>1. call' = [call EXCEPT ![c] = [call[c] EXCEPT !.at = "ok"]]
  BY DEF Return
<1>2. [call[c] EXCEPT !.at = "ok"] \in CallRecord
  BY DEF Types, CallRecord, Places, Ended
<1>3. /\ call' \in [Calls -> CallRecord]
      /\ call'[c] = [call[c] EXCEPT !.at = "ok"]
      /\ \A d \in Calls \ {c} : call'[d] = call[d]
  BY <1>1, <1>2 DEF Types
<1>4. /\ mail' \in [Calls -> SUBSET Events] /\ mail'[c] = {}
      /\ \A d \in Calls \ {c} : mail'[d] = mail[d]
  BY DEF Return, Types
<1> QED BY <1>3, <1>4 DEF Types, CallRecord

(* ... or fails and forgets it.                                            *)
LEMMA FailureEffect ==
  ASSUME Types, NEW c \in Calls, NEW how \in {"error", "dropped"},
         Return(c, how)
  PROVE  /\ call' \in [Calls -> CallRecord]
         /\ call'[c].at = how /\ call'[c].op = None
         /\ call'[c].on = call[c].on
         /\ \A d \in Calls \ {c} : call'[d] = call[d]
         /\ mail' \in [Calls -> SUBSET Events]
         /\ mail'[c] = {}
         /\ \A d \in Calls \ {c} : mail'[d] = mail[d]
<1> DEFINE new == [Idle EXCEPT !.at = how, !.on = call[c].on]
<1>1. call' = [call EXCEPT ![c] = new]
  BY DEF Return
<1>2. new \in CallRecord /\ new.at = how /\ new.op = None
        /\ new.on = call[c].on
  BY EmptyTypes DEF Types, CallRecord, Places, Ended, Idle
<1> HIDE DEF new
<1>3. /\ call' \in [Calls -> CallRecord] /\ call'[c] = new
      /\ \A d \in Calls \ {c} : call'[d] = call[d]
  BY <1>1, <1>2 DEF Types
<1>4. /\ mail' \in [Calls -> SUBSET Events] /\ mail'[c] = {}
      /\ \A d \in Calls \ {c} : mail'[d] = mail[d]
  BY DEF Return, Types
<1> QED BY <1>2, <1>3, <1>4

(* The call has its answer.                                                *)
Accepts(c, e, at) ==
  call' = [call EXCEPT ![c].at = at, ![c].answer = e, ![c].signer = e.author]

(* What it keeps then.                                                     *)
LEMMA TakeEffect ==
  ASSUME Types, NEW c \in Calls, NEW e \in Events, NEW at \in Places,
         Accepts(c, e, at)
  PROVE  /\ call' \in [Calls -> CallRecord]
         /\ call'[c].at = at
         /\ call'[c].op = call[c].op /\ call'[c].kind = call[c].kind
         /\ call'[c].url = call[c].url /\ call'[c].on = call[c].on
         /\ call'[c].user = call[c].user
         /\ call'[c].answer = e /\ call'[c].signer = e.author
         /\ \A d \in Calls \ {c} : call'[d] = call[d]
<1>1. e.author \in Signers
  BY ClientAssumption DEF Event
<1> QED BY <1>1 DEF Types, CallRecord, Accepts

-----------------------------------------------------------------------------
(* THE MOVES OF A CALL                                                     *)

(* What a call keeps while it goes on.                                     *)
Keeps(c) ==
  /\ call'[c].op = call[c].op /\ call'[c].kind = call[c].kind
  /\ call'[c].url = call[c].url /\ call'[c].on = call[c].on
  /\ call'[c].signer = call[c].signer /\ call'[c].answer = call[c].answer

(* nip46.connect begins with a URL it does not refuse ...                  *)
BeginsConnect(c) ==
  /\ c \in Connects
  /\ call[c].at = "idle" /\ call'[c].at = "join"
  /\ call'[c].op = "connect"
  /\ call'[c].url \in Urls /\ ~Refused(call'[c].url)
  /\ call'[c].on = c /\ call'[c].signer = call'[c].url.signer
  /\ UNCHANGED <<sessions, used, mail, asked>>

(* ... or another method with a session that permits it.                   *)
BeginsUse(c) ==
  /\ call[c].at = "idle" /\ call'[c].at = "join"
  /\ \E use \in Uses : \E k \in Connects :
       /\ Live(k) /\ Permits(sessions[k], use)
       /\ call'[c].op = use.op /\ call'[c].kind = use.kind
       /\ call'[c].on = k /\ call'[c].signer = sessions[k].signer
  /\ UNCHANGED <<used, mail, asked>>

(* It goes on,                                                             *)
GoesOn(c) ==
  /\ Keeps(c)
  /\ \/ /\ call[c].at = "join" /\ call'[c].at \in {"transmit", "wait"}
        /\ c \in subs' /\ asked' = asked
     \/ /\ call[c].at = "transmit" /\ call'[c].at = "sending"
        /\ subs' = subs /\ asked' = asked \cup {c}
     \/ /\ call[c].at = "sending" /\ call'[c].at = "wait"
        /\ subs' = subs /\ asked' = asked
  /\ UNCHANGED <<sessions, used, mail>>

(* has its answer,                                                         *)
IsAnswered(c) ==
  /\ call[c].at = "wait"
  /\ \E e \in mail[c] :
       /\ e \in Events
       /\ Addressed(c, e) /\ Concerns(c, e) /\ Valid(c, e.body)
       /\ call'[c].at = After(c, e.body)
       /\ call'[c].answer = e /\ call'[c].signer = e.author
  /\ call'[c].op = call[c].op /\ call'[c].kind = call[c].kind
  /\ call'[c].url = call[c].url /\ call'[c].on = call[c].on
  /\ mail'[c] = {}
  /\ \A d \in Calls \ {c} : mail'[d] = mail[d]
  /\ UNCHANGED <<sessions, used, asked>>

(* claims the secret,                                                      *)
ClaimsSecret(c) ==
  /\ Keeps(c)
  /\ call[c].at = "claim" /\ call'[c].at = "insert"
  /\ \/ call[c].url.secret = None /\ used' = used
     \/ /\ call[c].url.secret # None
        /\ Trim[call[c].url.secret] # Blank
        /\ Trim[call[c].url.secret] \notin used
        /\ used' = used \cup {Trim[call[c].url.secret]}
  /\ UNCHANGED <<sessions, mail, asked>>

(* succeeds,                                                               *)
Succeeds(c) ==
  /\ Keeps(c)
  /\ call[c].at \in {"insert", "update"} /\ call'[c].at = "ok"
  /\ mail'[c] = {}
  /\ \A d \in Calls \ {c} : mail'[d] = mail[d]
  /\ UNCHANGED <<used, asked>>

(* or fails.                                                               *)
GivesUp(c) ==
  /\ call[c].at \notin Ended
  /\ call'[c].at \in {"error", "dropped"} /\ call'[c].op = None
  /\ mail'[c] = {} \/ mail'[c] = mail[c]
  /\ \A d \in Calls \ {c} : mail'[d] = mail[d]
  /\ UNCHANGED <<used, asked>>

CallMoves(c) ==
  /\ \A d \in Calls \ {c} : call'[d] = call[d]
  /\ \/ BeginsConnect(c) \/ BeginsUse(c) \/ GoesOn(c) \/ IsAnswered(c)
     \/ ClaimsSecret(c) \/ Succeeds(c) \/ GivesUp(c)
  /\ subs \ {c} \subseteq subs'
  /\ UNCHANGED <<answered, lagged>>

(* A call begins, and its record is of its type.                           *)
LEMMA ConnectBegins ==
  ASSUME Types, NEW c \in Connects, NEW u \in Urls, StartConnect(c, u)
  PROVE  call' \in [Calls -> CallRecord] /\ CallMoves(c)
<1>1. c \in Calls
  BY DEF Calls
<1> DEFINE error == [Idle EXCEPT !.at = "error"]
           new   == [Idle EXCEPT !.at = "join", !.op = "connect", !.url = u,
                                 !.on = c, !.signer = u.signer]
<1>2. CASE Refused(u)
  <2>1. call' = [call EXCEPT ![c] = error]
    BY <1>2 DEF StartConnect
  <2>2. error \in CallRecord /\ error.at = "error" /\ error.op = None
    BY EmptyTypes DEF CallRecord, Places, Ended, Idle
  <2> HIDE DEF error
  <2>3. /\ call' \in [Calls -> CallRecord] /\ call'[c] = error
        /\ \A d \in Calls \ {c} : call'[d] = call[d]
    BY <1>1, <2>1, <2>2 DEF Types
  <2>4. /\ call[c].at = "idle"
        /\ UNCHANGED <<sessions, used, mail, subs, asked, answered, lagged>>
    BY DEF StartConnect
  <2> QED BY <2>2, <2>3, <2>4 DEF CallMoves, GivesUp, Ended
<1>3. CASE ~Refused(u)
  <2>1. call' = [call EXCEPT ![c] = new]
    BY <1>3 DEF StartConnect
  <2>2. u.signer \in Signers \cup {None}
    BY ClientAssumption DEF Url
  <2>3. /\ new \in CallRecord /\ new.at = "join" /\ new.op = "connect"
        /\ new.url = u /\ new.on = c /\ new.signer = u.signer
    BY <2>2, EmptyTypes DEF CallRecord, Places, Idle
  <2> HIDE DEF new
  <2>4. /\ call' \in [Calls -> CallRecord] /\ call'[c] = new
        /\ \A d \in Calls \ {c} : call'[d] = call[d]
    BY <1>1, <2>1, <2>3 DEF Types
  <2>5. /\ call[c].at = "idle"
        /\ UNCHANGED <<sessions, used, mail, subs, asked, answered, lagged>>
    BY DEF StartConnect
  <2>6. BeginsConnect(c)
    BY <1>3, <2>3, <2>4, <2>5 DEF BeginsConnect
  <2> QED BY <2>4, <2>5, <2>6 DEF CallMoves
<1> QED BY <1>2, <1>3

(* The same for a call in a session.                                       *)
LEMMA UseBegins ==
  ASSUME Types, NEW c \in Users, NEW use \in Uses, NEW k \in Connects,
         StartUse(c, use, k)
  PROVE  call' \in [Calls -> CallRecord] /\ CallMoves(c)
<1>1. c \in Calls
  BY DEF Calls
<1> DEFINE error == [Idle EXCEPT !.at = "error"]
           new   == [Idle EXCEPT !.at = "join", !.op = use.op,
                                 !.kind = use.kind, !.on = k,
                                 !.signer = sessions[k].signer,
                                 !.user = sessions[k].user]
           good  == Live(k) /\ Permits(sessions[k], use) /\ use.sound
<1>2. CASE ~good
  <2>1. call' = [call EXCEPT ![c] = error]
    BY <1>2 DEF StartUse
  <2>2. error \in CallRecord /\ error.at = "error" /\ error.op = None
    BY EmptyTypes DEF CallRecord, Places, Ended, Idle
  <2> HIDE DEF error, good
  <2>3. /\ call' \in [Calls -> CallRecord] /\ call'[c] = error
        /\ \A d \in Calls \ {c} : call'[d] = call[d]
    BY <1>1, <2>1, <2>2 DEF Types
  <2>4. /\ call[c].at = "idle"
        /\ UNCHANGED <<used, mail, subs, asked, answered, lagged>>
    BY DEF StartUse
  <2> QED BY <2>2, <2>3, <2>4 DEF CallMoves, GivesUp, Ended
<1>3. CASE good
  <2>1. call' = [call EXCEPT ![c] = new]
    BY <1>3 DEF StartUse
  <2>2. /\ use.op \in Methods /\ use.kind \in Kinds
        /\ sessions[k].signer \in Signers \cup {None}
        /\ sessions[k].user \in Values
    BY ClientAssumption DEF Use, Kinds, Types, SessionRecord
  <2>3. /\ new \in CallRecord /\ new.at = "join" /\ new.op = use.op
        /\ new.kind = use.kind /\ new.on = k
        /\ new.signer = sessions[k].signer
    BY <2>2, EmptyTypes DEF CallRecord, Places, Idle
  <2> HIDE DEF new
  <2>4. /\ call' \in [Calls -> CallRecord] /\ call'[c] = new
        /\ \A d \in Calls \ {c} : call'[d] = call[d]
    BY <1>1, <2>1, <2>3 DEF Types
  <2>5. /\ call[c].at = "idle"
        /\ UNCHANGED <<used, mail, subs, asked, answered, lagged>>
    BY DEF StartUse
  <2>6. BeginsUse(c)
    BY <1>3, <2>3, <2>4, <2>5 DEF BeginsUse
  <2> QED BY <2>4, <2>5, <2>6 DEF CallMoves
<1> QED BY <1>2, <1>3

(* The receiver gives an event that is not for the call.                   *)
Ignores(c, e) ==
  /\ call[c].at = "wait" /\ e \in mail[c]
  /\ ~Addressed(c, e) \/ ~Concerns(c, e)
  /\ mail' = [mail EXCEPT ![c] = @ \ {e}]
  /\ UNCHANGED <<sessions, used, call, subs, asked, answered, lagged>>

(* The operator, or time, changes a session.                               *)
Operates == UNCHANGED <<used, call, subs, mail, asked, answered, lagged>>

(* One turn of a wait.                                                     *)
LEMMA TakeMoves ==
  ASSUME Types, NEW c \in Calls, NEW e \in mail[c], Take(c, e)
  PROVE  /\ call' \in [Calls -> CallRecord]
         /\ CallMoves(c) \/ Ignores(c, e)
<1>1. e \in Events /\ call[c].at = "wait"
  BY DEF Types, Take
<1>2. UNCHANGED <<sessions, used, asked, answered, lagged>>
  BY DEF Take
<1>3. CASE Ignore(c, e) /\ (~Addressed(c, e) \/ ~Concerns(c, e))
  BY <1>1, <1>2, <1>3 DEF Ignores, Ignore, Types
<1>4. CASE Return(c, "error") /\ (subs' = subs \/ Unsubscribe(c))
  <2>1. /\ call' \in [Calls -> CallRecord]
        /\ call'[c].at = "error" /\ call'[c].op = None
        /\ \A d \in Calls \ {c} : call'[d] = call[d]
        /\ mail'[c] = {}
        /\ \A d \in Calls \ {c} : mail'[d] = mail[d]
    BY <1>4, FailureEffect
  <2> QED BY <1>1, <1>2, <1>4, <2>1 DEF CallMoves, GivesUp, Ended,
                                        Unsubscribe
<1>5. CASE /\ Addressed(c, e) /\ Concerns(c, e) /\ Valid(c, e.body)
           /\ Unsubscribe(c)
           /\ call' = [call EXCEPT ![c].at = After(c, e.body),
                                   ![c].answer = e, ![c].signer = e.author]
           /\ mail' = [mail EXCEPT ![c] = {}]
  <2>1. PICK at \in Places : at = After(c, e.body)
    BY DEF After, Places, Ended
  <2>2. Accepts(c, e, at)
    BY <1>5, <2>1 DEF Accepts
  <2>3. /\ call' \in [Calls -> CallRecord]
        /\ call'[c].at = After(c, e.body)
        /\ call'[c].op = call[c].op /\ call'[c].kind = call[c].kind
        /\ call'[c].url = call[c].url /\ call'[c].on = call[c].on
        /\ call'[c].answer = e /\ call'[c].signer = e.author
        /\ \A d \in Calls \ {c} : call'[d] = call[d]
    BY <1>1, <2>1, <2>2, TakeEffect
  <2>4. mail'[c] = {} /\ \A d \in Calls \ {c} : mail'[d] = mail[d]
    BY <1>5 DEF Types
  <2>5. IsAnswered(c)
    BY <1>1, <1>2, <1>5, <2>3, <2>4 DEF IsAnswered
  <2> QED BY <1>2, <1>5, <2>3, <2>5 DEF CallMoves, Unsubscribe
<1> QED BY <1>3, <1>4, <1>5 DEF Take

(* Every step of a call is a move, or leaves the call alone.               *)
LEMMA CallStepMoves ==
  ASSUME Types, NEW c \in Calls, CallStep(c)
  PROVE  /\ call' \in [Calls -> CallRecord]
         /\ CallMoves(c) \/ \E e \in mail[c] : Ignores(c, e)
<1>1. ASSUME Return(c, "error"), call[c].at \notin Ended,
             UNCHANGED <<used, asked, answered, lagged>>,
             subs' = subs \/ Unsubscribe(c)
      PROVE  call' \in [Calls -> CallRecord] /\ CallMoves(c)
  <2>1. /\ call' \in [Calls -> CallRecord]
        /\ call'[c].at = "error" /\ call'[c].op = None
        /\ \A d \in Calls \ {c} : call'[d] = call[d]
        /\ mail'[c] = {}
        /\ \A d \in Calls \ {c} : mail'[d] = mail[d]
    BY <1>1, FailureEffect
  <2> QED BY <1>1, <2>1 DEF CallMoves, GivesUp, Unsubscribe
<1>2. ASSUME NEW at \in Places, call' = [call EXCEPT ![c].at = at]
      PROVE  /\ call' \in [Calls -> CallRecord]
             /\ Keeps(c) /\ call'[c].at = at
             /\ \A d \in Calls \ {c} : call'[d] = call[d]
  BY <1>2, AdvanceEffect DEF Types, Keeps
<1>3. CASE Join(c)
  <2>1. CASE Return(c, "error") /\ UNCHANGED subs
    BY <1>1, <1>3, <2>1 DEF Join, Ended
  <2>2. ASSUME NEW at \in {"transmit", "wait"}, subs' = subs \cup {c},
               call' = [call EXCEPT ![c].at = at], UNCHANGED mail
        PROVE  call' \in [Calls -> CallRecord] /\ CallMoves(c)
    <3>1. /\ call' \in [Calls -> CallRecord]
          /\ Keeps(c) /\ call'[c].at = at
          /\ \A d \in Calls \ {c} : call'[d] = call[d]
      BY <1>2, <2>2 DEF Places, Listening
    <3> QED BY <1>3, <2>2, <3>1 DEF CallMoves, GoesOn, Join
  <2> QED BY <1>3, <2>1, <2>2 DEF Join
<1>4. CASE Transmit(c)
  <2>1. /\ call' \in [Calls -> CallRecord]
        /\ Keeps(c) /\ call'[c].at = "sending"
        /\ \A d \in Calls \ {c} : call'[d] = call[d]
    BY <1>2, <1>4 DEF Transmit, Places, Listening
  <2> QED BY <1>4, <2>1 DEF CallMoves, GoesOn, Transmit
<1>5. CASE SendDone(c)
  <2>1. /\ call' \in [Calls -> CallRecord]
        /\ Keeps(c) /\ call'[c].at = "wait"
        /\ \A d \in Calls \ {c} : call'[d] = call[d]
    BY <1>2, <1>5 DEF SendDone, Places, Listening
  <2> QED BY <1>5, <2>1 DEF CallMoves, GoesOn, SendDone
<1>6. CASE SendFails(c)
  BY <1>1, <1>6 DEF SendFails, Ended
<1>7. CASE Timeout(c)
  BY <1>1, <1>7 DEF Timeout, Ended
<1>8. CASE ClaimSecret(c)
  <2>1. CASE call' = [call EXCEPT ![c].at = "insert"]
    <3>1. /\ call' \in [Calls -> CallRecord]
          /\ Keeps(c) /\ call'[c].at = "insert"
          /\ \A d \in Calls \ {c} : call'[d] = call[d]
      BY <1>2, <2>1 DEF Places
    <3>2. ~Return(c, "error")
      <4>1. Return(c, "error") => call'[c].at = "error"
        BY FailureEffect
      <4> QED BY <3>1, <4>1
    <3> QED BY <1>8, <3>1, <3>2 DEF CallMoves, ClaimsSecret, ClaimSecret,
                                    Claimed
  <2>2. CASE Return(c, "error") /\ UNCHANGED used
    BY <1>1, <1>8, <2>2 DEF ClaimSecret, Ended
  <2> QED BY <1>8, <2>1, <2>2 DEF ClaimSecret
<1>9. ASSUME Return(c, "ok"), call[c].at \in {"insert", "update"},
             UNCHANGED <<used, subs, asked, answered, lagged>>
      PROVE  call' \in [Calls -> CallRecord] /\ CallMoves(c)
  BY <1>9, SuccessEffect DEF CallMoves, Succeeds, Keeps
<1>10. CASE InsertSession(c)
  BY <1>9, <1>10 DEF InsertSession
<1>11. CASE UpdateUser(c)
  BY <1>1, <1>9, <1>11 DEF UpdateUser, Ended
<1> QED
  BY <1>3, <1>4, <1>5, <1>6, <1>7, <1>8, <1>10, <1>11, TakeMoves
  DEF CallStep

(* The kinds of steps.                                                     *)
LEMMA StepKinds ==
  ASSUME Types, Next
  PROVE  /\ call' \in [Calls -> CallRecord]
         /\ \/ \E c \in Calls : CallMoves(c)
            \/ \E c \in Calls : \E e \in mail[c] : Ignores(c, e)
            \/ \E k \in Connects : \E e \in Events : Deliver(k, e)
            \/ \E c \in Calls : Lag(c)
            \/ Operates
<1>1. ASSUME NEW c \in Connects, NEW u \in Urls, StartConnect(c, u)
      PROVE  call' \in [Calls -> CallRecord]
               /\ \E d \in Calls : CallMoves(d)
  BY <1>1, ConnectBegins DEF Calls
<1>2. ASSUME NEW c \in Users, NEW use \in Uses, NEW k \in Connects,
             StartUse(c, use, k)
      PROVE  call' \in [Calls -> CallRecord]
               /\ \E d \in Calls : CallMoves(d)
  BY <1>2, UseBegins DEF Calls
<1>3. ASSUME NEW c \in Calls, Drop(c)
      PROVE  call' \in [Calls -> CallRecord] /\ CallMoves(c)
  <2>1. /\ call' \in [Calls -> CallRecord]
        /\ call'[c].at = "dropped" /\ call'[c].op = None
        /\ \A d \in Calls \ {c} : call'[d] = call[d]
        /\ mail'[c] = {}
        /\ \A d \in Calls \ {c} : mail'[d] = mail[d]
    BY <1>3, FailureEffect DEF Drop
  <2> QED BY <1>3, <2>1 DEF CallMoves, GivesUp, Drop
<1>4. ASSUME NEW c \in Calls, Lag(c) PROVE call' \in [Calls -> CallRecord]
  BY <1>4 DEF Lag, Types
<1>5. ASSUME NEW k \in Connects, NEW e \in Events, Deliver(k, e)
      PROVE  call' \in [Calls -> CallRecord]
  BY <1>5 DEF Deliver, Types
<1>6. ASSUME NEW k \in Connects,
             RequireAuth(k) \/ Authorize(k) \/ CloseSession(k) \/ Expire(k)
      PROVE  call' \in [Calls -> CallRecord] /\ Operates
  BY <1>6 DEF RequireAuth, Authorize, CloseSession, Expire, OnSession,
              Operates, Types
<1> QED
  BY <1>1, <1>2, <1>3, <1>4, <1>5, <1>6, CallStepMoves DEF Next

-----------------------------------------------------------------------------
(* WHAT A CALL KNOWS                                                       *)

(* What the configuration allows to ask of a signer.                       *)
Allowed(op, kind) ==
  /\ op = "sign" => sign_event_allowed(ConfigPerms, kind)
  /\ op \in {"nip04", "nip44"} => [op |-> op, kind |-> kind] \in ConfigPerms

(* A connect call has a URL it did not refuse, and once it is answered a   *)
(* signer that the URL names or that knows its secret.                     *)
ConnectInv(c) ==
  call[c].op = "connect" =>
    /\ c \in Connects /\ call[c].on = c
    /\ call[c].url \in Urls /\ ~Refused(call[c].url)
    /\ call[c].at \in {"join", "claim", "insert", "ok"} \cup Listening
    /\ call[c].url.mode = "bunker" => call[c].signer = call[c].url.signer
    /\ call[c].at \in {"claim", "insert", "ok"} =>
         /\ call[c].signer \in Signers
         /\ call[c].url.mode = "nostrconnect" =>
              call[c].signer \in Holders[call[c].url.secret]

(* Any other has the signer of a session that was opened by a connect call *)
(* which has succeeded, and the answer of that signer to it.               *)
UseInv(c) ==
  call[c].op \in Methods =>
    /\ call[c].on \in Connects /\ Connected(call[c].on)
    /\ call[c].signer = call[call[c].on].signer
    /\ call[c].at \in {"join", "update", "ok"} \cup Listening
    /\ Allowed(call[c].op, call[c].kind)
    /\ call[c].at \in {"update", "ok"} =>
         /\ call[c].answer \in Events
         /\ call[c].answer.author = call[c].signer
         /\ call[c].answer.id = c
         /\ call[c].op = "sign" => call[c].answer.body.value = c

CallInv == \A c \in Calls :
             /\ ConnectInv(c) /\ UseInv(c)
             /\ call[c].at \notin {"idle", "error", "dropped"} =>
                  call[c].op # None

(* A session is that of a connect call that has succeeded, with its signer *)
(* and with no permission the configuration does not give.                 *)
SessionInv ==
  \A k \in Connects :
    /\ sessions[k].present =>
         Connected(k) /\ sessions[k].signer = call[k].signer
    /\ \A p \in sessions[k].perms :
         \/ p \in ConfigPerms
         \/ /\ p.op = "sign"
            /\ [op |-> "sign", kind |-> AnyKind] \in ConfigPerms

(* Nobody sends a secret but its holders, nor the id of a request but the  *)
(* signer that was asked; before it listens a call has no receiver.        *)
MailInv ==
  \A c \in Calls :
    /\ call[c].at \in {"idle", "join"} => mail[c] = {}
    /\ \A e \in mail[c] :
         /\ e.body.form = "secret" => e.author \in Holders[e.body.value]
         /\ call[c].at \in Listening /\ e.id = c => e.author = call[c].signer

(* What a session permits, the configuration allows.                       *)
LEMMA PermitsAllowed ==
  ASSUME SessionInv, NEW k \in Connects, NEW use \in Uses,
         Permits(sessions[k], use)
  PROVE  Allowed(use.op, use.kind)
<1>1. \A p \in sessions[k].perms :
         \/ p \in ConfigPerms
         \/ /\ p.op = "sign"
            /\ [op |-> "sign", kind |-> AnyKind] \in ConfigPerms
  BY DEF SessionInv
<1>2. CASE use.op = "sign"
  <2>1. sign_event_allowed(sessions[k].perms, use.kind)
    BY <1>2 DEF Permits, require_sign_event_permission
  <2> QED BY <1>1, <1>2, <2>1 DEF sign_event_allowed, Allowed
<1>3. CASE use.op \in {"nip04", "nip44"}
  <2>1. [op |-> use.op, kind |-> use.kind] \in sessions[k].perms
    BY <1>3 DEF Permits, require_permission
  <2>2. [op |-> use.op, kind |-> use.kind].op # "sign"
    BY <1>3
  <2> QED BY <1>1, <1>3, <2>1, <2>2 DEF Allowed
<1>4. CASE use.op \notin {"sign", "nip04", "nip44"}
  BY <1>4 DEF Allowed
<1> QED BY <1>2, <1>3, <1>4

(* Whoever has succeeded stays so.                                         *)
LEMMA SuccessStays ==
  ASSUME Types, Next, NEW c \in Calls, call[c].at = "ok"
  PROVE  call'[c] = call[c]
<1>1. ASSUME NEW d \in Calls, CallMoves(d) PROVE call'[c] = call[c]
  <2>1. d # c
    BY <1>1 DEF CallMoves, BeginsConnect, BeginsUse, GoesOn, IsAnswered,
                ClaimsSecret, Succeeds, GivesUp, Ended
  <2> QED BY <1>1, <2>1 DEF CallMoves
<1> QED BY <1>1, StepKinds DEF Ignores, Deliver, Lag, Operates

(* The answer that is taken is the one that was waited for.                *)
LEMMA AnsweredIsProven ==
  ASSUME Types, CallInv, MailInv, NEW c \in Calls, IsAnswered(c)
  PROVE  /\ call[c].op = "connect" =>
              /\ call'[c].at = "claim" /\ call'[c].signer \in Signers
              /\ call[c].url.mode = "bunker" =>
                   call'[c].signer = call[c].url.signer
              /\ call[c].url.mode = "nostrconnect" =>
                   call'[c].signer \in Holders[call[c].url.secret]
         /\ call[c].op \in Methods =>
              /\ call'[c].at \in {"update", "ok"}
              /\ call'[c].at = "update" => call[c].op = "public_key"
              /\ call'[c].signer = call[c].signer
              /\ call'[c].answer \in Events
              /\ call'[c].answer.author = call[c].signer
              /\ call'[c].answer.id = c
              /\ call[c].op = "sign" => call'[c].answer.body.value = c
<1>1. PICK e \in mail[c] :
        /\ e \in Events
        /\ Addressed(c, e) /\ Concerns(c, e) /\ Valid(c, e.body)
        /\ call'[c].at = After(c, e.body)
        /\ call'[c].answer = e /\ call'[c].signer = e.author
  BY DEF IsAnswered
<1>2. e.author \in Signers
  BY <1>1, ClientAssumption DEF Event
<1>3. ASSUME call[c].op = "connect"
      PROVE  /\ call'[c].at = "claim"
             /\ call[c].url.mode = "bunker" => e.author = call[c].url.signer
             /\ call[c].url.mode = "nostrconnect" =>
                  e.author \in Holders[call[c].url.secret]
  <2>1. call'[c].at = "claim"
    BY <1>1, <1>3 DEF After
  <2>2. ASSUME call[c].url.mode = "bunker"
        PROVE  e.author = call[c].url.signer
    <3>1. call[c].signer = call[c].url.signer /\ call[c].url.signer # None
      BY <1>3, <2>2 DEF CallInv, ConnectInv, Refused, connect_bunker
    <3> QED BY <1>1, <3>1 DEF Addressed
  <2>3. ASSUME call[c].url.mode = "nostrconnect"
        PROVE  e.author \in Holders[call[c].url.secret]
    <3>1. e.body.form = "secret" /\ e.body.value = call[c].url.secret
      BY <1>1, <1>3, <2>3 DEF Valid, ValidConnect,
                              validate_nostrconnect_response
    <3> QED BY <1>1, <3>1 DEF MailInv
  <2> QED BY <2>1, <2>2, <2>3
<1>4. ASSUME call[c].op \in Methods
      PROVE  /\ call'[c].at \in {"update", "ok"}
             /\ call'[c].at = "update" => call[c].op = "public_key"
             /\ e.author = call[c].signer /\ e.id = c
             /\ call[c].op = "sign" => e.body.value = c
  <2>1. call[c].op # "connect"
    BY <1>4 DEF Methods
  <2>2. call[c].signer # None
    <3>1. call[c].on \in Connects /\ Connected(call[c].on)
            /\ call[c].signer = call[call[c].on].signer
      BY <1>4 DEF CallInv, UseInv
    <3>2. call[call[c].on].signer \in Signers
      BY <3>1 DEF CallInv, ConnectInv, Connected, Calls
    <3> QED BY <3>1, <3>2, ClientAssumption
  <2>3. e.author = call[c].signer /\ e.id = c
    BY <1>1, <2>2 DEF Concerns, FirstResponse, OwnResponse
  <2>4. call'[c].at \in {"update", "ok"}
          /\ (call'[c].at = "update" => call[c].op = "public_key")
    BY <1>1, <2>1 DEF After
  <2>5. call[c].op = "sign" => e.body.value = c
    BY <1>1, <2>1 DEF Valid, ValidUse, validate_signed_event_response
  <2> QED BY <2>3, <2>4, <2>5
<1> QED BY <1>1, <1>2, <1>3, <1>4

(* A call that begins with a session begins with that of its signer.       *)
LEMMA BegunIsProven ==
  ASSUME Types, CallInv, SessionInv, NEW c \in Calls, BeginsUse(c)
  PROVE  /\ call'[c].op \in Methods
         /\ call'[c].on \in Connects /\ Connected(call'[c].on)
         /\ call'[c].signer = call[call'[c].on].signer
         /\ call'[c].at = "join"
         /\ Allowed(call'[c].op, call'[c].kind)
<1>1. PICK use \in Uses, k \in Connects :
        /\ Live(k) /\ Permits(sessions[k], use)
        /\ call'[c].op = use.op /\ call'[c].kind = use.kind
        /\ call'[c].on = k /\ call'[c].signer = sessions[k].signer
  BY DEF BeginsUse
<1>2. use.op \in Methods
  BY ClientAssumption DEF Use
<1>3. Connected(k) /\ sessions[k].signer = call[k].signer
  BY <1>1 DEF SessionInv, Live
<1>4. Allowed(use.op, use.kind)
  BY <1>1, PermitsAllowed
<1> QED BY <1>1, <1>2, <1>3, <1>4 DEF BeginsUse

(* No step takes from a call what it knows.                                *)
LEMMA CallInvStep ==
  ASSUME Types, CallInv, SessionInv, MailInv, Next
  PROVE  CallInv'
<1>1. \A k \in Connects : Connected(k) => call'[k] = call[k]
  BY SuccessStays DEF Connected, Calls
<1>2. ASSUME NEW d \in Calls, call'[d] = call[d]
      PROVE  /\ ConnectInv(d)' /\ UseInv(d)'
             /\ call'[d].at \notin {"idle", "error", "dropped"} =>
                  call'[d].op # None
  <2>1. ConnectInv(d) /\ UseInv(d)
          /\ (call[d].at \notin {"idle", "error", "dropped"} =>
                call[d].op # None)
    BY DEF CallInv
  <2>2. ConnectInv(d)'
    BY <1>2, <2>1 DEF ConnectInv
  <2>3. ASSUME call[d].op \in Methods
        PROVE  /\ Connected(call[d].on)'
               /\ call'[d].signer = call'[call[d].on].signer
    BY <1>1, <1>2, <2>1, <2>3 DEF UseInv, Connected
  <2>4. UseInv(d)'
    BY <1>2, <2>1, <2>3 DEF UseInv, Connected
  <2> QED BY <1>2, <2>1, <2>2, <2>4
<1>3. ASSUME NEW c \in Calls, CallMoves(c)
      PROVE  /\ ConnectInv(c)' /\ UseInv(c)'
             /\ call'[c].at \notin {"idle", "error", "dropped"} =>
                  call'[c].op # None
  <2>1. ConnectInv(c) /\ UseInv(c)
          /\ (call[c].at \notin {"idle", "error", "dropped"} =>
                call[c].op # None)
    BY DEF CallInv
  <2>2. CASE BeginsConnect(c)
    <3>1. ConnectInv(c)'
      BY <2>2 DEF BeginsConnect, ConnectInv
    <3>2. UseInv(c)'
      BY <2>2 DEF BeginsConnect, UseInv, Methods
    <3> QED BY <2>2, <3>1, <3>2 DEF BeginsConnect, None
  <2>3. CASE BeginsUse(c)
    <3>1. /\ call'[c].op \in Methods
          /\ call'[c].on \in Connects /\ Connected(call'[c].on)
          /\ call'[c].signer = call[call'[c].on].signer
          /\ call'[c].at = "join"
          /\ Allowed(call'[c].op, call'[c].kind)
      BY <2>3, BegunIsProven
    <3>2. call'[call'[c].on] = call[call'[c].on]
      BY <1>1, <3>1
    <3>3. UseInv(c)'
      BY <3>1, <3>2 DEF UseInv, Connected
    <3>4. ConnectInv(c)' /\ call'[c].op # None
      BY <3>1 DEF ConnectInv, Methods, None
    <3> QED BY <3>3, <3>4
  <2>4. ASSUME Keeps(c), call[c].op = "connect",
               call'[c].at \in {"join", "claim", "insert", "ok"}
                 \cup Listening,
               call'[c].at \in {"claim", "insert", "ok"} =>
                 call[c].at \in {"claim", "insert"}
        PROVE  ConnectInv(c)' /\ UseInv(c)' /\ call'[c].op # None
    <3>1. ConnectInv(c)'
      BY <2>1, <2>4 DEF ConnectInv, Keeps
    <3>2. UseInv(c)' /\ call'[c].op # None
      BY <2>4 DEF UseInv, Methods, Keeps, None
    <3> QED BY <3>1, <3>2
  <2>5. ASSUME Keeps(c), call[c].op \in Methods,
               call'[c].at \in {"join", "update", "ok"} \cup Listening,
               call'[c].at \in {"update", "ok"} => call[c].at = "update"
        PROVE  ConnectInv(c)' /\ UseInv(c)' /\ call'[c].op # None
    <3>1. call'[call[c].on] = call[call[c].on]
      BY <1>1, <2>1, <2>5 DEF UseInv
    <3>2. UseInv(c)'
      BY <2>1, <2>5, <3>1 DEF UseInv, Keeps, Connected
    <3>3. ConnectInv(c)' /\ call'[c].op # None
      BY <2>5 DEF ConnectInv, Methods, Keeps, None
    <3> QED BY <3>2, <3>3
  <2>6. call[c].op \in Methods \cup {"connect", None}
    BY DEF Types, CallRecord
  <2>7. CASE GoesOn(c)
    <3>1. /\ Keeps(c) /\ call[c].at \in {"join", "transmit", "sending"}
          /\ call'[c].at \in {"transmit", "sending", "wait"}
      BY <2>7 DEF GoesOn
    <3> QED BY <2>1, <2>4, <2>5, <2>6, <3>1 DEF Listening
  <2>8. CASE ClaimsSecret(c)
    <3>1. call[c].op = "connect"
      BY <2>1, <2>6, <2>8 DEF ClaimsSecret, UseInv, Listening
    <3> QED BY <2>4, <2>8, <3>1 DEF ClaimsSecret
  <2>9. CASE Succeeds(c)
    <3>1. CASE call[c].op = "connect"
      BY <2>1, <2>4, <2>9, <3>1 DEF Succeeds, ConnectInv, Listening
    <3>2. CASE call[c].op \in Methods
      BY <2>1, <2>5, <2>9, <3>2 DEF Succeeds, UseInv, Listening
    <3> QED BY <2>1, <2>6, <2>9, <3>1, <3>2 DEF Succeeds
  <2>10. CASE GivesUp(c)
    BY <2>10 DEF GivesUp, ConnectInv, UseInv, Methods, None
  <2>11. CASE IsAnswered(c)
    <3>1. /\ call'[c].op = call[c].op /\ call'[c].kind = call[c].kind
          /\ call'[c].url = call[c].url /\ call'[c].on = call[c].on
          /\ call[c].at = "wait"
      BY <2>11 DEF IsAnswered
    <3>2. CASE call[c].op = "connect"
      <4>1. /\ call'[c].at = "claim" /\ call'[c].signer \in Signers
            /\ call[c].url.mode = "bunker" =>
                 call'[c].signer = call[c].url.signer
            /\ call[c].url.mode = "nostrconnect" =>
                 call'[c].signer \in Holders[call[c].url.secret]
        BY <2>11, <3>2, AnsweredIsProven
      <4>2. ConnectInv(c)'
        BY <2>1, <3>1, <3>2, <4>1 DEF ConnectInv
      <4>3. UseInv(c)' /\ call'[c].op # None
        BY <3>1, <3>2 DEF UseInv, Methods, None
      <4> QED BY <4>2, <4>3
    <3>3. CASE call[c].op \in Methods
      <4>1. /\ call'[c].at \in {"update", "ok"}
            /\ call'[c].signer = call[c].signer
            /\ call'[c].answer \in Events
            /\ call'[c].answer.author = call[c].signer
            /\ call'[c].answer.id = c
            /\ call[c].op = "sign" => call'[c].answer.body.value = c
        BY <2>11, <3>3, AnsweredIsProven
      <4>2. call'[call[c].on] = call[call[c].on]
        BY <1>1, <2>1, <3>3 DEF UseInv
      <4>3. UseInv(c)'
        BY <2>1, <3>1, <3>3, <4>1, <4>2 DEF UseInv, Connected
      <4>4. ConnectInv(c)' /\ call'[c].op # None
        BY <3>1, <3>3 DEF ConnectInv, Methods, None
      <4> QED BY <4>3, <4>4
    <3> QED BY <2>1, <2>6, <3>1, <3>2, <3>3
  <2> QED
    BY <1>3, <2>2, <2>3, <2>7, <2>8, <2>9, <2>10, <2>11 DEF CallMoves
<1>4. \/ \E c \in Calls : CallMoves(c)
      \/ call' = call
  BY StepKinds DEF Ignores, Deliver, Lag, Operates
<1>5. CASE call' = call
  BY <1>2, <1>5 DEF CallInv
<1>6. ASSUME NEW c \in Calls, CallMoves(c) PROVE CallInv'
  <2>1. \A d \in Calls \ {c} : call'[d] = call[d]
    BY <1>6 DEF CallMoves
  <2> QED BY <1>2, <1>3, <1>6, <2>1 DEF CallInv
<1> QED BY <1>4, <1>5, <1>6

-----------------------------------------------------------------------------
(* SESSIONS                                                                *)

(* What becomes of a session that is there: it is forgotten, or changed    *)
(* in what is not its signer and not its permissions.                      *)
Same(k) ==
  /\ sessions[k].present /\ ~sessions[k].expired
  /\ sessions'[k].present
  /\ sessions'[k].signer = sessions[k].signer
  /\ sessions'[k].perms = sessions[k].perms

(* Sessions change in these ways only.                                     *)
LEMMA SessionKinds ==
  ASSUME Types, CallInv, Next
  PROVE  /\ sessions' \in [Connects -> SessionRecord]
         /\ \/ \A k \in Connects : \/ sessions'[k] = sessions[k]
                                   \/ sessions'[k] = NoSession
                                   \/ Same(k)
            \/ \E c \in Connects : InsertSession(c)
<1> DEFINE Good == /\ sessions' \in [Connects -> SessionRecord]
                   /\ \/ \A k \in Connects : \/ sessions'[k] = sessions[k]
                                             \/ sessions'[k] = NoSession
                                             \/ Same(k)
                      \/ \E c \in Connects : InsertSession(c)
<1>1. ASSUME UNCHANGED sessions PROVE Good
  BY <1>1 DEF Types
<1>2. ASSUME NEW k \in Connects, sessions' = [sessions EXCEPT ![k] = NoSession]
      PROVE  Good
  <2>1. sessions' \in [Connects -> SessionRecord]
    BY <1>2, EmptyTypes DEF Types
  <2>2. sessions'[k] = NoSession
          /\ \A j \in Connects \ {k} : sessions'[j] = sessions[j]
    BY <1>2 DEF Types
  <2> QED BY <2>1, <2>2
<1>3. ASSUME NEW k \in Connects, NEW s \in SessionRecord, Live(k),
             s.present, s.signer = sessions[k].signer,
             s.perms = sessions[k].perms,
             sessions' = [sessions EXCEPT ![k] = s]
      PROVE  Good
  <2>1. sessions' \in [Connects -> SessionRecord]
    BY <1>3 DEF Types
  <2>2. sessions'[k] = s
          /\ \A j \in Connects \ {k} : sessions'[j] = sessions[j]
    BY <1>3 DEF Types
  <2>3. Same(k)
    BY <1>3, <2>2 DEF Same, Live
  <2> QED BY <2>1, <2>2, <2>3
<1>4. ASSUME NEW c \in Users, NEW use \in Uses, NEW k \in Connects,
             StartUse(c, use, k)
      PROVE  Good
  <2>1. \/ UNCHANGED sessions
        \/ sessions' = [sessions EXCEPT ![k] = NoSession]
    BY <1>4 DEF StartUse
  <2> QED BY <1>1, <1>2, <2>1
<1>5. ASSUME NEW c \in Calls, InsertSession(c) PROVE Good
  <2>1. call[c].op \in Methods \cup {"connect", None}
    BY DEF Types, CallRecord
  <2>2. call[c].op = "connect"
    BY <1>5, <2>1 DEF InsertSession, CallInv, UseInv, Listening
  <2>3. c \in Connects /\ call[c].url \in Urls
    BY <2>2 DEF CallInv, ConnectInv
  <2>4. call[c].url.perms \subseteq Permission
    BY <2>3, ClientAssumption DEF Url
  <2> DEFINE new == [present |-> TRUE, expired |-> FALSE, required |-> FALSE,
                     authorized |-> TRUE, signer |-> call[c].signer,
                     user |-> None, perms |-> filter_perms(call[c].url.perms)]
  <2>5. new \in SessionRecord
    <3>1. call[c].signer \in Signers \cup {None} /\ None \in Values
      BY DEF Types, CallRecord, Values
    <3>2. filter_perms(call[c].url.perms) \subseteq Permission
      BY <2>4 DEF filter_perms
    <3> QED BY <3>1, <3>2 DEF SessionRecord
  <2>6. sessions' = [sessions EXCEPT ![c] = new]
    BY <1>5 DEF InsertSession
  <2> HIDE DEF new
  <2>7. sessions' \in [Connects -> SessionRecord]
    BY <2>3, <2>5, <2>6 DEF Types
  <2> QED BY <1>5, <2>3, <2>7
<1>6. ASSUME NEW c \in Calls, UpdateUser(c) PROVE Good
  <2>1. call[c].op \in Methods \cup {"connect", None}
    BY DEF Types, CallRecord
  <2>2. call[c].op \in Methods
    BY <1>6, <2>1 DEF UpdateUser, CallInv, ConnectInv, Listening
  <2>3. call[c].on \in Connects /\ call[c].answer \in Events
    BY <1>6, <2>2 DEF UpdateUser, CallInv, UseInv
  <2>4. PICK k \in Connects : k = call[c].on
    BY <2>3
  <2>5. CASE ~Live(k)
    BY <1>2, <1>6, <2>4, <2>5 DEF UpdateUser
  <2>6. CASE Live(k)
    <3> DEFINE new == [sessions[k] EXCEPT !.user = call[c].answer.body.value]
    <3>1. call[c].answer.body.value \in Values
      BY <2>3 DEF Values
    <3>2. /\ new \in SessionRecord /\ new.present
          /\ new.signer = sessions[k].signer /\ new.perms = sessions[k].perms
      BY <2>6, <3>1 DEF Types, SessionRecord, Live
    <3>3. sessions' = [sessions EXCEPT ![k] = new]
      BY <1>6, <2>4, <2>6 DEF UpdateUser, Types
    <3> HIDE DEF new
    <3> QED BY <1>3, <2>6, <3>2, <3>3
  <2> QED BY <2>5, <2>6
<1>7. ASSUME NEW k \in Connects, NEW s, OnSession(k, s),
             Live(k) => \/ s = NoSession
                        \/ /\ s \in SessionRecord /\ s.present
                           /\ s.signer = sessions[k].signer
                           /\ s.perms = sessions[k].perms
      PROVE  Good
  <2>1. CASE ~Live(k)
    BY <1>2, <1>7, <2>1 DEF OnSession
  <2>2. CASE Live(k)
    <3>1. sessions' = [sessions EXCEPT ![k] = s]
      BY <1>7, <2>2 DEF OnSession
    <3> QED BY <1>2, <1>3, <1>7, <2>2, <3>1
  <2> QED BY <2>1, <2>2
<1>8. ASSUME NEW k \in Connects, RequireAuth(k) PROVE Good
  <2> DEFINE s == [sessions[k] EXCEPT !.required = TRUE, !.authorized = FALSE]
  <2>1. Live(k) => /\ s \in SessionRecord /\ s.present
                   /\ s.signer = sessions[k].signer
                   /\ s.perms = sessions[k].perms
    BY DEF Types, SessionRecord, Live
  <2>2. OnSession(k, s)
    BY <1>8 DEF RequireAuth
  <2> HIDE DEF s
  <2> QED BY <1>7, <2>1, <2>2
<1>9. ASSUME NEW k \in Connects, Authorize(k) PROVE Good
  <2> DEFINE s == [sessions[k] EXCEPT !.authorized = TRUE]
  <2>1. Live(k) => /\ s \in SessionRecord /\ s.present
                   /\ s.signer = sessions[k].signer
                   /\ s.perms = sessions[k].perms
    BY DEF Types, SessionRecord, Live
  <2>2. OnSession(k, s)
    BY <1>9 DEF Authorize
  <2> HIDE DEF s
  <2> QED BY <1>7, <2>1, <2>2
<1>10. ASSUME NEW k \in Connects, Expire(k) PROVE Good
  <2> DEFINE s == [sessions[k] EXCEPT !.expired = TRUE]
  <2>1. Live(k) => /\ s \in SessionRecord /\ s.present
                   /\ s.signer = sessions[k].signer
                   /\ s.perms = sessions[k].perms
    BY DEF Types, SessionRecord, Live
  <2>2. OnSession(k, s)
    BY <1>10 DEF Expire
  <2> HIDE DEF s
  <2> QED BY <1>7, <2>1, <2>2
<1>11. ASSUME NEW k \in Connects, CloseSession(k) PROVE Good
  BY <1>7, <1>11 DEF CloseSession
<1>12. ASSUME NEW c \in Calls,
              \/ Join(c) \/ Transmit(c) \/ SendDone(c) \/ SendFails(c)
              \/ Timeout(c) \/ ClaimSecret(c) \/ Lag(c) \/ Drop(c)
              \/ \E e \in mail[c] : Take(c, e)
       PROVE  Good
  BY <1>1, <1>12 DEF Join, Transmit, SendDone, SendFails, Timeout,
                     ClaimSecret, Lag, Drop, Take
<1>13. ASSUME NEW k \in Connects, NEW e \in Events, Deliver(k, e) PROVE Good
  BY <1>1, <1>13 DEF Deliver
<1>14. ASSUME NEW c \in Connects, NEW u \in Urls, StartConnect(c, u)
       PROVE  Good
  BY <1>1, <1>14 DEF StartConnect
<1> HIDE DEF Good
<1>15. Good
  BY <1>4, <1>5, <1>6, <1>8, <1>9, <1>10, <1>11, <1>12, <1>13, <1>14
  DEF Next, CallStep
<1> QED BY <1>15 DEF Good

(* A session keeps its signer, and gets no permission it was not given.    *)
LEMMA SessionStep ==
  ASSUME Types, CallInv, SessionInv, Next
  PROVE  SessionInv'
<1> DEFINE Within(p) ==
             \/ p \in ConfigPerms
             \/ /\ p.op = "sign"
                /\ [op |-> "sign", kind |-> AnyKind] \in ConfigPerms
<1>1. \A k \in Connects : Connected(k) => call'[k] = call[k]
  BY SuccessStays DEF Connected, Calls
<1>2. ASSUME NEW k \in Connects,
             \/ sessions'[k] = sessions[k] \/ sessions'[k] = NoSession
             \/ Same(k)
      PROVE  /\ sessions'[k].present =>
                  Connected(k)' /\ sessions'[k].signer = call'[k].signer
             /\ \A p \in sessions'[k].perms : Within(p)
  <2>1. CASE sessions'[k] = NoSession
    BY <2>1 DEF NoSession
  <2>2. CASE /\ sessions'[k].present => sessions[k].present
             /\ sessions'[k].signer = sessions[k].signer
             /\ sessions'[k].perms = sessions[k].perms
    <3>1. /\ sessions[k].present =>
               Connected(k) /\ sessions[k].signer = call[k].signer
          /\ \A p \in sessions[k].perms : Within(p)
      BY DEF SessionInv
    <3>2. sessions[k].present => Connected(k)'
      BY <1>1, <3>1 DEF Connected
    <3> QED BY <1>1, <2>2, <3>1, <3>2
  <2> QED BY <1>2, <2>1, <2>2 DEF Same
<1>3. ASSUME NEW c \in Connects, InsertSession(c)
      PROVE  SessionInv'
  <2>0. c \in Calls
    BY DEF Calls
  <2>1. /\ call'[c].at = "ok" /\ call'[c].op = call[c].op
        /\ call'[c].signer = call[c].signer
    BY <1>3, <2>0, SuccessEffect DEF InsertSession
  <2>2. call[c].op \in Methods \cup {"connect", None}
    BY <2>0 DEF Types, CallRecord
  <2>3. call[c].op = "connect"
    BY <1>3, <2>0, <2>2 DEF InsertSession, CallInv, UseInv, Listening
  <2>4. /\ sessions'[c].signer = call[c].signer
        /\ sessions'[c].perms = filter_perms(call[c].url.perms)
        /\ \A k \in Connects \ {c} : sessions'[k] = sessions[k]
    BY <1>3 DEF InsertSession, Types
  <2>5. \A p \in sessions'[c].perms : Within(p)
    BY <2>4 DEF filter_perms
  <2>6. Connected(c)'
    BY <2>1, <2>3 DEF Connected
  <2> QED BY <1>2, <2>1, <2>4, <2>5, <2>6 DEF SessionInv
<1> QED BY <1>2, <1>3, SessionKinds DEF SessionInv

(* The session of a connect call that has succeeded does not come to life  *)
(* again.                                                                  *)
LEMMA ClosedStep ==
  ASSUME Types, CallInv, Next, NEW k \in Connects, Connected(k), ~Live(k)
  PROVE  ~Live(k)'
<1>1. ~InsertSession(k)
  BY DEF Connected, InsertSession
<1>2. ASSUME NEW c \in Connects, InsertSession(c) PROVE sessions'[k] = sessions[k]
  BY <1>1, <1>2 DEF InsertSession, Types
<1> QED BY <1>2, SessionKinds DEF Live, Same, NoSession

-----------------------------------------------------------------------------
(* ANSWERS                                                                 *)

(* The effect of an event that is delivered.                               *)
LEMMA DeliverEffect ==
  ASSUME Types, NEW k \in Connects, NEW e \in Events, Deliver(k, e)
  PROVE  /\ mail' \in [Calls -> SUBSET Events]
         /\ \A c \in Calls : \/ mail'[c] = mail[c]
                             \/ mail'[c] = mail[c] \cup {e}
         /\ \A c \in Calls : call[c].at \in Listening /\ call[c].on = k =>
              mail'[c] = mail[c] \cup {e}
         /\ e.id \in Calls => e.id \in asked /\ call[e.id].on = k
                              /\ call[e.id].signer = e.author
         /\ e.body.form = "secret" => e.author \in Holders[e.body.value]
         /\ answered' \subseteq answered \cup {e.id}
         /\ answered' \subseteq asked
         /\ \A c \in answered' \ answered : c = e.id /\ is_response(e)
         /\ UNCHANGED <<sessions, used, call, subs, asked, lagged, incidents>>
<1>1. mail' = [c \in Calls |-> IF call[c].on = k /\ Hears(c)
                               THEN mail[c] \cup {e} ELSE mail[c]]
  BY DEF Deliver
<1>2. \A c \in Calls : mail[c] \subseteq Events
  BY DEF Types
<1>3. /\ mail' \in [Calls -> SUBSET Events]
      /\ \A c \in Calls : mail'[c] = mail[c] \/ mail'[c] = mail[c] \cup {e}
  BY <1>1, <1>2
<1>4. \A c \in Calls : call[c].at \in Listening /\ call[c].on = k =>
        mail'[c] = mail[c] \cup {e}
  BY <1>1 DEF Hears
<1>5. /\ e.id \in Calls => e.id \in asked /\ call[e.id].on = k
                           /\ call[e.id].signer = e.author
      /\ e.body.form = "secret" => e.author \in Holders[e.body.value]
      /\ UNCHANGED <<sessions, used, call, subs, asked, lagged, incidents>>
  BY DEF Deliver
<1>6. CASE e.id \in Calls /\ is_response(e)
  <2>1. answered' = answered \cup {e.id}
    BY <1>6 DEF Deliver
  <2>2. e.id \in asked
    BY <1>5, <1>6, ClientAssumption
  <2>3. /\ answered' \subseteq answered \cup {e.id}
        /\ answered' \subseteq asked
        /\ \A c \in answered' \ answered : c = e.id /\ is_response(e)
    BY <1>6, <2>1, <2>2 DEF Types
  <2> QED BY <1>3, <1>4, <1>5, <2>3
<1>7. CASE ~(e.id \in Calls /\ is_response(e))
  <2>1. answered' = answered
    BY <1>7 DEF Deliver
  <2> QED BY <1>3, <1>4, <1>5, <2>1 DEF Types
<1> QED BY <1>6, <1>7

(* The effect of one that is passed over, and of a receiver that lags.     *)
LEMMA MailShrinks ==
  ASSUME Types, NEW c \in Calls, NEW S, S \subseteq mail[c],
         mail' = [mail EXCEPT ![c] = S]
  PROVE  /\ mail' \in [Calls -> SUBSET Events] /\ mail'[c] = S
         /\ \A d \in Calls \ {c} : mail'[d] = mail[d]
BY DEF Types

(* No step puts into a receiver what could not have been sent.             *)
LEMMA MailStep ==
  ASSUME Types, CallInv, MailInv, Next
  PROVE  MailInv'
<1> DEFINE Good(c) ==
             /\ call'[c].at \in {"idle", "join"} => mail'[c] = {}
             /\ \A e \in mail'[c] :
               /\ e.body.form = "secret" => e.author \in Holders[e.body.value]
               /\ call'[c].at \in Listening /\ e.id = c =>
                    e.author = call'[c].signer
<1>0. \A c \in Calls :
        /\ call[c].at \in {"idle", "join"} => mail[c] = {}
        /\ \A e \in mail[c] :
          /\ e.body.form = "secret" => e.author \in Holders[e.body.value]
          /\ call[c].at \in Listening /\ e.id = c =>
               e.author = call[c].signer
  BY DEF MailInv
<1>1. ASSUME NEW c \in Calls, call'[c] = call[c], mail'[c] \subseteq mail[c]
      PROVE  Good(c)
  BY <1>0, <1>1
<1>2. ASSUME NEW c \in Calls, CallMoves(c) PROVE \A d \in Calls : Good(d)
  <2>1. \A d \in Calls \ {c} : call'[d] = call[d] /\ mail'[d] = mail[d]
    BY <1>2 DEF CallMoves, BeginsConnect, BeginsUse, GoesOn, IsAnswered,
                ClaimsSecret, Succeeds, GivesUp
  <2>2. Good(c)
    <3>1. CASE mail'[c] = {}
      BY <3>1
    <3>2. CASE /\ mail'[c] = mail[c]
               /\ call'[c].at \notin Listening \cup {"idle", "join"}
      BY <1>0, <3>2
    <3>3. CASE GoesOn(c) /\ call[c].at \in Listening
      BY <1>0, <3>3 DEF GoesOn, Keeps, Listening
    <3>4. CASE GoesOn(c) /\ call[c].at = "join"
      <4>1. mail'[c] = {}
        BY <3>4 DEF GoesOn, MailInv
      <4> QED BY <3>1, <4>1
    <3>5. GoesOn(c) => call[c].at \in Listening \cup {"join"}
      BY DEF GoesOn, Listening
    <3>6. ~GoesOn(c) =>
            \/ mail'[c] = {}
            \/ /\ mail'[c] = mail[c]
               /\ call'[c].at \notin Listening \cup {"idle", "join"}
      BY <1>0, <1>2 DEF CallMoves, BeginsConnect, BeginsUse, IsAnswered,
                  ClaimsSecret, Succeeds, GivesUp, Listening
    <3> QED BY <3>1, <3>2, <3>3, <3>4, <3>5, <3>6
  <2> QED BY <1>1, <2>1, <2>2
<1>3. ASSUME NEW c \in Calls, NEW e \in mail[c], Ignores(c, e)
      PROVE  \A d \in Calls : Good(d)
  <2>1. \A d \in Calls : mail'[d] \subseteq mail[d]
    BY <1>3 DEF Ignores, Types
  <2> QED BY <1>1, <1>3, <2>1 DEF Ignores
<1>4. ASSUME NEW c \in Calls, Lag(c) PROVE \A d \in Calls : Good(d)
  <2>1. \A d \in Calls : mail'[d] \subseteq mail[d]
    BY <1>4 DEF Lag, Types
  <2> QED BY <1>1, <1>4, <2>1 DEF Lag
<1>5. ASSUME Operates PROVE \A d \in Calls : Good(d)
  BY <1>1, <1>5 DEF Operates
<1>6. ASSUME NEW k \in Connects, NEW e \in Events, Deliver(k, e),
             NEW c \in Calls
      PROVE  Good(c)
  <2>1. /\ mail'[c] = mail[c] \/ mail'[c] = mail[c] \cup {e}
        /\ e.id \in Calls => call[e.id].signer = e.author
        /\ e.body.form = "secret" => e.author \in Holders[e.body.value]
        /\ call' = call
    BY <1>6, DeliverEffect
  <2>2. e.id = c => e.author = call[c].signer
    BY <2>1, ClientAssumption
  <2>3. call[c].at \in {"idle", "join"} => mail'[c] = mail[c]
    BY <1>6 DEF Deliver, Hears, Listening, Types
  <2> QED BY <1>0, <2>1, <2>2, <2>3
<1> HIDE DEF Good
<1>7. \A c \in Calls : Good(c)
  BY <1>2, <1>3, <1>4, <1>5, <1>6, StepKinds
<1> QED BY <1>7 DEF Good, MailInv

(* Only a request that was sent is answered; and AnswerIsHeard.            *)
HeardInv ==
  /\ \A c \in asked : call[c].at \notin {"idle", "join", "transmit"}
  /\ AnswerIsHeard

(* Other calls do not take away what a call waits for, and it passes over  *)
(* nothing that is its answer.                                             *)
LEMMA HeardStep ==
  ASSUME Types, CallInv, MailInv, HeardInv, Next
  PROVE  HeardInv'
<1> DEFINE Good(c) ==
             /\ c \in asked' =>
                  call'[c].at \notin {"idle", "join", "transmit"}
             /\ call'[c].at \in Listening =>
                  /\ c \in subs'
                  /\ c \in answered' \ lagged' =>
                       \E e \in mail'[c] : e.id = c /\ is_response(e)
<1>0. \A c \in Calls :
        /\ c \in asked => call[c].at \notin {"idle", "join", "transmit"}
        /\ call[c].at \in Listening =>
             /\ c \in subs
             /\ c \in answered \ lagged =>
                  \E e \in mail[c] : e.id = c /\ is_response(e)
  BY DEF HeardInv, AnswerIsHeard
<1>1. ASSUME NEW c \in Calls, call'[c] = call[c], mail'[c] = mail[c],
             c \in asked' => c \in asked, c \in subs => c \in subs',
             UNCHANGED <<answered, lagged>>
      PROVE  Good(c)
  BY <1>0, <1>1
<1>2. ASSUME NEW c \in Calls, CallMoves(c) PROVE \A d \in Calls : Good(d)
  <2>1. ASSUME NEW d \in Calls \ {c} PROVE Good(d)
    <3>1. /\ call'[d] = call[d] /\ mail'[d] = mail[d]
          /\ d \in asked' => d \in asked
          /\ d \in subs => d \in subs'
          /\ UNCHANGED <<answered, lagged>>
      BY <1>2 DEF CallMoves, BeginsConnect, BeginsUse, GoesOn, IsAnswered,
                  ClaimsSecret, Succeeds, GivesUp
    <3> QED BY <1>1, <3>1
  <2>2. Good(c)
    <3>1. CASE GoesOn(c)
      <4>1. CASE call[c].at \in {"join", "transmit"}
        <5>1. c \notin asked /\ c \notin answered
          BY <1>0, <4>1 DEF Types
        <5>2. c \notin answered' /\ c \in subs'
          BY <1>0, <1>2, <3>1, <4>1, <5>1 DEF CallMoves, GoesOn, Listening
        <5>3. c \in asked' => call'[c].at = "sending"
          BY <3>1, <5>1 DEF GoesOn
        <5> QED BY <5>2, <5>3
      <4>2. CASE call[c].at = "sending"
        BY <1>0, <1>2, <3>1, <4>2 DEF CallMoves, GoesOn, Listening
      <4> QED BY <3>1, <4>1, <4>2 DEF GoesOn
    <3>2. CASE BeginsConnect(c) \/ BeginsUse(c)
      BY <1>0, <3>2 DEF BeginsConnect, BeginsUse, Listening
    <3>3. CASE ClaimsSecret(c) \/ Succeeds(c) \/ GivesUp(c)
      BY <3>3 DEF ClaimsSecret, Succeeds, GivesUp, Listening
    <3>4. CASE IsAnswered(c)
      BY <3>4 DEF IsAnswered, After, Listening
    <3> QED BY <1>2, <3>1, <3>2, <3>3, <3>4 DEF CallMoves
  <2> QED BY <2>1, <2>2
<1>3. ASSUME NEW c \in Calls, NEW e \in mail[c], Ignores(c, e)
      PROVE  \A d \in Calls : Good(d)
  <2>1. /\ mail'[c] = mail[c] \ {e}
        /\ \A d \in Calls \ {c} : mail'[d] = mail[d]
        /\ UNCHANGED <<call, subs, asked, answered, lagged>>
    BY <1>3 DEF Ignores, Types
  <2>2. ~(e.id = c /\ is_response(e))
    <3>1. ASSUME e.id = c, is_response(e) PROVE FALSE
      <4>1. e.author = call[c].signer
        BY <1>3, <3>1 DEF MailInv, Ignores, Listening
      <4>2. Addressed(c, e) /\ Concerns(c, e)
        BY <3>1, <4>1 DEF Addressed, Concerns, OwnResponse
      <4> QED BY <1>3, <4>2 DEF Ignores
    <3> QED BY <3>1
  <2>3. Good(c)
    BY <1>0, <2>1, <2>2
  <2> QED BY <1>1, <2>1, <2>3
<1>4. ASSUME NEW c \in Calls, Lag(c) PROVE \A d \in Calls : Good(d)
  <2>1. /\ c \in lagged'
        /\ lagged' \ {c} = lagged \ {c}
        /\ \A d \in Calls \ {c} : mail'[d] = mail[d]
        /\ UNCHANGED <<call, subs, asked, answered>>
    BY <1>4 DEF Lag, Types
  <2> QED BY <1>0, <2>1
<1>5. ASSUME Operates PROVE \A d \in Calls : Good(d)
  BY <1>1, <1>5 DEF Operates
<1>6. ASSUME NEW k \in Connects, NEW e \in Events, Deliver(k, e),
             NEW c \in Calls
      PROVE  Good(c)
  <2>1. /\ mail'[c] = mail[c] \/ mail'[c] = mail[c] \cup {e}
        /\ UNCHANGED <<call, subs, asked, lagged>>
    BY <1>6, DeliverEffect
  <2>2. CASE c \notin answered' \ answered
    BY <1>0, <2>1, <2>2
  <2>3. CASE c \in answered' \ answered
    <3>1. c = e.id /\ is_response(e)
      BY <1>6, <2>3, DeliverEffect
    <3>2. call[c].on = k
      BY <1>6, <3>1, DeliverEffect, ClientAssumption
    <3>3. call[c].at \in Listening => mail'[c] = mail[c] \cup {e}
      BY <1>6, <3>2, DeliverEffect
    <3> QED BY <1>0, <2>1, <3>1, <3>3
  <2> QED BY <2>2, <2>3
<1> HIDE DEF Good
<1>7. \A c \in Calls : Good(c)
  BY <1>2, <1>3, <1>4, <1>5, <1>6, StepKinds
<1>8. \A c \in asked' : c \in Calls
  BY StepKinds DEF CallMoves, BeginsConnect, BeginsUse, GoesOn, IsAnswered,
                   ClaimsSecret, Succeeds, GivesUp, Ignores, Deliver, Lag,
                   Operates, Types
<1> QED BY <1>7, <1>8 DEF Good, HeardInv, AnswerIsHeard

-----------------------------------------------------------------------------
(* SECRETS                                                                 *)

(* A call that has claimed its secret.                                     *)
Claims(c) == /\ call[c].op = "connect" /\ call[c].at \in {"insert", "ok"}
             /\ call[c].url.secret # None

(* What is claimed is used up, and by one call.                            *)
SecretInv ==
  /\ \A c \in Calls : Claims(c) => Trim[call[c].url.secret] \in used
  /\ \A c, d \in Calls : Claims(c) /\ Claims(d) /\ c # d =>
       Trim[call[c].url.secret] # Trim[call[d].url.secret]

(* No secret is claimed twice.                                             *)
LEMMA SecretStep ==
  ASSUME Types, CallInv, SecretInv, Next
  PROVE  SecretInv'
<1>1. ASSUME NEW c \in Calls, CallMoves(c), ClaimsSecret(c)
      PROVE  SecretInv'
  <2>1. \A d \in Calls \ {c} :
          Claims(d)' => Claims(d) /\ call'[d].url = call[d].url
    BY <1>1 DEF CallMoves, Claims
  <2>2. CASE call[c].url.secret = None
    <3>1. ~Claims(c)' /\ used' = used
      BY <1>1, <2>2 DEF ClaimsSecret, Keeps, Claims
    <3> QED BY <2>1, <3>1 DEF SecretInv
  <2>3. CASE call[c].url.secret # None
    <3>1. /\ Trim[call[c].url.secret] \notin used
          /\ used' = used \cup {Trim[call[c].url.secret]}
          /\ call'[c].url = call[c].url
      BY <1>1, <2>3 DEF ClaimsSecret, Keeps
    <3> QED BY <2>1, <3>1 DEF SecretInv
  <2> QED BY <2>2, <2>3
<1>2. ASSUME NEW c \in Calls, CallMoves(c), ~ClaimsSecret(c)
      PROVE  SecretInv'
  <2>1. used' = used
    BY <1>2 DEF CallMoves, BeginsConnect, BeginsUse, GoesOn, IsAnswered,
                Succeeds, GivesUp
  <2>2. /\ ~Claims(c)' \/ Claims(c)
        /\ Claims(c) => call'[c].url = call[c].url \/ GivesUp(c)
    <3>1. CASE BeginsConnect(c) \/ BeginsUse(c) \/ GoesOn(c) \/ GivesUp(c)
      BY <3>1 DEF BeginsConnect, BeginsUse, GoesOn, GivesUp, Claims
    <3>2. CASE IsAnswered(c)
      <4>1. call[c].op = "connect" => call'[c].at = "claim"
        BY <3>2 DEF IsAnswered, After
      <4> QED BY <3>2, <4>1 DEF IsAnswered, Claims
    <3>3. CASE Succeeds(c)
      <4>1. call[c].op = "connect" => call[c].at # "update"
        BY DEF CallInv, ConnectInv, Listening
      <4> QED BY <3>3, <4>1 DEF Succeeds, Keeps, Claims
    <3> QED BY <1>2, <3>1, <3>2, <3>3 DEF CallMoves
  <2>3. \A d \in Calls : Claims(d)' => Claims(d) /\ call'[d].url = call[d].url
    <3>1. ~Claims(c)' \/ ~GivesUp(c)
      BY DEF Claims, GivesUp
    <3> QED BY <1>2, <2>2, <3>1 DEF CallMoves, Claims
  <2> QED BY <2>1, <2>3 DEF SecretInv
<1>3. \/ \E c \in Calls : CallMoves(c)
      \/ call' = call /\ used' = used
  BY StepKinds DEF Ignores, Deliver, Lag, Operates
<1>4. CASE call' = call /\ used' = used
  BY <1>4 DEF SecretInv, Claims
<1> QED BY <1>1, <1>2, <1>3, <1>4

-----------------------------------------------------------------------------
(* THEOREMS                                                                *)

(* No step leaves the types.                                               *)
LEMMA TypesStep ==
  ASSUME Types, CallInv, Next
  PROVE  Types'
<1>1. call' \in [Calls -> CallRecord] /\ sessions' \in [Connects -> SessionRecord]
  BY StepKinds, SessionKinds
<1>2. used' \subseteq {Trim[s] : s \in Secrets} \ {Blank}
  <2>1. ASSUME NEW c \in Calls, ClaimsSecret(c)
        PROVE  used' \subseteq {Trim[s] : s \in Secrets} \ {Blank}
    <3>1. CASE used' = used
      BY <3>1 DEF Types
    <3>2. CASE used' # used
      <4>1. /\ call[c].url.secret # None
            /\ Trim[call[c].url.secret] # Blank
            /\ used' = used \cup {Trim[call[c].url.secret]}
        BY <2>1, <3>2 DEF ClaimsSecret
      <4>2. call[c].op = "connect"
        <5>1. call[c].op \in Methods \cup {"connect", None}
          BY DEF Types, CallRecord
        <5> QED BY <2>1, <5>1 DEF ClaimsSecret, CallInv, UseInv, Listening
      <4>3. call[c].url \in Urls
        BY <4>2 DEF CallInv, ConnectInv
      <4>4. call[c].url.secret \in Secrets
        BY <4>1, <4>3, ClientAssumption DEF Url
      <4> QED BY <4>1, <4>4 DEF Types
    <3> QED BY <3>1, <3>2
  <2>2. ASSUME NEW c \in Calls, CallMoves(c), ~ClaimsSecret(c)
        PROVE  used' = used
    BY <2>2 DEF CallMoves, BeginsConnect, BeginsUse, GoesOn, IsAnswered,
                Succeeds, GivesUp
  <2> QED BY <2>1, <2>2, StepKinds
          DEF Ignores, Deliver, Lag, Operates, Types
<1>3. answered' \subseteq asked' /\ asked' \subseteq Calls
  <2>1. ASSUME NEW c \in Calls, CallMoves(c)
        PROVE  answered' \subseteq asked' /\ asked' \subseteq Calls
    BY <2>1 DEF CallMoves, BeginsConnect, BeginsUse, GoesOn, IsAnswered,
                ClaimsSecret, Succeeds, GivesUp, Types
  <2>2. ASSUME NEW k \in Connects, NEW e \in Events, Deliver(k, e)
        PROVE  answered' \subseteq asked' /\ asked' \subseteq Calls
    BY <2>2, DeliverEffect DEF Types
  <2> QED BY <2>1, <2>2, StepKinds DEF Ignores, Lag, Operates, Types
<1>4. lagged' \subseteq Calls
  BY StepKinds DEF CallMoves, Ignores, Deliver, Lag, Operates, Types
<1>5. /\ subs' \subseteq Calls /\ mail' \in [Calls -> SUBSET Events]
      /\ events' \in 0..MaxEvents /\ incidents' \in 0..MaxIncidents
  <2> DEFINE Good == /\ subs' \subseteq Calls
                     /\ mail' \in [Calls -> SUBSET Events]
                     /\ events' \in 0..MaxEvents
                     /\ incidents' \in 0..MaxIncidents
  <2>1. Incident => incidents' \in 0..MaxIncidents
    BY ClientAssumption DEF Incident, Types
  <2>2. ASSUME NEW c \in Calls, NEW how, Return(c, how)
        PROVE  mail' \in [Calls -> SUBSET Events]
    BY <2>2 DEF Return, Types
  <2>3. ASSUME NEW c \in Calls, NEW e \in mail[c], Take(c, e) PROVE Good
    <3>1. events' = events /\ incidents' = incidents
      BY <2>3 DEF Take
    <3>2. subs' \subseteq Calls
      BY <2>3 DEF Take, Ignore, Unsubscribe, Types
    <3>3. mail' \in [Calls -> SUBSET Events]
      <4>1. \/ mail' = [mail EXCEPT ![c] = @ \ {e}]
            \/ mail' = [mail EXCEPT ![c] = {}]
        BY <2>3 DEF Take, Ignore, Return
      <4> QED BY <4>1 DEF Types
    <3> QED BY <3>1, <3>2, <3>3 DEF Types
  <2>4. ASSUME NEW c \in Calls,
               \/ Join(c) \/ Transmit(c) \/ SendDone(c) \/ SendFails(c)
               \/ Timeout(c) \/ ClaimSecret(c) \/ InsertSession(c)
               \/ UpdateUser(c)
        PROVE  Good
    <3>1. events' = events /\ incidents' = incidents
      BY <2>4 DEF Join, Transmit, SendDone, SendFails, Timeout, ClaimSecret,
                  InsertSession, UpdateUser
    <3>2. subs' \subseteq Calls
      BY <2>4 DEF Join, Transmit, SendDone, SendFails, Timeout, ClaimSecret,
                  InsertSession, UpdateUser, Unsubscribe, Types
    <3>3. mail' \in [Calls -> SUBSET Events]
      <4>1. mail' = mail \/ Return(c, "ok") \/ Return(c, "error")
        BY <2>4 DEF Join, Transmit, SendDone, SendFails, Timeout,
                    ClaimSecret, InsertSession, UpdateUser
      <4> QED BY <2>2, <4>1 DEF Types
    <3> QED BY <3>1, <3>2, <3>3 DEF Types
  <2>5. ASSUME NEW c \in Calls, Drop(c) PROVE Good
    BY <2>1, <2>2, <2>5 DEF Drop, Types
  <2>6. ASSUME NEW c \in Calls, Lag(c) PROVE Good
    BY <2>1, <2>6 DEF Lag, Types
  <2>7. ASSUME NEW k \in Connects, NEW e \in Events, Deliver(k, e) PROVE Good
    <3>1. mail' \in [Calls -> SUBSET Events] /\ subs' = subs
            /\ incidents' = incidents
      BY <2>7, DeliverEffect
    <3>2. events' \in 0..MaxEvents
      BY <2>7, ClientAssumption DEF Deliver, Types
    <3> QED BY <3>1, <3>2 DEF Types
  <2>8. ASSUME NEW k \in Connects,
               RequireAuth(k) \/ Authorize(k) \/ CloseSession(k) \/ Expire(k)
        PROVE  Good
    BY <2>1, <2>8 DEF RequireAuth, Authorize, CloseSession, Expire,
                      OnSession, Types
  <2>9. ASSUME NEW c \in Connects, NEW u \in Urls, StartConnect(c, u)
        PROVE  Good
    BY <2>9 DEF StartConnect, Types
  <2>10. ASSUME NEW c \in Users, NEW use \in Uses, NEW k \in Connects,
                StartUse(c, use, k)
         PROVE  Good
    BY <2>10 DEF StartUse, Types
  <2> HIDE DEF Good
  <2>11. Good
    BY <2>3, <2>4, <2>5, <2>6, <2>7, <2>8, <2>9, <2>10 DEF Next, CallStep
  <2> QED BY <2>11 DEF Good
<1> QED BY <1>1, <1>2, <1>3, <1>4, <1>5 DEF Types

(* The inductive invariant.                                                *)
IInv == Types /\ CallInv /\ SessionInv /\ MailInv /\ HeardInv /\ SecretInv

(* At the beginning nobody has called.                                     *)
LEMMA Initially == Init => IInv
<1> SUFFICES ASSUME Init PROVE IInv
  OBVIOUS
<1>1. /\ \A c \in Calls : call[c] = Idle /\ mail[c] = {}
      /\ \A k \in Connects : sessions[k] = NoSession
  BY DEF Init
<1>2. \A c \in Calls : call[c].at = "idle" /\ call[c].op = None
  BY <1>1 DEF Idle
<1>3. \A k \in Connects : ~sessions[k].present /\ sessions[k].perms = {}
  BY <1>1 DEF NoSession
<1>4. Types
  <2>1. 0 \in 0..MaxEvents /\ 0 \in 0..MaxIncidents
    BY ClientAssumption
  <2>2. call \in [Calls -> CallRecord] /\ sessions \in [Connects -> SessionRecord]
    BY EmptyTypes DEF Init
  <2> QED BY <2>1, <2>2 DEF Init, Types
<1>5. CallInv
  BY <1>2 DEF CallInv, ConnectInv, UseInv, Methods, None
<1>6. SessionInv /\ MailInv
  BY <1>1, <1>2, <1>3 DEF SessionInv, MailInv
<1>7. HeardInv /\ SecretInv
  BY <1>2 DEF Init, HeardInv, AnswerIsHeard, SecretInv, Claims, Listening
<1> QED BY <1>4, <1>5, <1>6, <1>7 DEF IInv

(* Every step keeps it.                                                    *)
LEMMA InvariantStep ==
  ASSUME IInv, [Next]_vars
  PROVE  IInv'
<1>1. CASE Next
  BY <1>1, TypesStep, CallInvStep, SessionStep, MailStep, HeardStep,
     SecretStep DEF IInv
<1>2. CASE UNCHANGED vars
  BY <1>2 DEF vars, IInv, Types, CallInv, ConnectInv, UseInv, Connected,
              SessionInv, MailInv, HeardInv, AnswerIsHeard, SecretInv, Claims
<1> QED BY <1>1, <1>2

(* It holds always.                                                        *)
LEMMA Invariant == Spec => []IInv
BY Initially, InvariantStep, PTL DEF Spec

(* Sessions, calls and receivers stay of their types.                      *)
THEOREM TypeCorrect == Spec => []TypeOK
<1>1. IInv => TypeOK
  <2> SUFFICES ASSUME IInv PROVE TypeOK
    OBVIOUS
  <2>1. \A k \in Connects :
          /\ sessions[k].user \in {e.body.value : e \in Events} \cup {None}
          /\ sessions[k].signer \in Signers \cup {None}
    BY DEF IInv, Types, SessionRecord, Values
  <2>2. \A c \in Calls : /\ call[c].at \in Places
                         /\ call[c].on \in Calls \cup {None}
                         /\ call[c].signer \in Signers \cup {None}
    BY DEF IInv, Types, CallRecord, Calls
  <2> QED BY <2>1, <2>2 DEF IInv, Types, TypeOK
<1> QED BY <1>1, Invariant, PTL

(* wait_for_response: what a method returns is the answer of the signer of *)
(* its session to its own request.                                         *)
THEOREM GenuineAnswers == Spec => []AnswersAreGenuine
<1>1. IInv => AnswersAreGenuine
  <2> SUFFICES ASSUME IInv, NEW c \in Calls, call[c].at = "ok",
                      call[c].op # "connect"
               PROVE  /\ call[c].answer.author = call[call[c].on].signer
                      /\ call[c].answer.id = c
                      /\ call[c].op = "sign" =>
                           call[c].answer.body.value = c
    BY DEF AnswersAreGenuine
  <2>1. call[c].op \in Methods \cup {"connect", None} /\ call[c].op # None
    BY DEF IInv, Types, CallRecord, CallInv
  <2>2. call[c].op \in Methods /\ UseInv(c)
    BY <2>1 DEF IInv, CallInv
  <2> QED BY <2>2 DEF UseInv
<1> QED BY <1>1, Invariant, PTL

(* connect_nip46: a session is with the signer the URL names, or with one  *)
(* that knows its secret, and no secret opens two sessions.                *)
THEOREM ProvenSessions == Spec => []SessionsAreProven
<1>1. IInv => SessionsAreProven
  <2> SUFFICES ASSUME IInv, NEW c \in Connects, Connected(c)
               PROVE  /\ sessions[c].present =>
                           sessions[c].signer = call[c].signer
                      /\ call[c].url.mode = "bunker" =>
                           call[c].signer = call[c].url.signer
                      /\ call[c].url.mode = "nostrconnect" =>
                           call[c].signer \in Holders[call[c].url.secret]
                      /\ \A d \in Connects \ {c} :
                           /\ Connected(d) /\ call[c].url.secret # None
                           /\ call[d].url.secret # None
                           => Trim[call[c].url.secret] #
                                Trim[call[d].url.secret]
    BY DEF SessionsAreProven
  <2>1. sessions[c].present => sessions[c].signer = call[c].signer
    BY DEF IInv, SessionInv
  <2>2. ConnectInv(c)
    BY DEF IInv, CallInv, Calls
  <2>3. ASSUME NEW d \in Connects \ {c}, Connected(d),
               call[c].url.secret # None, call[d].url.secret # None
        PROVE  Trim[call[c].url.secret] # Trim[call[d].url.secret]
    <3>1. Claims(c) /\ Claims(d)
      BY <2>3 DEF Claims, Connected
    <3> QED BY <2>3, <3>1 DEF IInv, SecretInv, Calls
  <2> QED BY <2>1, <2>2, <2>3 DEF ConnectInv, Connected
<1> QED BY <1>1, Invariant, PTL

(* wait_for_response, connect_bunker: the receiver and the subscription    *)
(* are there before the request is sent, so its answer is not missed.      *)
THEOREM HeardAnswers == Spec => []AnswerIsHeard
<1>1. IInv => AnswerIsHeard
  BY DEF IInv, HeardInv
<1> QED BY <1>1, Invariant, PTL

(* filter_perms, require_permission: nothing is asked of a signer that the *)
(* configuration does not allow.                                           *)
THEOREM WithinConfiguration == Spec => []AskedWithinConfiguration
<1>1. IInv => AskedWithinConfiguration
  <2> SUFFICES ASSUME IInv, NEW c \in asked
               PROVE  /\ call[c].op = "sign" =>
                           sign_event_allowed(ConfigPerms, call[c].kind)
                      /\ call[c].op \in {"nip04", "nip44"} =>
                           [op |-> call[c].op, kind |-> call[c].kind]
                             \in ConfigPerms
    BY DEF AskedWithinConfiguration
  <2>1. UseInv(c)
    BY DEF IInv, Types, CallInv
  <2> QED BY <2>1 DEF UseInv, Methods, Allowed
<1> QED BY <1>1, Invariant, PTL

(* get_session, set_user_pubkey: a session that was closed or has expired  *)
(* is not brought back by a call that still has a copy of it.              *)
THEOREM ClosedForGood == Spec => ClosedStaysClosed
<1>1. IInv /\ [Next]_vars =>
        [\A k \in Connects : Connected(k) /\ ~Live(k) => ~Live(k)']_vars
  BY ClosedStep DEF IInv
<1> QED BY <1>1, Invariant, PTL DEF Spec, ClosedStaysClosed
================================================================================
