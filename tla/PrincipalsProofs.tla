-------------------------- MODULE PrincipalsProofs --------------------------
(***************************************************************************)
(* Proofs about Principals, for any number of inits, files, connections    *)
(* and requests, any arguments, and any number of kills.                   *)
(***************************************************************************)
EXTENDS Principals, TLAPS

(* Where an init is tells what is in the database: its principal is there  *)
(* from the INSERT on and not before it, and what is inserted was valid.   *)
RowInv ==
  \A i \in Inits :
    /\ init[i].at \in {"off", "opening", "creating"} => ~table[i].present
    /\ init[i].at \in {"reading", "creatingFile", "writing", "reporting",
                         "reported"} => table[i].present
    /\ init[i].at # "off" => init[i].args \in Arguments /\ init[i].file \in Files
    /\ init[i].at = "creating" =>
         parses(init[i].args) /\ validate_principal_init(init[i].args)

(* An init that is about to write has the file it created, for itself.     *)
FileInv ==
  \A i \in Inits : init[i].at = "writing" =>
    /\ file[init[i].file] = "new"
    /\ \A j \in Inits \ {i} :
         init[j].at = "writing" => init[j].file # init[i].file

(* From the write on, before the report, the init's file has its token.    *)
DeliveredInv ==
  \A i \in Inits :
    init[i].at \in {"reporting", "reported"} => file[init[i].file] = i

(* What a connection knows of its principal was true when it was accepted. *)
AuthInv ==
  \A c \in Conns :
    /\ conn[c].since <= now
    /\ conn[c].at # "closed" /\ conn[c].auth \in Inits =>
         /\ table[conn[c].auth].present
         /\ table[conn[c].auth].scope = conn[c].scope
         /\ table[conn[c].auth].revoked >= conn[c].since
         /\ table[conn[c].auth].expires > conn[c].since

(* What was admitted was admitted to a principal, by its scope.            *)
CallInv ==
  \A c \in Conns : conn[c].last.outcome = "admitted" =>
    /\ conn[c].at # "closed" /\ conn[c].auth \in Inits
    /\ conn[c].last.form = "call"
    /\ allows_event(conn[c].scope, conn[c].last.request)

IInv == TypeOK /\ RowInv /\ FileInv /\ TokenFilesWork
          /\ DeliveredInv /\ AuthInv /\ CallInv

-----------------------------------------------------------------------------
(* What an init stores is a scope, once its arguments have been accepted.  *)
LEMMA ScopeType ==
  ASSUME NEW args \in Arguments, parses(args), validate_principal_init(args)
  PROVE  ScopeOf(args) \in Scope
<1>1. ScopeOf(args) = [pubkeys |-> args.pubkeys, kinds |-> args.kinds,
                       policies |-> args.policies,
                       transports |-> args.transports,
                       sources |-> args.sources,
                       requestTargets |-> args.requestTargets]
  BY DEF ScopeOf, NoScope
<1>2. args.pubkeys \subseteq {"author", "other"} /\ args.kinds \subseteq Nat
      /\ args.requestTargets \in BOOLEAN
  BY PrincipalsAssumption DEF validate_principal_init
<1> QED BY <1>1, <1>2 DEF Scope, parses

(* The values an init, a row and a connection start with have their types.  *)
LEMMA ConstantTypes == NoScope \in Scope /\ NoRow \in Row /\ Idle \in InitRun
                       /\ Closed \in Conn
<1>1. MaxTime \in Nat BY PrincipalsAssumption
<1>2. NoScope \in Scope BY DEF NoScope, Scope
<1>3. NoRow \in Row BY <1>1, <1>2 DEF NoRow, Row, Never
<1>4. Idle \in InitRun BY DEF Idle, InitRun
<1>5. Closed \in Conn BY <1>1, <1>2 DEF Closed, Conn, NoCall
<1> QED BY <1>2, <1>3, <1>4, <1>5

(* Nothing has happened yet: no row, no token in a file, no connection.     *)
LEMMA InitIInv == Init => IInv
<1> SUFFICES ASSUME Init PROVE IInv OBVIOUS
<1>1. TypeOK
  BY ConstantTypes, PrincipalsAssumption DEF Init, TypeOK
<1>2. RowInv /\ FileInv /\ TokenFilesWork /\ DeliveredInv
  BY PrincipalsAssumption
  DEF Init, RowInv, FileInv, TokenFilesWork, DeliveredInv, Idle, NoRow
<1>3. AuthInv /\ CallInv
  BY DEF Init, AuthInv, CallInv, Closed, NoCall
<1> QED BY <1>1, <1>2, <1>3 DEF IInv



-----------------------------------------------------------------------------
(* PRESERVATION: one lemma per action, one step per part of the invariant. *)

(* Starting an init changes nothing but its own stage.                      *)
LEMMA RunIInv ==
  ASSUME IInv, NEW i \in Inits, NEW args \in Arguments,
         NEW f \in Files, Run(i, args, f)
  PROVE  IInv'
<1> USE DEF IInv
<1>1. TypeOK'
  BY DEF Run, TypeOK, InitRun
<1>2. RowInv'
  BY DEF Run, TypeOK, InitRun, RowInv
<1>3. FileInv'
  BY DEF Run, TypeOK, InitRun, FileInv
<1>4. TokenFilesWork' /\ DeliveredInv'
  BY DEF Run, TypeOK, InitRun, TokenFilesWork, DeliveredInv
<1>5. AuthInv' /\ CallInv'
  BY DEF Run, AuthInv, CallInv
<1> QED BY <1>1, <1>2, <1>3, <1>4, <1>5

(* Opening the store and validating the arguments writes nothing.           *)
LEMMA OpenAndParseIInv ==
  ASSUME IInv, NEW i \in Inits, OpenAndParse(i)
  PROVE  IInv'
<1> USE DEF IInv
<1>1. TypeOK'
  BY DEF OpenAndParse, InitAt, TypeOK, InitRun
<1>2. RowInv'
  BY DEF OpenAndParse, InitAt, TypeOK, InitRun, RowInv
<1>3. FileInv'
  BY DEF OpenAndParse, InitAt, TypeOK, InitRun, FileInv
<1>4. TokenFilesWork' /\ DeliveredInv'
  BY DEF OpenAndParse, InitAt, TypeOK, InitRun, TokenFilesWork,
         DeliveredInv
<1>5. AuthInv' /\ CallInv'
  BY DEF OpenAndParse, AuthInv, CallInv
<1> QED BY <1>1, <1>2, <1>3, <1>4, <1>5

(* The row is new, so no connection can have been accepted with it.        *)
LEMMA CreatePrincipalIInv ==
  ASSUME IInv, NEW i \in Inits, CreatePrincipal(i)
  PROVE  IInv'
<1> USE DEF IInv
<1>1. [NoRow EXCEPT !.present = TRUE, !.scope = ScopeOf(init[i].args)] \in Row
  BY ScopeType, ConstantTypes DEF CreatePrincipal, RowInv, Row
<1>2. TypeOK'
  BY <1>1 DEF CreatePrincipal, InitAt, TypeOK, InitRun
<1>3. \A j \in Inits : table'[j].present <=> table[j].present \/ j = i
  BY DEF CreatePrincipal, TypeOK, NoRow, Row
<1>4. RowInv'
  BY <1>3 DEF CreatePrincipal, InitAt, TypeOK, InitRun, RowInv
<1>5. FileInv'
  BY DEF CreatePrincipal, InitAt, TypeOK, InitRun, FileInv
<1>6. TokenFilesWork' /\ DeliveredInv'
  BY <1>3 DEF CreatePrincipal, InitAt, TypeOK, InitRun, TokenFilesWork,
         DeliveredInv
<1>7. ~table[i].present
  BY DEF CreatePrincipal, RowInv
<1>8. AuthInv'
  BY <1>7 DEF CreatePrincipal, TypeOK, AuthInv
<1>9. CallInv'
  BY DEF CreatePrincipal, CallInv
<1> QED BY <1>1, <1>2, <1>3, <1>4, <1>5, <1>6, <1>7, <1>8, <1>9

(* Reading the new principal back writes nothing.                           *)
LEMMA PrincipalByIdIInv ==
  ASSUME IInv, NEW i \in Inits, PrincipalById(i)
  PROVE  IInv'
<1> USE DEF IInv
<1>1. TypeOK'
  BY DEF PrincipalById, InitAt, TypeOK, InitRun
<1>2. RowInv'
  BY DEF PrincipalById, InitAt, TypeOK, InitRun, RowInv
<1>3. FileInv'
  BY DEF PrincipalById, InitAt, TypeOK, InitRun, FileInv
<1>4. TokenFilesWork' /\ DeliveredInv'
  BY DEF PrincipalById, InitAt, TypeOK, InitRun, TokenFilesWork,
         DeliveredInv
<1>5. AuthInv' /\ CallInv'
  BY DEF PrincipalById, AuthInv, CallInv
<1> QED BY <1>1, <1>2, <1>3, <1>4, <1>5

(* The path was free: nobody has reported it or is writing to it.          *)
LEMMA CreateTokenFileIInv ==
  ASSUME IInv, NEW i \in Inits, CreateTokenFile(i)
  PROVE  IInv'
<1> USE DEF IInv
<1>1. init[i].file \in Files
  BY DEF CreateTokenFile, RowInv
<1>2. TypeOK'
  BY <1>1 DEF CreateTokenFile, InitAt, TypeOK, InitRun
<1>3. RowInv'
  BY DEF CreateTokenFile, InitAt, TypeOK, InitRun, RowInv
<1>4. TokenFilesWork'
  BY <1>1, PrincipalsAssumption
  DEF CreateTokenFile, InitAt, TypeOK, TokenFilesWork
<1>5. /\ init'[i].file = init[i].file
      /\ \A j \in Inits \ {i} : init'[j] = init[j]
  BY DEF CreateTokenFile, InitAt, TypeOK, InitRun
<1>6. FileInv' /\ DeliveredInv'
  <2>1. CASE file[init[i].file] = "none"
    <3>1. /\ init'[i].at = "writing" /\ file'[init[i].file] = "new"
          /\ \A f \in Files \ {init[i].file} : file'[f] = file[f]
      BY <1>1, <2>1 DEF CreateTokenFile, InitAt, TypeOK, InitRun
    <3>2. \A j \in Inits \ {i} :
            init[j].at \in {"writing", "reporting", "reported"} =>
              init[j].file \in Files \ {init[i].file}
      BY <1>1, <2>1, PrincipalsAssumption
      DEF RowInv, FileInv, DeliveredInv
    <3>3. FileInv'
      <4> SUFFICES ASSUME NEW j \in Inits, init'[j].at = "writing"
                   PROVE  /\ file'[init'[j].file] = "new"
                          /\ \A k \in Inits \ {j} : init'[k].at = "writing" =>
                               init'[k].file # init'[j].file
        BY DEF FileInv
      <4>1. CASE j = i
        BY <1>5, <3>1, <3>2, <4>1
      <4>2. CASE j # i
        BY <1>5, <3>1, <3>2, <4>2 DEF FileInv
      <4> QED BY <4>1, <4>2
    <3>4. DeliveredInv'
      BY <1>5, <3>1, <3>2 DEF DeliveredInv
    <3> QED BY <3>3, <3>4
  <2>2. CASE file[init[i].file] # "none"
    <3>1. init'[i].at = "failed" /\ file' = file
      BY <2>2 DEF CreateTokenFile, InitAt, TypeOK, InitRun
    <3> QED BY <1>5, <3>1 DEF FileInv, DeliveredInv
  <2> QED BY <2>1, <2>2
<1>7. AuthInv' /\ CallInv'
  BY DEF CreateTokenFile, AuthInv, CallInv
<1> QED BY <1>1, <1>2, <1>3, <1>4, <1>5, <1>6, <1>7

(* The file is the one this init created, and nobody else writes to it.    *)
LEMMA WriteTokenIInv ==
  ASSUME IInv, NEW i \in Inits, WriteToken(i)
  PROVE  IInv'
<1> USE DEF IInv
<1>1. init[i].file \in Files /\ table[i].present /\ file[init[i].file] = "new"
  BY DEF WriteToken, RowInv, FileInv
<1>2. TypeOK'
  BY <1>1 DEF WriteToken, InitAt, TypeOK, InitRun
<1>3. RowInv'
  BY DEF WriteToken, InitAt, TypeOK, InitRun, RowInv
<1>4. FileInv'
  BY <1>1, PrincipalsAssumption
  DEF WriteToken, InitAt, TypeOK, InitRun, FileInv, RowInv
<1>5. TokenFilesWork'
  BY <1>1, PrincipalsAssumption DEF WriteToken, InitAt, TypeOK, TokenFilesWork
<1>6. DeliveredInv'
  BY <1>1, PrincipalsAssumption
  DEF WriteToken, InitAt, TypeOK, InitRun, RowInv, DeliveredInv
<1>7. AuthInv' /\ CallInv'
  BY DEF WriteToken, AuthInv, CallInv
<1> QED BY <1>1, <1>2, <1>3, <1>4, <1>5, <1>6, <1>7

(* The report changes nothing but what the operator knows.                  *)
LEMMA ReportIInv ==
  ASSUME IInv, NEW i \in Inits, Report(i)
  PROVE  IInv'
<1> USE DEF IInv
<1>1. TypeOK'
  BY DEF Report, InitAt, TypeOK, InitRun
<1>2. RowInv'
  BY DEF Report, InitAt, TypeOK, InitRun, RowInv
<1>3. FileInv'
  BY DEF Report, InitAt, TypeOK, InitRun, FileInv
<1>4. TokenFilesWork' /\ DeliveredInv'
  BY DEF Report, InitAt, TypeOK, InitRun, TokenFilesWork, DeliveredInv
<1>5. AuthInv' /\ CallInv'
  BY DEF Report, AuthInv, CallInv
<1> QED BY <1>1, <1>2, <1>3, <1>4, <1>5

(* An init that dies leaves its row and its file as they were.              *)
LEMMA InitDiesIInv ==
  ASSUME IInv, NEW i \in Inits, InitDies(i)
  PROVE  IInv'
<1> USE DEF IInv
<1>1. TypeOK'
  BY PrincipalsAssumption DEF InitDies, InitAt, Incident, TypeOK, InitRun
<1>2. RowInv'
  BY DEF InitDies, InitAt, TypeOK, InitRun, RowInv
<1>3. FileInv'
  BY DEF InitDies, InitAt, TypeOK, InitRun, FileInv
<1>4. TokenFilesWork' /\ DeliveredInv'
  BY DEF InitDies, InitAt, TypeOK, InitRun, TokenFilesWork,
         DeliveredInv
<1>5. AuthInv' /\ CallInv'
  BY DEF InitDies, AuthInv, CallInv
<1> QED BY <1>1, <1>2, <1>3, <1>4, <1>5

(* A revocation ends the row's force and leaves its scope and its hash.     *)
LEMMA RevokeIInv ==
  ASSUME IInv, NEW i \in Inits, Revoke(i)
  PROVE  IInv'
<1> USE DEF IInv
<1>1. TypeOK'
  BY PrincipalsAssumption DEF Revoke, TypeOK, Row, Never
<1>2. \A j \in Inits : /\ table'[j].present = table[j].present
                    /\ table'[j].scope = table[j].scope
  BY DEF Revoke, TypeOK, Row
<1>3. RowInv'
  BY <1>2 DEF Revoke, RowInv
<1>4. FileInv' /\ DeliveredInv'
  BY DEF Revoke, FileInv, DeliveredInv
<1>5. TokenFilesWork'
  BY <1>2 DEF Revoke, TokenFilesWork
<1>6. AuthInv'
  BY <1>2, PrincipalsAssumption DEF Revoke, TypeOK, Row, Conn, Never, AuthInv
<1>7. CallInv'
  BY DEF Revoke, CallInv
<1> QED BY <1>1, <1>2, <1>3, <1>4, <1>5, <1>6, <1>7

(* A new expiry leaves the row's scope and its hash.                        *)
LEMMA LimitUntilIInv ==
  ASSUME IInv, NEW i \in Inits, NEW t \in 1..MaxTime, LimitUntil(i, t)
  PROVE  IInv'
<1> USE DEF IInv
<1>1. TypeOK'
  BY PrincipalsAssumption DEF LimitUntil, TypeOK, Row, Never
<1>2. \A j \in Inits : /\ table'[j].present = table[j].present
                    /\ table'[j].scope = table[j].scope
  BY DEF LimitUntil, TypeOK, Row
<1>3. RowInv'
  BY <1>2 DEF LimitUntil, RowInv
<1>4. FileInv' /\ DeliveredInv'
  BY DEF LimitUntil, FileInv, DeliveredInv
<1>5. TokenFilesWork'
  BY <1>2 DEF LimitUntil, TokenFilesWork
<1>6. AuthInv'
  BY <1>2, PrincipalsAssumption DEF LimitUntil, TypeOK, Row, Conn, Never, AuthInv
<1>7. CallInv'
  BY DEF LimitUntil, CallInv
<1> QED BY <1>1, <1>2, <1>3, <1>4, <1>5, <1>6, <1>7

(* The principal is as the connection has it, and in force, at this moment. *)
LEMMA AcceptIInv ==
  ASSUME IInv, NEW c \in Conns, NEW socket \in BOOLEAN,
         NEW auth \in Inits \cup {"missing", "invalid"},
         auth \in Inits => Active(table[auth]),
         incidents' \in 0..MaxIncidents, Accept(c, socket, auth)
  PROVE  IInv'
<1> USE DEF IInv
<1>1. (IF auth \in Inits THEN table[auth].scope ELSE NoScope) \in Scope
  BY ConstantTypes DEF TypeOK, Row
<1>2. TypeOK'
  BY <1>1, ConstantTypes DEF Accept, TypeOK, Conn
<1>3. RowInv' /\ FileInv' /\ TokenFilesWork' /\ DeliveredInv'
  BY DEF Accept, RowInv, FileInv, TokenFilesWork, DeliveredInv
<1>4. AuthInv'
  BY PrincipalsAssumption DEF Accept, TypeOK, Conn, Closed, Row, Never, Active, AuthInv
<1>5. CallInv'
  BY DEF Accept, TypeOK, Conn, Closed, NoCall, CallInv
<1> QED BY <1>1, <1>2, <1>3, <1>4, <1>5

(* A call is judged by the principal the connection was accepted with.      *)
LEMMA CallIInv ==
  ASSUME IInv, NEW c \in Conns, NEW form \in {"call", "notification"},
         NEW r \in Requests \cup {Query}, Call(c, form, r)
  PROVE  IInv'
<1> USE DEF IInv
<1>1. Outcome(c, form, r) \in {"unknown", "rejected", "unauthorized",
                              "out_of_scope", "served", "admitted"}
  BY DEF Outcome
<1>2. conn' \in [Conns -> Conn]
  <2>1. conn[c] \in Conn BY DEF TypeOK
  <2>2. [form |-> form, request |-> r, outcome |-> Outcome(c, form, r)] \in
          [form : {"none", "call", "notification"},
           request : Requests \cup {NoRequest, Query},
           outcome : {"none", "unknown", "rejected", "unauthorized",
                      "out_of_scope", "served", "admitted"}]
    BY <1>1
  <2> QED BY <2>1, <2>2 DEF Call, TypeOK, Conn
<1>3. TypeOK'
  BY <1>2 DEF Call, TypeOK
<1>4. RowInv' /\ FileInv' /\ TokenFilesWork' /\ DeliveredInv'
  BY DEF Call, RowInv, FileInv, TokenFilesWork, DeliveredInv
<1>5. AuthInv'
  BY DEF Call, TypeOK, Conn, AuthInv
<1>6. Outcome(c, form, r) = "admitted" =>
        form = "call" /\ conn[c].auth \in Inits /\ allows_event(conn[c].scope, r)
  BY DEF Outcome, Rejects, require_publish_principal
<1>7. CallInv'
  BY <1>6 DEF Call, TypeOK, Conn, CallInv
<1> QED BY <1>1, <1>2, <1>3, <1>4, <1>5, <1>6, <1>7

(* Closing a connection forgets its principal and its call.                 *)
LEMMA CloseIInv ==
  ASSUME IInv, NEW c \in Conns, Close(c)
  PROVE  IInv'
<1> USE DEF IInv
<1>1. TypeOK'
  BY ConstantTypes DEF Close, TypeOK
<1>2. RowInv' /\ FileInv' /\ TokenFilesWork' /\ DeliveredInv'
  BY DEF Close, RowInv, FileInv, TokenFilesWork, DeliveredInv
<1>3. AuthInv' /\ CallInv'
  BY DEF Close, TypeOK, Closed, NoCall, AuthInv, CallInv
<1> QED BY <1>1, <1>2, <1>3

(* Time alone changes no row, no file and no connection.                    *)
LEMMA TickIInv ==
  ASSUME IInv, Tick
  PROVE  IInv'
<1> USE DEF IInv
<1>1. TypeOK'
  BY PrincipalsAssumption DEF Tick, TypeOK
<1>2. RowInv' /\ FileInv' /\ TokenFilesWork' /\ DeliveredInv'
  BY DEF Tick, RowInv, FileInv, TokenFilesWork, DeliveredInv
<1>3. AuthInv' /\ CallInv'
  BY PrincipalsAssumption DEF Tick, TypeOK, Conn, AuthInv, CallInv
<1> QED BY <1>1, <1>2, <1>3

-----------------------------------------------------------------------------
(* THEOREMS                                                                *)

(* Every step of the next-state relation, and a stutter, keeps the invariant. *)
LEMMA Step == IInv /\ [Next]_vars => IInv'
<1> SUFFICES ASSUME IInv, [Next]_vars PROVE IInv' OBVIOUS
<1>1. ASSUME NEW i \in Inits, InitStep(i) PROVE IInv'
  BY <1>1, OpenAndParseIInv, CreatePrincipalIInv, PrincipalByIdIInv,
     CreateTokenFileIInv, WriteTokenIInv, ReportIInv DEF InitStep
<1>2. ASSUME NEW i \in Inits, InitDies(i) \/ Revoke(i) PROVE IInv'
  BY <1>2, InitDiesIInv, RevokeIInv
<1>3. ASSUME NEW i \in Inits, NEW args \in Arguments, NEW f \in Files,
             Run(i, args, f)
      PROVE  IInv'
  BY <1>3, RunIInv
<1>4. ASSUME NEW i \in Inits, NEW t \in 1..MaxTime, LimitUntil(i, t)
      PROVE  IInv'
  BY <1>4, LimitUntilIInv
<1>5. ASSUME NEW c \in Conns, NEW socket \in BOOLEAN, NEW h \in Headers,
             Connect(c, socket, h)
      PROVE  IInv'
  <2>1. /\ authorize(h) \in Inits \cup {"missing", "invalid"}
        /\ authorize(h) \in Inits => Active(table[authorize(h)])
    BY PrincipalsAssumption DEF authorize
  <2>2. incidents' \in 0..MaxIncidents
    BY <1>5 DEF Connect, IInv, TypeOK
  <2> QED BY <1>5, <2>1, <2>2, AcceptIInv DEF Connect
<1>6. ASSUME NEW c \in Conns, ConnectFails(c) PROVE IInv'
  <2>1. incidents' \in 0..MaxIncidents
    BY <1>6, PrincipalsAssumption DEF ConnectFails, Incident, IInv, TypeOK
  <2>2. "invalid" \notin Inits BY PrincipalsAssumption
  <2> QED BY <1>6, <2>1, <2>2, AcceptIInv DEF ConnectFails
<1>7. ASSUME NEW c \in Conns, Close(c) PROVE IInv'
  BY <1>7, CloseIInv
<1>8. ASSUME NEW c \in Conns, NEW form \in {"call", "notification"},
             NEW r \in Requests \cup {Query}, Call(c, form, r)
      PROVE  IInv'
  BY <1>8, CallIInv
<1>9. ASSUME Tick PROVE IInv'
  BY <1>9, TickIInv
<1>10. ASSUME UNCHANGED vars PROVE IInv'
  BY <1>10 DEF vars, IInv, TypeOK, RowInv, FileInv, TokenFilesWork,
               DeliveredInv, AuthInv, CallInv
<1> QED
  BY <1>1, <1>2, <1>3, <1>4, <1>5, <1>6, <1>7, <1>8, <1>9, <1>10 DEF Next

(* The inductive invariant holds of handle_command, of the server and of   *)
(* the operator's changes, in any order.                                   *)
THEOREM Invariance == Spec => []IInv
<1>1. Init => IInv BY InitIInv
<1>2. IInv /\ [Next]_vars => IInv' BY Step
<1> QED BY <1>1, <1>2, PTL DEF Spec

(* Types: a principal that create_principal stores has a scope of known    *)
(* policies, transports and sources, whatever the command line was.        *)
THEOREM TypeCorrect == Spec => []TypeOK
<1>1. IInv => TypeOK BY DEF IInv
<1> QED BY <1>1, Invariance, PTL

(* A token that write_token_file has written is one that                   *)
(* principal_for_token_hash finds.                                         *)
THEOREM TokensWork == Spec => []TokenFilesWork
<1>1. IInv => TokenFilesWork BY DEF IInv
<1> QED BY <1>1, Invariance, PTL

(* An init that has reported success has its token in its file.            *)
THEOREM ReportsAreTrue == Spec => []ReportedMeansDelivered
<1>1. IInv => ReportedMeansDelivered
  BY DEF IInv, DeliveredInv, ReportedMeansDelivered
<1> QED BY <1>1, Invariance, PTL

(* What publish_event admits is within the scope of a principal that was   *)
(* in force when authorize_transport_publish_request looked it up.         *)
THEOREM Authority == Spec => []AdmittedWithAuthority
<1>1. IInv => AdmittedWithAuthority
  <2> SUFFICES ASSUME IInv, NEW c \in Conns, conn[c].last.outcome = "admitted"
               PROVE  LET i == conn[c].auth
                          r == conn[c].last.request
                          s == conn[c].scope
                      IN  /\ conn[c].last.form = "call"
                          /\ table[i].scope = s
                          /\ table[i].revoked >= conn[c].since
                          /\ table[i].expires > conn[c].since
                          /\ r.pubkey \in s.pubkeys /\ r.kind \in s.kinds
                          /\ IF r.policy = "explicit_targets"
                             THEN r.transports \subseteq s.transports
                             ELSE r.relays > 0 => s.requestTargets
    BY DEF AdmittedWithAuthority
  <2>1. /\ conn[c].at # "closed" /\ conn[c].auth \in Inits
        /\ conn[c].last.form = "call"
        /\ allows_event(conn[c].scope, conn[c].last.request)
    BY DEF IInv, CallInv
  <2>2. /\ table[conn[c].auth].scope = conn[c].scope
        /\ table[conn[c].auth].revoked >= conn[c].since
        /\ table[conn[c].auth].expires > conn[c].since
    BY <2>1 DEF IInv, AuthInv
  <2>3. conn[c].scope \in Scope BY DEF IInv, TypeOK, Conn
  <2>4. conn[c].scope.policies \subseteq Policies BY <2>3 DEF Scope
  <2> QED BY <2>1, <2>2, <2>4 DEF allows_event, Policies
<1> QED BY <1>1, Invariance, PTL

(* No step of any init writes over a file that was there or that another   *)
(* init has delivered: create_new, and one writer per file.                *)
THEOREM FilesKept == Spec => FilesAreKept
<1>1. IInv /\ [Next]_vars =>
        [\A f \in Files : file[f] \in Inits \cup {"foreign"} =>
           file'[f] = file[f]]_vars
  <2> SUFFICES ASSUME IInv, Next, NEW f \in Files,
                      file[f] \in Inits \cup {"foreign"}
               PROVE  file'[f] = file[f]
    OBVIOUS
  <2>1. ASSUME NEW i \in Inits, CreateTokenFile(i) PROVE file'[f] = file[f]
    BY <2>1, PrincipalsAssumption DEF CreateTokenFile, IInv, TypeOK
  <2>2. ASSUME NEW i \in Inits, WriteToken(i) PROVE file'[f] = file[f]
    BY <2>2, PrincipalsAssumption DEF WriteToken, IInv, FileInv, TypeOK
  <2>3. ASSUME NEW i \in Inits, InitStep(i) PROVE file'[f] = file[f]
    BY <2>1, <2>2, <2>3
    DEF InitStep, OpenAndParse, CreatePrincipal, PrincipalById, Report
  <2> QED
    BY <2>3 DEF Next, InitDies, Revoke, Run, LimitUntil, Connect, ConnectFails,
                Accept, Close, Call, Tick
<1> QED BY <1>1, Invariance, PTL DEF Spec, FilesAreKept
=============================================================================
