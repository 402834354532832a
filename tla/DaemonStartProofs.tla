--------------------------- MODULE DaemonStartProofs ---------------------------
(***************************************************************************)
(* Proofs about IdentityStorage and DaemonStart, for any number of         *)
(* processes, starts, killed processes, failed operations and power cuts.  *)
(*                                                                         *)
(* A lemma on each file operation first says field by field what it does   *)
(* (GotoEffect ... PowerCutEffect); the later proofs use only those.  The  *)
(* inductive invariant IInv adds to the properties                         *)
(*   KeyInv      who is writing or using the key, and in what state it is, *)
(*   PlaceInv    a start that found an identity still finds one,           *)
(*   DurableInv  what a power cut may take back,                           *)
(*   KeepInv     unless one is generated although there is one, all work   *)
(*               on the identity in the file,                              *)
(*   CleanInv    without an incident, what is to be opened can be opened,  *)
(*   DaemonInv   tasks belong to processes whose identity is loaded.       *)
(***************************************************************************)
EXTENDS DaemonStart, TLAPS

-----------------------------------------------------------------------------
(* TYPES                                                                   *)

Places == {"off", "check", "read", "open", "wrap", "create", "write", "sync",
           "verify", "persist", "syncdir", "loaded", "failed"}

(* What one process does leaves the others where they are; and a process   *)
(* that only goes on keeps what it has in hand.                            *)
LEMMA GotoEffect ==
  ASSUME proc \in [Procs -> Proc], NEW p \in Procs, NEW at \in Places,
         Goto(p, at)
  PROVE  /\ proc' \in [Procs -> Proc]
         /\ proc'[p].at = at
         /\ proc'[p].start = proc[p].start
         /\ proc'[p].allow = proc[p].allow
         /\ proc'[p].fresh = proc[p].fresh
         /\ proc'[p].env = proc[p].env
         /\ \A q \in Procs \ {p} : proc'[q] = proc[q]
BY DEF Goto, Proc, Places

(* The records that stand for nothing have the types of their places.      *)
LEMMA EmptyTypes ==
  /\ 0 \in Starts /\ NoEnvelope \in Envelope /\ NoKey \in KeyFile
  /\ Off \in Proc /\ StoredKey \in KeyFile
  /\ \A v \in {"legacy", "current", "unknown"} : Stored(v) \in Envelope
<1>1. 0 \in Starts
  BY StorageAssumption DEF Starts
<1>2. NoEnvelope \in Envelope
  BY <1>1 DEF NoEnvelope, Envelope
<1>3. NoKey \in KeyFile /\ StoredKey \in KeyFile
  BY <1>1 DEF NoKey, StoredKey, KeyFile
<1>4. Off \in Proc
  BY <1>1, <1>2 DEF Off, Proc
<1>5. \A v \in {"legacy", "current", "unknown"} : Stored(v) \in Envelope
  BY <1>2 DEF Stored, Envelope
<1> QED BY <1>1, <1>2, <1>3, <1>4, <1>5

(* The effect of a start.                                                  *)
LEMMA StartEffect ==
  ASSUME StorageTypeOK, NEW p \in Procs, NEW allow \in BOOLEAN,
         NEW at \in Places, Start(p, allow, at)
  PROVE  /\ starts' \in Starts /\ starts' > 0
         /\ proc' \in [Procs -> Proc]
         /\ proc'[p].at = at
         /\ proc'[p].start = starts'
         /\ proc'[p].allow = allow
         /\ proc'[p].fresh = FALSE
         /\ proc'[p].env = NoEnvelope
         /\ \A q \in Procs \ {p} : proc'[q] = proc[q]
<1>1. starts' \in Starts /\ starts' > 0 /\ starts' = starts + 1
  BY StorageAssumption DEF Start, StorageTypeOK, Starts
<1> DEFINE new == [Off EXCEPT !.at = at, !.start = starts + 1,
                              !.allow = allow]
<1>2. /\ new \in Proc /\ new.at = at /\ new.start = starts'
      /\ new.allow = allow /\ new.fresh = FALSE /\ new.env = NoEnvelope
  <2>1. Off \in Proc /\ Off.fresh = FALSE /\ Off.env = NoEnvelope
    BY EmptyTypes DEF Off
  <2> QED BY <1>1, <2>1 DEF Proc, Places
<1>3. proc' = [proc EXCEPT ![p] = new]
  BY DEF Start
<1> HIDE DEF new
<1> QED BY <1>1, <1>2, <1>3 DEF StorageTypeOK

(* The effect of generating an identity.                                   *)
LEMMA GenerateEffect ==
  ASSUME StorageTypeOK, NEW p \in Procs, Generate(p)
  PROVE  /\ proc' \in [Procs -> Proc] /\ doubled' \in BOOLEAN
         /\ proc'[p].start = proc[p].start
         /\ proc'[p].allow = proc[p].allow
         /\ \A q \in Procs \ {p} : proc'[q] = proc[q]
         /\ proc'[p].at = "wrap" /\ proc'[p].fresh = TRUE
         /\ proc'[p].env.identity = proc[p].start
         /\ doubled' = (\/ doubled
                        \/ envelope.version # "none"
                        \/ \E q \in Procs \ {p} : Generating(q))
<1>1. /\ doubled' = (\/ doubled
                     \/ envelope.version # "none"
                     \/ \E q \in Procs \ {p} : Generating(q))
      /\ doubled' \in BOOLEAN
  BY DEF Generate
<1>2. /\ proc' \in [Procs -> Proc]
      /\ proc'[p].start = proc[p].start
      /\ proc'[p].allow = proc[p].allow
      /\ \A q \in Procs \ {p} : proc'[q] = proc[q]
      /\ proc'[p].at = "wrap" /\ proc'[p].fresh = TRUE
      /\ proc'[p].env.identity = proc[p].start
  <2> DEFINE env == [proc[p].env EXCEPT !.identity = proc[p].start]
  <2>1. proc[p] \in Proc /\ proc[p].env \in Envelope
    BY DEF StorageTypeOK, Proc
  <2>2. env \in Envelope /\ env.identity = proc[p].start
    BY <2>1 DEF Envelope, Proc
  <2>3. proc' = [proc EXCEPT ![p].at = "wrap", ![p].fresh = TRUE,
                             ![p].env = env]
    BY DEF Generate
  <2> HIDE DEF env
  <2> QED BY <2>2, <2>3 DEF StorageTypeOK, Proc
<1> QED BY <1>1, <1>2

(* The effect of looking for an identity, whether or not the look fails.   *)
LEMMA CheckEffect ==
  ASSUME StorageTypeOK, NEW p \in Procs, Check(p) \/ CheckFails(p)
  PROVE  /\ proc' \in [Procs -> Proc] /\ doubled' \in BOOLEAN
         /\ proc'[p].start = proc[p].start
         /\ proc'[p].allow = proc[p].allow
         /\ \A q \in Procs \ {p} : proc'[q] = proc[q]
         /\ \/ /\ envelope.version # "none" /\ proc'[p].at = "read"
               /\ proc'[p].fresh = proc[p].fresh
               /\ proc'[p].env = proc[p].env
               /\ doubled' = doubled
            \/ /\ ~proc[p].allow /\ proc'[p].at = "failed"
               /\ proc'[p].fresh = proc[p].fresh
               /\ proc'[p].env = proc[p].env
               /\ doubled' = doubled
            \/ /\ proc[p].allow
               /\ proc'[p].at = "wrap" /\ proc'[p].fresh = TRUE
               /\ proc'[p].env.identity = proc[p].start
               /\ doubled' = (\/ doubled
                              \/ envelope.version # "none"
                              \/ \E q \in Procs \ {p} : Generating(q))
<1>1. CASE Goto(p, "read") /\ UNCHANGED doubled /\ envelope.version # "none"
  BY <1>1, GotoEffect DEF StorageTypeOK, Places
<1>2. CASE Goto(p, "failed") /\ UNCHANGED doubled /\ ~proc[p].allow
  BY <1>2, GotoEffect DEF StorageTypeOK, Places
<1>3. CASE Generate(p) /\ proc[p].allow
  BY <1>3, GenerateEffect
<1> QED BY <1>1, <1>2, <1>3 DEF Check, CheckFails

(* The effect of reading the envelope.                                     *)
LEMMA ReadEffect ==
  ASSUME StorageTypeOK, NEW p \in Procs, Read(p)
  PROVE  /\ proc' \in [Procs -> Proc]
         /\ proc'[p].start = proc[p].start
         /\ proc'[p].allow = proc[p].allow
         /\ proc'[p].fresh = proc[p].fresh
         /\ proc'[p].env = envelope
         /\ proc'[p].at = IF envelope.version \in {"legacy", "current"}
                          THEN "open" ELSE "failed"
         /\ \A q \in Procs \ {p} : proc'[q] = proc[q]
BY DEF Read, StorageTypeOK, Proc

(* Sealing gives an envelope of the current format.                        *)
LEMMA SealedType ==
  ASSUME StorageTypeOK, NEW p \in Procs, NEW own \in BOOLEAN
  PROVE  /\ Sealed(p, own) \in Envelope
         /\ Sealed(p, own).version = "current"
         /\ Sealed(p, own).identity = proc[p].env.identity
         /\ Sealed(p, own).key = key.value
         /\ Sealed(p, own).borrowed = (~own /\ ~key.synced)
BY DEF Sealed, StorageTypeOK, Envelope, Proc, KeyFile

(* The effect of sealing with a key found in the file.                     *)
LEMMA UseFoundKeyEffect ==
  ASSUME StorageTypeOK, NEW p \in Procs, UseFoundKey(p)
  PROVE  /\ proc' \in [Procs -> Proc]
         /\ proc'[p].start = proc[p].start
         /\ proc'[p].allow = proc[p].allow
         /\ proc'[p].fresh = proc[p].fresh
         /\ proc'[p].env.identity = proc[p].env.identity
         /\ \/ ~Usable /\ proc'[p].at = "failed"
            \/ /\ Usable /\ proc'[p].at = AfterSealing(p)
               /\ proc'[p].env = Sealed(p, FALSE)
         /\ \A q \in Procs \ {p} : proc'[q] = proc[q]
<1>1. AfterSealing(p) \in Places
  BY DEF AfterSealing, Places
<1>2. Sealed(p, FALSE) \in Envelope
      /\ Sealed(p, FALSE).identity = proc[p].env.identity
  BY SealedType
<1>3. PICK at \in Places, env \in Envelope :
        /\ proc' = [proc EXCEPT ![p].at = at, ![p].env = env]
        /\ env.identity = proc[p].env.identity
        /\ \/ ~Usable /\ at = "failed"
           \/ Usable /\ at = AfterSealing(p) /\ env = Sealed(p, FALSE)
  <2>1. CASE Usable
    BY <1>1, <1>2, <2>1 DEF UseFoundKey
  <2>2. CASE ~Usable
    BY <2>2 DEF UseFoundKey, Places, StorageTypeOK, Proc
  <2> QED BY <2>1, <2>2
<1> QED BY <1>3 DEF StorageTypeOK, Proc, Places

(* The effect of syncing one's own key.                                    *)
LEMMA SyncKeyEffect ==
  ASSUME StorageTypeOK, NEW p \in Procs, SyncKey(p)
  PROVE  /\ proc' \in [Procs -> Proc]
         /\ proc'[p].start = proc[p].start
         /\ proc'[p].allow = proc[p].allow
         /\ proc'[p].fresh = proc[p].fresh
         /\ proc'[p].at = AfterSealing(p)
         /\ proc'[p].env = Sealed(p, TRUE)
         /\ \A q \in Procs \ {p} : proc'[q] = proc[q]
         /\ key' \in KeyFile /\ key'.synced
         /\ key'.state = key.state /\ key'.value = key.value
<1>1. AfterSealing(p) \in Places /\ Sealed(p, TRUE) \in Envelope
  BY SealedType DEF AfterSealing, Places
<1>2. proc' = [proc EXCEPT ![p].at = AfterSealing(p), ![p].env = Sealed(p, TRUE)]
  BY DEF SyncKey
<1>3. /\ proc' \in [Procs -> Proc]
      /\ proc'[p].start = proc[p].start
      /\ proc'[p].allow = proc[p].allow
      /\ proc'[p].fresh = proc[p].fresh
      /\ proc'[p].at = AfterSealing(p)
      /\ proc'[p].env = Sealed(p, TRUE)
      /\ \A q \in Procs \ {p} : proc'[q] = proc[q]
  BY <1>1, <1>2 DEF StorageTypeOK, Proc, Places
<1>4. /\ key' \in KeyFile /\ key'.synced
      /\ key'.state = key.state /\ key'.value = key.value
  BY DEF SyncKey, StorageTypeOK, KeyFile
<1> QED BY <1>3, <1>4

(* The effect of a process that ends.                                      *)
LEMMA EndsEffect ==
  ASSUME StorageTypeOK, NEW p \in Procs, Ends(p)
  PROVE  /\ proc' \in [Procs -> Proc]
         /\ proc'[p] = Off
         /\ \A q \in Procs \ {p} : proc'[q] = proc[q]
BY EmptyTypes DEF Ends, StorageTypeOK

(* The effect of a power cut.                                              *)
LEMMA PowerCutEffect ==
  ASSUME StorageTypeOK, PowerCut
  PROVE  /\ proc' \in [Procs -> Proc]
         /\ \A q \in Procs : proc'[q] = Off
         /\ envelope' \in {envelope, durable} /\ durable' = envelope'
         /\ key' \in KeyFile
         /\ key.synced => key' = key
         /\ doubled' = doubled /\ starts' = starts
         /\ incidents' = incidents + 1 /\ incidents' \in 0..MaxIncidents
<1>1. /\ \A q \in Procs : proc'[q] = Off
      /\ proc' \in [Procs -> Proc]
  BY EmptyTypes DEF PowerCut
<1>2. key' \in KeyFile /\ (key.synced => key' = key)
  <2>1. ASSUME NEW k \in {key, [key EXCEPT !.state = "empty", !.value = 0],
                          NoKey}
        PROVE  [k EXCEPT !.synced = k.state # "absent"] \in KeyFile
    <3>1. k \in KeyFile
      BY EmptyTypes DEF StorageTypeOK, KeyFile
    <3> QED BY <3>1 DEF KeyFile
  <2> QED BY <2>1 DEF PowerCut, StorageTypeOK
<1>3. incidents' = incidents + 1 /\ incidents' \in 0..MaxIncidents
  BY StorageAssumption DEF PowerCut, Incident, StorageTypeOK
<1> QED BY <1>1, <1>2, <1>3 DEF PowerCut

(* The incidents counted stay within their bound.                          *)
LEMMA IncidentType ==
  ASSUME StorageTypeOK, Incident
  PROVE  incidents' \in 0..MaxIncidents /\ incidents' = incidents + 1
BY StorageAssumption DEF Incident, StorageTypeOK

(* No step of a start that loads its identity leaves the types.            *)
LEMMA StorageTypeStep ==
  ASSUME StorageTypeOK, NEW p \in Procs, StorageStep(p)
  PROVE  StorageTypeOK'
<1> USE DEF StorageTypeOK
<1>1. CASE Check(p)
  BY <1>1, CheckEffect DEF Check
<1>2. CASE Read(p)
  BY <1>2, ReadEffect DEF Read
<1>3. CASE Open(p) \/ Verify(p) \/ WrapWithoutKey(p)
  <2>1. \E at \in Places : Goto(p, at)
    BY <1>3 DEF Open, Verify, WrapWithoutKey, Places
  <2> QED BY <1>3, <2>1, GotoEffect DEF Open, Verify, WrapWithoutKey
<1>4. CASE WrapWithKey(p)
  BY <1>4, UseFoundKeyEffect DEF WrapWithKey
<1>5. CASE CreateKey(p)
  <2>1. CASE key' = [NoKey EXCEPT !.state = "empty"] /\ Goto(p, "write")
    <3>1. key' \in KeyFile
      BY <2>1, EmptyTypes DEF KeyFile
    <3> QED BY <1>5, <2>1, <3>1, GotoEffect DEF CreateKey, Places
  <2>2. CASE UseFoundKey(p) /\ UNCHANGED key
    BY <1>5, <2>2, UseFoundKeyEffect DEF CreateKey
  <2> QED BY <1>5, <2>1, <2>2 DEF CreateKey
<1>6. CASE WriteKey(p)
  <2>1. key' \in KeyFile
    BY <1>6 DEF WriteKey, KeyFile, Proc
  <2> QED BY <1>6, <2>1, GotoEffect DEF WriteKey, Places
<1>7. CASE SyncKey(p)
  BY <1>7, SyncKeyEffect DEF SyncKey
<1>8. CASE Persist(p)
  <2>1. envelope' \in Envelope
    BY <1>8 DEF Persist, Proc
  <2> QED BY <1>8, <2>1, GotoEffect DEF Persist, Places
<1>9. CASE SyncParent(p)
  BY <1>9, GotoEffect DEF SyncParent, Places
<1> QED
  BY <1>1, <1>2, <1>3, <1>4, <1>5, <1>6, <1>7, <1>8, <1>9 DEF StorageStep

(* Nor does any other step.                                                *)
LEMMA StorageTypes ==
  ASSUME StorageTypeOK, Next
  PROVE  StorageTypeOK'
<1>1. ASSUME UNCHANGED storageVars PROVE StorageTypeOK'
  BY <1>1 DEF storageVars, StorageTypeOK
<1>2. ASSUME NEW p \in Procs, NEW at \in Places, Goto(p, at),
             UNCHANGED <<key, envelope, durable, doubled, starts>>,
             incidents' = incidents \/ Incident
      PROVE  StorageTypeOK'
  BY <1>2, GotoEffect, IncidentType DEF StorageTypeOK
<1>3. ASSUME NEW p \in Procs, Ends(p),
             UNCHANGED <<key, envelope, durable, doubled, starts>>,
             incidents' = incidents \/ Incident
      PROVE  StorageTypeOK'
  BY <1>3, EndsEffect, IncidentType DEF StorageTypeOK
<1>4. ASSUME NEW p \in Procs, StartStep(p) PROVE StorageTypeOK'
  <2>1. CASE StorageStep(p)
    BY <2>1, StorageTypeStep
  <2>2. CASE New(p)
    BY <1>1, <2>2 DEF New
  <2>3. CASE Relays(p)
    <3>1. proc' = proc \/ Goto(p, "failed")
      BY <2>3 DEF Relays, Fails, Goto
    <3> QED BY <1>1, <1>2, <2>3, <3>1 DEF Relays, storageVars, Places
  <2>4. CASE Bind(p)
    <3>1. proc' = proc \/ Goto(p, "failed")
      BY <2>4 DEF Bind, Fails, Goto
    <3> QED BY <1>1, <1>2, <2>4, <3>1 DEF Bind, storageVars, Places
  <2>5. CASE Exit(p)
    BY <1>3, <2>5 DEF Exit
  <2> QED BY <1>4, <2>1, <2>2, <2>3, <2>4, <2>5 DEF StartStep
<1>5. ASSUME NEW p \in Procs, PresenceStep(p) PROVE StorageTypeOK'
  BY <1>1, <1>5 DEF PresenceStep, Connected, PublishProfile, PublishHandler
<1>6. ASSUME NEW p \in Procs, NEW s \in Settings, StartDaemon(p, s)
      PROVE  StorageTypeOK'
  <2>1. s.allow \in BOOLEAN
    BY SettingsAssumption
  <2>2. PICK at \in Places : Start(p, s.allow, at)
    BY <1>6 DEF StartDaemon, Places
  <2> QED BY <2>1, <2>2, StartEffect DEF Start, StorageTypeOK
<1>7. ASSUME NEW p \in Procs, OperationFails(p) PROVE StorageTypeOK'
  <2>1. \E at \in Places : Goto(p, at)
    BY <1>7 DEF OperationFails, Places
  <2> QED BY <1>2, <1>7, <2>1 DEF OperationFails
<1>c. ASSUME NEW p \in Procs, CheckFails(p) PROVE StorageTypeOK'
  BY <1>c, CheckEffect, IncidentType DEF CheckFails, StorageTypeOK
<1>8. ASSUME NEW p \in Procs, StoreFails(p) PROVE StorageTypeOK'
  BY <1>2, <1>8 DEF StoreFails, Fails, Goto, Places
<1>9. ASSUME NEW p \in Procs, Kill(p) \/ Shutdown(p) PROVE StorageTypeOK'
  BY <1>3, <1>9 DEF Kill, Shutdown
<1>10. CASE PowerFails
  BY <1>10, PowerCutEffect DEF PowerFails, StorageTypeOK
<1> QED
  BY <1>4, <1>5, <1>6, <1>7, <1>c, <1>8, <1>9, <1>10, Zenon
  DEF Next, Environment

(* A process has an address or a task only as far as it has come.          *)
DaemonTypes ==
  /\ daemon \in [Procs -> Daemon]
  /\ presence \in [Procs -> {"none", "connect", "profile", "handler",
                             "ended"}]
  /\ listening \subseteq {p \in Procs : daemon[p].at \in {"bind", "up"}}
  /\ server \in {p \in Procs : daemon[p].at = "up"} \cup {Nobody}
  /\ announced \subseteq Starts

(* What happens after the identity is loaded happens only then, and tasks  *)
(* run only in a process that has spawned them.                            *)
DaemonInv ==
  \A p \in Procs :
    /\ daemon[p].at # "none" => proc[p].at \in {"loaded", "failed"}
    /\ presence[p] # "none" => daemon[p].at \in {"bind", "up"}

(* What ends with a process.                                               *)
LEMMA GoneEffect ==
  ASSUME DaemonTypes, NEW p \in Procs, Gone(p)
  PROVE  /\ DaemonTypes'
         /\ daemon'[p].at = "none" /\ presence'[p] = "none"
         /\ \A q \in Procs \ {p} :
              daemon'[q] = daemon[q] /\ presence'[q] = presence[q]
         /\ announced' = announced
<1>1. NoDaemon \in Daemon /\ NoDaemon.at = "none"
  BY DEF NoDaemon, Daemon
<1>2. /\ daemon' \in [Procs -> Daemon]
      /\ daemon'[p].at = "none"
      /\ \A q \in Procs \ {p} : daemon'[q] = daemon[q]
  BY <1>1 DEF Gone, DaemonTypes
<1>3. /\ presence' \in [Procs -> {"none", "connect", "profile", "handler",
                                  "ended"}]
      /\ presence'[p] = "none"
      /\ \A q \in Procs \ {p} : presence'[q] = presence[q]
  BY DEF Gone, DaemonTypes
<1>4. /\ listening' \subseteq {q \in Procs : daemon'[q].at \in {"bind", "up"}}
      /\ server' \in {q \in Procs : daemon'[q].at = "up"} \cup {Nobody}
      /\ announced' = announced
  BY <1>2 DEF Gone, DaemonTypes
<1> QED BY <1>2, <1>3, <1>4 DEF DaemonTypes

(* How far a process has come changes as its actions say.                  *)
LEMMA DaemonEffect ==
  ASSUME DaemonTypes, NEW p \in Procs,
         NEW at \in {"none", "relays", "bind", "up"},
         daemon' = [daemon EXCEPT ![p].at = at]
  PROVE  /\ daemon' \in [Procs -> Daemon]
         /\ daemon'[p].at = at /\ daemon'[p].settings = daemon[p].settings
         /\ \A q \in Procs \ {p} : daemon'[q] = daemon[q]
BY DEF DaemonTypes, Daemon

(* The tasks and the address of a process that goes on.                    *)
LEMMA DaemonStep ==
  ASSUME StorageTypeOK, DaemonTypes, DaemonInv, Next
  PROVE  DaemonTypes' /\ DaemonInv'
<1> DEFINE Good == DaemonTypes' /\ DaemonInv'
<1>1. ASSUME UNCHANGED startVars, NEW p \in Procs,
             proc[p].at \notin {"loaded", "failed"}
               \/ proc'[p].at \in {"loaded", "failed"},
             \A q \in Procs \ {p} : proc'[q] = proc[q]
      PROVE  Good
  <2>1. DaemonTypes'
    BY <1>1 DEF startVars, DaemonTypes
  <2>2. DaemonInv'
    BY <1>1 DEF startVars, DaemonInv
  <2> QED BY <2>1, <2>2
<1>2. ASSUME NEW p \in Procs, Ends(p), Gone(p) PROVE Good
  <2>1. DaemonTypes'
    BY <1>2, GoneEffect
  <2>2. DaemonInv'
    BY <1>2, GoneEffect, EndsEffect DEF DaemonInv
  <2> QED BY <2>1, <2>2
<1>3. ASSUME NEW p \in Procs, StorageStep(p), UNCHANGED startVars PROVE Good
  <2>1. proc[p].at \notin {"loaded", "failed"}
    BY <1>3 DEF StorageStep, Check, Read, Open, WrapWithKey, WrapWithoutKey,
                CreateKey, WriteKey, SyncKey, Verify, Persist, SyncParent
  <2>2. \A q \in Procs \ {p} : proc'[q] = proc[q]
    BY <1>3 DEF StorageStep, Check, Read, Open, WrapWithKey, WrapWithoutKey,
                CreateKey, WriteKey, SyncKey, Verify, Persist, SyncParent,
                Generate, Goto, UseFoundKey,
                StorageTypeOK
  <2> QED BY <1>1, <1>3, <2>1, <2>2
<1>4. ASSUME NEW p \in Procs, New(p) PROVE Good
  <2>1. daemon' = [daemon EXCEPT ![p].at = "relays"]
        /\ daemon[p].at = "none" /\ proc[p].at = "loaded"
    BY <1>4 DEF New
  <2>2. UNCHANGED <<proc, presence, listening, server, announced>>
    BY <1>4 DEF New, storageVars
  <2>3. /\ daemon' \in [Procs -> Daemon]
        /\ daemon'[p].at = "relays"
        /\ \A q \in Procs \ {p} : daemon'[q] = daemon[q]
    BY <2>1, DaemonEffect
  <2>4. DaemonTypes'
    BY <2>1, <2>2, <2>3 DEF DaemonTypes
  <2>5. DaemonInv'
    BY <2>1, <2>2, <2>3 DEF DaemonInv
  <2> QED BY <2>4, <2>5
<1>5. ASSUME NEW p \in Procs, Relays(p) PROVE Good
  <2>1. CASE Fails(p) /\ UNCHANGED startVars
    BY <1>1, <2>1, GotoEffect DEF Fails, Goto, Places, StorageTypeOK
  <2>2. CASE /\ UNCHANGED <<proc, server, announced>>
             /\ daemon' = [daemon EXCEPT ![p].at = "bind"]
             /\ \/ UNCHANGED <<presence, listening>>
                \/ /\ presence' = [presence EXCEPT ![p] = "connect"]
                   /\ listening' = listening \cup {p}
    <3>1. proc[p].at = "loaded" /\ daemon[p].at = "relays"
      BY <1>5 DEF Relays
    <3>2. /\ daemon' \in [Procs -> Daemon]
          /\ daemon'[p].at = "bind"
          /\ \A q \in Procs \ {p} : daemon'[q] = daemon[q]
      BY <2>2, DaemonEffect
    <3>3. /\ presence' \in [Procs -> {"none", "connect", "profile",
                                      "handler", "ended"}]
          /\ \A q \in Procs \ {p} : presence'[q] = presence[q]
      BY <2>2 DEF DaemonTypes
    <3>4. DaemonTypes'
      BY <2>2, <3>1, <3>2, <3>3 DEF DaemonTypes
    <3>5. DaemonInv'
      BY <2>2, <3>1, <3>2, <3>3 DEF DaemonInv
    <3> QED BY <3>4, <3>5
  <2> QED BY <1>5, <2>1, <2>2 DEF Relays, startVars
<1>6. ASSUME NEW p \in Procs, Bind(p) PROVE Good
  <2>1. CASE Fails(p) /\ UNCHANGED startVars
    BY <1>1, <2>1, GotoEffect DEF Fails, Goto, Places, StorageTypeOK
  <2>2. CASE /\ UNCHANGED <<proc, presence, listening, announced>>
             /\ server' = p
             /\ daemon' = [daemon EXCEPT ![p].at = "up"]
    <3>1. proc[p].at = "loaded" /\ daemon[p].at = "bind"
      BY <1>6 DEF Bind
    <3>2. /\ daemon' \in [Procs -> Daemon]
          /\ daemon'[p].at = "up"
          /\ \A q \in Procs \ {p} : daemon'[q] = daemon[q]
      BY <2>2, DaemonEffect
    <3>4. DaemonTypes'
      BY <2>2, <3>1, <3>2 DEF DaemonTypes
    <3>5. DaemonInv'
      BY <2>2, <3>1, <3>2 DEF DaemonInv
    <3> QED BY <3>4, <3>5
  <2> QED BY <1>6, <2>1, <2>2 DEF Bind, startVars
<1>7. ASSUME NEW p \in Procs, PresenceStep(p) PROVE Good
  <2>1. UNCHANGED <<proc, daemon, listening, server>>
    BY <1>7 DEF PresenceStep, Connected, PublishProfile, PublishHandler,
                storageVars
  <2>2. /\ presence[p] # "none"
        /\ presence' \in [Procs -> {"none", "connect", "profile", "handler",
                                    "ended"}]
        /\ \A q \in Procs \ {p} : presence'[q] = presence[q]
    BY <1>7 DEF PresenceStep, Connected, PublishProfile, PublishHandler,
                DaemonTypes
  <2>3. announced' \subseteq Starts
    <3>1. Identity(p) \in Starts
      BY DEF Identity, StorageTypeOK, Proc, Envelope
    <3> QED BY <1>7, <3>1 DEF PresenceStep, Connected, PublishProfile,
                              PublishHandler, DaemonTypes
  <2> QED BY <2>1, <2>2, <2>3 DEF DaemonTypes, DaemonInv
<1>8. ASSUME NEW p \in Procs, NEW s \in Settings, StartDaemon(p, s)
      PROVE  Good
  <2>1. PICK at \in Places : Start(p, s.allow, at)
    BY <1>8 DEF StartDaemon, Places
  <2>2. proc[p].at = "off" /\ \A q \in Procs \ {p} : proc'[q] = proc[q]
    BY <2>1 DEF Start, StorageTypeOK
  <2>3. UNCHANGED <<presence, listening, server, announced>>
    BY <1>8 DEF StartDaemon
  <2>4. /\ daemon' \in [Procs -> Daemon]
        /\ daemon'[p].at = daemon[p].at
        /\ \A q \in Procs \ {p} : daemon'[q] = daemon[q]
    BY <1>8 DEF StartDaemon, DaemonTypes, Daemon
  <2>5. DaemonTypes'
    BY <2>3, <2>4 DEF DaemonTypes
  <2>6. DaemonInv'
    BY <2>2, <2>3, <2>4 DEF DaemonInv
  <2> QED BY <2>5, <2>6
<1>c. ASSUME NEW p \in Procs, CheckFails(p), UNCHANGED startVars
      PROVE  Good
  <2>1. proc[p].at \notin {"loaded", "failed"}
    BY <1>c DEF CheckFails
  <2> QED BY <1>1, <1>c, <2>1, CheckEffect
<1>9. ASSUME NEW p \in Procs, OperationFails(p), UNCHANGED startVars
      PROVE  Good
  <2>1. proc[p].at \notin {"loaded", "failed"}
    BY <1>9 DEF OperationFails
  <2>2. \A q \in Procs \ {p} : proc'[q] = proc[q]
    BY <1>9 DEF OperationFails, Goto, StorageTypeOK
  <2> QED BY <1>1, <1>9, <2>1, <2>2
<1>10. ASSUME NEW p \in Procs, StoreFails(p) PROVE Good
  <2>1. Fails(p) /\ UNCHANGED startVars
    BY <1>10 DEF StoreFails
  <2> QED BY <1>1, <2>1, GotoEffect DEF Fails, Goto, Places, StorageTypeOK
<1>11. CASE PowerFails
  <2>1. NoDaemon \in Daemon /\ NoDaemon.at = "none"
    BY DEF NoDaemon, Daemon
  <2>2. DaemonTypes'
    BY <1>11, <2>1 DEF PowerFails, DaemonTypes
  <2>3. DaemonInv'
    BY <1>11, <2>1 DEF PowerFails, DaemonInv
  <2> QED BY <2>2, <2>3
<1>12. ASSUME NEW p \in Procs,
              \/ Kill(p) /\ Gone(p)
              \/ Exit(p) /\ Gone(p)
              \/ Shutdown(p)
       PROVE  Good
  BY <1>2, <1>12 DEF Kill, Exit, Shutdown
<1> QED
  BY <1>3, <1>4, <1>5, <1>6, <1>7, <1>8, <1>c, <1>9, <1>10, <1>11, <1>12,
     Zenon
  DEF Next, StartStep, Environment

-----------------------------------------------------------------------------
(* KINDS OF STEPS                                                          *)

(* A process gives up or is gone; the files stay as they are.              *)
Stops(p) ==
  /\ UNCHANGED <<key, envelope, durable, doubled, starts>>
  /\ incidents' \in {incidents, incidents + 1}
  /\ \A q \in Procs \ {p} : proc'[q] = proc[q]
  /\ \/ proc'[p] = Off
     \/ /\ proc[p].at # "off" /\ proc'[p].at = "failed"
        /\ proc'[p].start = proc[p].start
        /\ proc'[p].allow = proc[p].allow
        /\ proc'[p].fresh = proc[p].fresh
        /\ proc'[p].env = proc[p].env

(* A key file that could not be read is taken for a missing one.           *)
Retries(p) ==
  /\ UNCHANGED <<key, envelope, durable, doubled, starts>>
  /\ incidents' = incidents + 1
  /\ \A q \in Procs \ {p} : proc'[q] = proc[q]
  /\ proc[p].at = "wrap"
  /\ proc'[p].at = "create"
  /\ proc'[p].start = proc[p].start
  /\ proc'[p].allow = proc[p].allow
  /\ proc'[p].fresh = proc[p].fresh
  /\ proc'[p].env = proc[p].env

(* What a step does to the identity files and the starts in progress.      *)
LEMMA StepKinds ==
  ASSUME StorageTypeOK, Next
  PROVE  \/ UNCHANGED storageVars
         \/ \E p \in Procs : /\ StorageStep(p) \/ CheckFails(p)
                           /\ UNCHANGED startVars
         \/ \E p \in Procs : \E s \in Settings : StartDaemon(p, s)
         \/ \E p \in Procs : Stops(p)
         \/ \E p \in Procs : Retries(p) /\ UNCHANGED startVars
         \/ PowerFails
<1>1. ASSUME NEW p \in Procs, Goto(p, "failed"), proc[p].at # "off",
             UNCHANGED <<key, envelope, durable, doubled, starts>>,
             incidents' = incidents \/ Incident
      PROVE  Stops(p)
  BY <1>1, GotoEffect DEF Stops, StorageTypeOK, Places, Incident
<1>2. ASSUME NEW p \in Procs, Ends(p),
             UNCHANGED <<key, envelope, durable, doubled, starts>>,
             incidents' = incidents \/ Incident
      PROVE  Stops(p)
  BY <1>2, EndsEffect DEF Stops, Incident
<1>3. ASSUME NEW p \in Procs, New(p) \/ PresenceStep(p)
      PROVE  UNCHANGED storageVars
  BY <1>3 DEF New, PresenceStep, Connected, PublishProfile, PublishHandler
<1>4. ASSUME NEW p \in Procs, Relays(p) \/ Bind(p)
      PROVE  UNCHANGED storageVars \/ Stops(p)
  <2>1. /\ UNCHANGED <<key, envelope, durable, doubled, starts, incidents>>
        /\ proc' = proc \/ Goto(p, "failed")
        /\ proc[p].at # "off"
    BY <1>4 DEF Relays, Bind, Fails, Goto
  <2> QED BY <1>1, <2>1 DEF storageVars
<1>5. ASSUME NEW p \in Procs, StoreFails(p) PROVE Stops(p)
  BY <1>1, <1>5 DEF StoreFails, Fails, Goto
<1>6. ASSUME NEW p \in Procs, Exit(p) \/ Kill(p) \/ Shutdown(p) PROVE Stops(p)
  BY <1>2, <1>6 DEF Exit, Kill, Shutdown
<1>7. ASSUME NEW p \in Procs, OperationFails(p) PROVE Stops(p) \/ Retries(p)
  <2>1. CASE proc[p].at = "wrap"
    <3>1. Goto(p, "create")
      BY <1>7, <2>1 DEF OperationFails
    <3> QED BY <1>7, <2>1, <3>1, GotoEffect
            DEF OperationFails, Incident, Retries, StorageTypeOK, Places
  <2>2. CASE proc[p].at # "wrap"
    BY <1>1, <1>7, <2>2 DEF OperationFails
  <2> QED BY <2>1, <2>2
<1> QED
  BY <1>3, <1>4, <1>5, <1>6, <1>7, Zenon DEF Next, StartStep, Environment

-----------------------------------------------------------------------------
(* THE KEY AND THE ENVELOPES                                               *)

(* One process at a time writes the key file, and nobody does once it is a *)
(* whole key; an envelope about to be stored is wrapped with that key,     *)
(* which is synced unless another process has yet to do so.                *)
KeyInv ==
  /\ \A p \in Procs :
       /\ proc[p].at = "write" => key.state = "empty" /\ ~key.synced
       /\ proc[p].at = "sync" => key.state = "full" /\ ~key.synced
       /\ proc[p].at \in {"verify", "persist"} =>
            /\ proc[p].env.version = "current"
            /\ key.state = "full" /\ key.value = proc[p].env.key
            /\ ~proc[p].env.borrowed => key.synced
  /\ \A p, q \in Procs :
       /\ proc[p].at \in {"write", "sync"}
       /\ proc[q].at \in {"write", "sync"}
       => p = q

(* What a step may do to the key file.                                     *)
LEMMA KeyChange ==
  ASSUME StorageTypeOK, KeyInv, Next
  PROVE  \/ key' = key
         \/ \E p \in Procs : CreateKey(p) /\ key.state = "absent"
         \/ \E p \in Procs : WriteKey(p) /\ key.state = "empty" /\ ~key.synced
         \/ \E p \in Procs : SyncKey(p)
         \/ PowerFails
<1>1. ASSUME NEW p \in Procs, StorageStep(p) \/ CheckFails(p)
      PROVE  \/ key' = key
             \/ CreateKey(p) /\ key.state = "absent"
             \/ WriteKey(p) /\ key.state = "empty" /\ ~key.synced
             \/ SyncKey(p)
  BY <1>1 DEF StorageStep, Check, Read, Open, WrapWithKey, WrapWithoutKey,
              CreateKey, WriteKey, Verify, Persist, SyncParent, KeyInv,
              CheckFails
<1> QED
  BY <1>1, StepKinds DEF storageVars, StartDaemon, Start, Stops, Retries

(* A whole key stays what it is, and a synced one survives a power cut.    *)
LEMMA KeyStays ==
  ASSUME StorageTypeOK, KeyInv, Next, key.state = "full",
         key.synced \/ ~PowerFails
  PROVE  /\ key'.state = "full" /\ key'.value = key.value
         /\ key.synced => key'.synced
<1>1. ASSUME NEW p \in Procs, SyncKey(p)
      PROVE  key'.state = "full" /\ key'.value = key.value /\ key'.synced
  BY <1>1, SyncKeyEffect
<1>2. CASE PowerFails
  BY <1>2, PowerCutEffect DEF PowerFails
<1> QED BY <1>1, <1>2, KeyChange

(* The places of the key writers and sealers, step by step.                *)
LEMMA KeyStep ==
  ASSUME StorageTypeOK, KeyInv, Next
  PROVE  KeyInv'
<1>1. ASSUME key' = key, NEW p \in Procs,
             \A q \in Procs \ {p} : proc'[q] = proc[q],
             proc'[p].at \in {"write", "sync", "verify", "persist"} =>
               proc'[p].at = proc[p].at /\ proc'[p].env = proc[p].env
      PROVE  KeyInv'
  BY <1>1 DEF KeyInv
<1>2. CASE UNCHANGED storageVars
  BY <1>2 DEF storageVars, KeyInv
<1>3. ASSUME NEW p \in Procs, Check(p) \/ CheckFails(p) PROVE KeyInv'
  BY <1>1, <1>3, CheckEffect DEF Check, CheckFails
<1>4. ASSUME NEW p \in Procs, Read(p) PROVE KeyInv'
  <2>1. /\ proc'[p].at \in {"open", "failed"} /\ key' = key
        /\ \A q \in Procs \ {p} : proc'[q] = proc[q]
    BY <1>4, ReadEffect DEF Read
  <2> QED BY <1>1, <2>1
<1>5. ASSUME NEW p \in Procs, Open(p) PROVE KeyInv'
  <2>1. PICK at \in {"failed", "wrap", "loaded"} : Goto(p, at)
    BY <1>5 DEF Open
  <2> QED BY <1>1, <1>5, <2>1, GotoEffect DEF Open, StorageTypeOK, Places
<1>6. ASSUME NEW p \in Procs, UseFoundKey(p), key' = key,
             proc[p].at \notin {"write", "sync"}
      PROVE  KeyInv'
  <2>1. CASE ~Usable
    BY <1>1, <1>6, <2>1, UseFoundKeyEffect
  <2>2. CASE Usable
    <3>1. /\ proc'[p].at \in {"verify", "persist"}
          /\ proc'[p].env = Sealed(p, FALSE)
          /\ \A q \in Procs \ {p} : proc'[q] = proc[q]
      BY <1>6, <2>2, UseFoundKeyEffect DEF AfterSealing
    <3>2. /\ proc'[p].env.version = "current"
          /\ key.state = "full" /\ key.value = proc'[p].env.key
          /\ ~proc'[p].env.borrowed => key.synced
      BY <2>2, <3>1, SealedType DEF Usable
    <3> QED BY <1>6, <3>1, <3>2 DEF KeyInv
  <2> QED BY <2>1, <2>2
<1>7. ASSUME NEW p \in Procs, WrapWithKey(p) PROVE KeyInv'
  BY <1>6, <1>7 DEF WrapWithKey
<1>8. ASSUME NEW p \in Procs, WrapWithoutKey(p) PROVE KeyInv'
  BY <1>1, <1>8, GotoEffect DEF WrapWithoutKey, StorageTypeOK, Places
<1>9. ASSUME NEW p \in Procs, CreateKey(p) PROVE KeyInv'
  <2>1. CASE UseFoundKey(p) /\ UNCHANGED key
    BY <1>6, <1>9, <2>1 DEF CreateKey
  <2>2. CASE /\ key.state = "absent"
             /\ key' = [NoKey EXCEPT !.state = "empty"]
             /\ Goto(p, "write")
    <3>1. /\ proc'[p].at = "write"
          /\ \A q \in Procs \ {p} : proc'[q] = proc[q]
      BY <2>2, GotoEffect DEF StorageTypeOK, Places
    <3>2. key'.state = "empty" /\ ~key'.synced
      BY <2>2 DEF NoKey
    <3>3. \A q \in Procs :
            proc[q].at \notin {"write", "sync", "verify", "persist"}
      BY <2>2 DEF KeyInv
    <3> QED BY <3>1, <3>2, <3>3 DEF KeyInv
  <2> QED BY <1>9, <2>1, <2>2 DEF CreateKey
<1>10. ASSUME NEW p \in Procs, WriteKey(p) PROVE KeyInv'
  <2>1. /\ proc'[p].at = "sync" /\ proc[p].at = "write"
        /\ \A q \in Procs \ {p} : proc'[q] = proc[q]
    BY <1>10, GotoEffect DEF WriteKey, StorageTypeOK, Places
  <2>2. key'.state = "full" /\ ~key'.synced
    BY <1>10 DEF WriteKey
  <2>3. \A q \in Procs \ {p} :
          proc[q].at \notin {"write", "sync", "verify", "persist"}
    BY <2>1 DEF KeyInv
  <2> QED BY <2>1, <2>2, <2>3 DEF KeyInv
<1>11. ASSUME NEW p \in Procs, SyncKey(p) PROVE KeyInv'
  <2>1. proc[p].at = "sync" /\ key.state = "full"
    BY <1>11 DEF SyncKey, KeyInv
  <2>2. /\ proc'[p].at \in {"verify", "persist"}
        /\ proc'[p].env = Sealed(p, TRUE)
        /\ \A q \in Procs \ {p} : proc'[q] = proc[q]
        /\ key'.synced /\ key'.state = "full" /\ key'.value = key.value
    BY <1>11, <2>1, SyncKeyEffect DEF AfterSealing
  <2>3. proc'[p].env.version = "current" /\ key'.value = proc'[p].env.key
    BY <2>2, SealedType
  <2>4. \A q \in Procs \ {p} : proc[q].at \notin {"write", "sync"}
    BY <2>1 DEF KeyInv
  <2> QED BY <2>2, <2>3, <2>4 DEF KeyInv
<1>12. ASSUME NEW p \in Procs, Verify(p) PROVE KeyInv'
  <2>1. proc[p].at = "verify"
    BY <1>12 DEF Verify
  <2>2. PICK at \in {"persist", "failed"} : Goto(p, at)
    BY <1>12 DEF Verify
  <2>3. /\ key' = key /\ proc'[p].at \in {"persist", "failed"}
        /\ proc'[p].env = proc[p].env
        /\ \A q \in Procs \ {p} : proc'[q] = proc[q]
    BY <1>12, <2>2, GotoEffect DEF Verify, StorageTypeOK, Places
  <2> QED BY <2>1, <2>3 DEF KeyInv
<1>13. ASSUME NEW p \in Procs, Persist(p) \/ SyncParent(p) PROVE KeyInv'
  BY <1>1, <1>13, GotoEffect DEF Persist, SyncParent, StorageTypeOK, Places
<1>14. ASSUME NEW p \in Procs, NEW s \in Settings, StartDaemon(p, s)
       PROVE  KeyInv'
  <2>1. PICK at \in {"check", "failed"} : Start(p, s.allow, at)
    BY <1>14 DEF StartDaemon
  <2>2. proc'[p].at = at /\ \A q \in Procs \ {p} : proc'[q] = proc[q]
    BY <2>1, StartEffect, SettingsAssumption DEF Places
  <2> QED BY <1>1, <2>1, <2>2 DEF Start
<1>15. ASSUME NEW p \in Procs, Stops(p) \/ Retries(p) PROVE KeyInv'
  BY <1>1, <1>15 DEF Stops, Retries, Off
<1>16. CASE PowerFails
  <2>1. \A q \in Procs : proc'[q].at = "off"
    BY <1>16, PowerCutEffect DEF PowerFails, Off
  <2> QED BY <2>1 DEF KeyInv
<1> QED
  BY <1>2, <1>3, <1>4, <1>5, <1>7, <1>8, <1>9, <1>10, <1>11, <1>12, <1>13,
     <1>14, <1>15, <1>16, StepKinds
  DEF StorageStep

(* What the identity file needs to be opened stays on disk.                *)
LEMMA OpensStep ==
  ASSUME StorageTypeOK, KeyInv, StoredIdentityOpens, Next
  PROVE  StoredIdentityOpens'
<1> DEFINE Safe(env) == env.version = "current" /\ env.key > 0 /\ ~env.borrowed
                          => /\ key.state = "full" /\ key.value = env.key
                             /\ key.synced
<1>1. ASSUME NEW env, Safe(env)
      PROVE  env.version = "current" /\ env.key > 0 /\ ~env.borrowed =>
               /\ key'.state = "full" /\ key'.value = env.key
               /\ key'.synced
  BY <1>1, KeyStays
<1>2. Safe(envelope) /\ Safe(durable)
  BY DEF StoredIdentityOpens, Opens, Usable
<1>3. \A p \in Procs : proc[p].at = "persist" => Safe(proc[p].env)
  BY DEF KeyInv
<1>4. ASSUME NEW p \in Procs, StorageStep(p) \/ CheckFails(p)
      PROVE  \/ UNCHANGED <<envelope, durable>>
             \/ proc[p].at = "persist" /\ envelope' = proc[p].env
                /\ durable' = durable
             \/ envelope' = envelope /\ durable' = envelope
  BY <1>4 DEF StorageStep, Check, Read, Open, WrapWithKey, WrapWithoutKey,
              CreateKey, WriteKey, SyncKey, Verify, Persist, SyncParent,
              CheckFails
<1>5. PowerFails => envelope' \in {envelope, durable} /\ durable' = envelope'
  BY DEF PowerFails, PowerCut
<1>6. Safe(envelope') /\ Safe(durable')
  BY <1>2, <1>3, <1>4, <1>5, StepKinds
  DEF storageVars, StartDaemon, Start, Stops, Retries
<1> HIDE DEF Safe
<1> QED BY <1>1, <1>6 DEF StoredIdentityOpens, Opens, Usable

-----------------------------------------------------------------------------
(* THE IDENTITY                                                            *)

(* Places between deciding to seal an envelope and storing it.             *)
Sealing == {"wrap", "create", "write", "sync", "verify", "persist"}

(* A start that found an identity, or has stored one, leaves one there.    *)
PlaceInv ==
  \A p \in Procs :
    /\ proc[p].fresh => proc[p].at \in Sealing \cup
                          {"syncdir", "loaded", "failed"}
    /\ proc[p].at = "syncdir" => envelope.version # "none"
    /\ ~proc[p].fresh /\ proc[p].at \in Sealing \cup {"read", "open"} =>
         envelope.version # "none"
    /\ proc[p].at # "off" => proc[p].start > 0

(* Unless an identity is generated beside another: a start that generates  *)
(* finds no identity until it has stored its own, and every other one      *)
(* works on the identity that is in the file.                              *)
KeepInv ==
  ~doubled =>
    /\ \A p, q \in Procs : Generating(p) /\ Generating(q) => p = q
    /\ \A p \in Procs :
         /\ proc[p].fresh /\ proc[p].at \in Sealing =>
              envelope.version = "none"
         /\ ~proc[p].fresh /\ proc[p].at \in Sealing \cup {"open"} =>
              proc[p].env.identity = envelope.identity
         /\ proc[p].fresh /\ proc[p].at = "syncdir" =>
              proc[p].env.identity = envelope.identity
         /\ /\ proc[p].fresh
            /\ proc[p].at = "loaded" \/ daemon[p].at # "none"
            => durable.version # "none"
               /\ proc[p].env.identity = durable.identity
    /\ durable.version # "none" => durable.identity = envelope.identity

(* A power cut does not bring back the time before the first identity once *)
(* one is durable; and an identity that never was durable was generated.   *)
DurableInv ==
  /\ \A env \in {envelope, durable} : env.version = "none" => env.identity = 0
  /\ durable.version # "none" => envelope.version # "none"
  /\ durable.version = "none" =>
       /\ envelope.version # "none" => envelope.identity > 0
       /\ \A p \in Procs :
            \/ proc[p].at \in Sealing \cup {"open", "syncdir", "loaded"}
            \/ daemon[p].at # "none"
            => proc[p].env.identity > 0

(* Only Persist and a power cut change the identity file.                  *)
LEMMA EnvelopeChange ==
  ASSUME StorageTypeOK, Next
  PROVE  \/ envelope' = envelope
         \/ \E p \in Procs : Persist(p)
         \/ PowerFails
<1>1. ASSUME NEW p \in Procs, StorageStep(p) \/ CheckFails(p)
      PROVE  envelope' = envelope \/ Persist(p)
  BY <1>1 DEF StorageStep, Check, Read, Open, WrapWithKey, WrapWithoutKey,
              CreateKey, WriteKey, SyncKey, Verify, SyncParent, CheckFails
<1> QED
  BY <1>1, StepKinds DEF storageVars, StartDaemon, Start, Stops, Retries

(* The file of an identity that is there is not removed, but by a power    *)
(* cut.                                                                    *)
LEMMA EnvelopeStays ==
  ASSUME StorageTypeOK, KeyInv, Next, envelope.version # "none", ~PowerFails
  PROVE  envelope'.version # "none"
BY EnvelopeChange DEF Persist, KeyInv

(* Seen from outside, a start begins ...                                   *)
Begins(p) ==
  /\ proc[p].at = "off" /\ proc'[p].at \in {"check", "failed"}
  /\ ~proc'[p].fresh /\ proc'[p].start > 0
  /\ proc'[p].env = NoEnvelope
  /\ UNCHANGED <<envelope, durable, doubled>>

(* ... does not see an identity and generates one, or finds one ...        *)
Generates(p) ==
  /\ proc[p].at = "check" /\ proc[p].allow
  /\ proc'[p].at = "wrap" /\ proc'[p].fresh
  /\ proc'[p].start = proc[p].start
  /\ proc'[p].env.identity = proc[p].start
  /\ doubled' = (\/ doubled
                 \/ envelope.version # "none"
                 \/ \E q \in Procs \ {p} : Generating(q))
  /\ UNCHANGED <<envelope, durable>>

Finds(p) ==
  /\ proc[p].at = "check" /\ envelope.version # "none"
  /\ proc'[p].at = "read"
  /\ proc'[p].fresh = proc[p].fresh /\ proc'[p].start = proc[p].start
  /\ UNCHANGED <<envelope, durable, doubled>>

(* ... reads it, opens it, seals it ...                                    *)
Reads(p) ==
  /\ proc[p].at = "read" /\ proc'[p].at = "open"
  /\ envelope.version \in {"legacy", "current"}
  /\ proc'[p].env = envelope
  /\ proc'[p].fresh = proc[p].fresh /\ proc'[p].start = proc[p].start
  /\ UNCHANGED <<envelope, durable, doubled>>

GoesOn(p) ==
  /\ \/ proc[p].at \in Sealing \cup {"open"} /\ proc'[p].at \in Sealing
     \/ proc[p].at = "open" /\ proc'[p].at = "loaded"
  /\ proc'[p].env.identity = proc[p].env.identity
  /\ proc'[p].fresh = proc[p].fresh /\ proc'[p].start = proc[p].start
  /\ UNCHANGED <<envelope, durable, doubled>>

(* ... stores it and makes that durable ...                                *)
Stores(p) ==
  /\ proc[p].at = "persist" /\ proc'[p].at = "syncdir"
  /\ envelope' = proc[p].env /\ envelope'.version = "current"
  /\ proc'[p].env = proc[p].env
  /\ proc'[p].fresh = proc[p].fresh /\ proc'[p].start = proc[p].start
  /\ UNCHANGED <<durable, doubled>>

MakesDurable(p) ==
  /\ proc[p].at = "syncdir" /\ proc'[p].at = "loaded"
  /\ durable' = envelope
  /\ proc'[p].env = proc[p].env
  /\ proc'[p].fresh = proc[p].fresh /\ proc'[p].start = proc[p].start
  /\ UNCHANGED <<envelope, doubled>>

(* ... or stops.                                                           *)
GivesUp(p) ==
  /\ \/ proc'[p] = Off
     \/ /\ proc[p].at # "off" /\ proc'[p].at = "failed"
        /\ proc'[p].env = proc[p].env \/ proc[p].at = "read"
        /\ proc'[p].fresh = proc[p].fresh /\ proc'[p].start = proc[p].start
  /\ UNCHANGED <<envelope, durable, doubled>>

Moves(p) ==
  /\ \A q \in Procs \ {p} : proc'[q] = proc[q]
  /\ \/ Begins(p) \/ Generates(p) \/ Finds(p) \/ Reads(p) \/ GoesOn(p)
     \/ Stores(p) \/ MakesDurable(p) \/ GivesUp(p)

(* Every step that changes the files or a start is one of these.           *)
LEMMA MoveKinds ==
  ASSUME StorageTypeOK, KeyInv, Next
  PROVE  \/ UNCHANGED storageVars
         \/ \E p \in Procs : Moves(p)
         \/ PowerFails
<1>1. ASSUME NEW p \in Procs, Check(p) \/ CheckFails(p) PROVE Moves(p)
  <2>1. /\ proc[p].at = "check" /\ UNCHANGED <<envelope, durable>>
        /\ \A q \in Procs \ {p} : proc'[q] = proc[q]
    BY <1>1, CheckEffect DEF Check, CheckFails
  <2> QED BY <1>1, <2>1, CheckEffect DEF Moves, Generates, Finds, GivesUp
<1>2. ASSUME NEW p \in Procs, Read(p) PROVE Moves(p)
  BY <1>2, ReadEffect DEF Read, Moves, Reads, GivesUp
<1>3. ASSUME NEW p \in Procs, Open(p) PROVE Moves(p)
  <2>1. PICK at \in {"failed", "wrap", "loaded"} : Goto(p, at)
    BY <1>3 DEF Open
  <2>2. at \in Places
    BY DEF Places
  <2> QED
    BY <1>3, <2>1, <2>2, GotoEffect
    DEF Open, Moves, GoesOn, GivesUp, Sealing, StorageTypeOK
<1>4. ASSUME NEW p \in Procs, UseFoundKey(p),
             proc[p].at \in {"wrap", "create"},
             UNCHANGED <<envelope, durable, doubled>>
      PROVE  Moves(p)
  <2>1. CASE ~Usable
    <3>1. /\ proc'[p].at = "failed"
          /\ proc'[p].env = proc[p].env
          /\ proc'[p].fresh = proc[p].fresh /\ proc'[p].start = proc[p].start
          /\ \A q \in Procs \ {p} : proc'[q] = proc[q]
      BY <1>4, <2>1, UseFoundKeyEffect DEF UseFoundKey, StorageTypeOK, Proc
    <3> QED BY <1>4, <3>1 DEF Moves, GivesUp
  <2>2. CASE Usable
    <3>1. proc'[p].at \in Sealing
      BY <1>4, <2>2, UseFoundKeyEffect DEF AfterSealing, Sealing
    <3> QED BY <1>4, <3>1, UseFoundKeyEffect DEF Moves, GoesOn, Sealing
  <2> QED BY <2>1, <2>2
<1>5. ASSUME NEW p \in Procs, WrapWithKey(p) PROVE Moves(p)
  BY <1>4, <1>5 DEF WrapWithKey
<1>6. ASSUME NEW p \in Procs, NEW at \in Sealing, Goto(p, at),
             proc[p].at \in Sealing, UNCHANGED <<envelope, durable, doubled>>
      PROVE  Moves(p)
  <2>1. at \in Places
    BY DEF Sealing, Places
  <2> QED
    BY <1>6, <2>1, GotoEffect DEF Moves, GoesOn, StorageTypeOK
<1>7. ASSUME NEW p \in Procs, WrapWithoutKey(p) PROVE Moves(p)
  BY <1>6, <1>7 DEF WrapWithoutKey, Sealing
<1>8. ASSUME NEW p \in Procs, CreateKey(p) PROVE Moves(p)
  <2>1. CASE Goto(p, "write")
    BY <1>6, <1>8, <2>1 DEF CreateKey, Sealing
  <2> QED BY <1>4, <1>8, <2>1 DEF CreateKey
<1>9. ASSUME NEW p \in Procs, WriteKey(p) PROVE Moves(p)
  BY <1>6, <1>9 DEF WriteKey, Sealing
<1>10. ASSUME NEW p \in Procs, SyncKey(p) PROVE Moves(p)
  <2>1. proc'[p].at \in Sealing /\ proc[p].at \in Sealing
    BY <1>10, SyncKeyEffect DEF SyncKey, AfterSealing, Sealing
  <2>2. proc'[p].env.identity = proc[p].env.identity
    BY <1>10, SyncKeyEffect, SealedType
  <2> QED BY <1>10, <2>1, <2>2, SyncKeyEffect DEF SyncKey, Moves, GoesOn
<1>11. ASSUME NEW p \in Procs, Verify(p) PROVE Moves(p)
  <2>1. CASE Goto(p, "persist")
    BY <1>6, <1>11, <2>1 DEF Verify, Sealing
  <2>2. CASE Goto(p, "failed")
    BY <1>11, <2>2, GotoEffect
    DEF Verify, Moves, GivesUp, StorageTypeOK, Places
  <2> QED BY <1>11, <2>1, <2>2 DEF Verify
<1>12. ASSUME NEW p \in Procs, Persist(p) PROVE Moves(p)
  <2>1. proc[p].env.version = "current"
    BY <1>12 DEF Persist, KeyInv
  <2> QED BY <1>12, <2>1, GotoEffect
          DEF Persist, Moves, Stores, StorageTypeOK, Places
<1>13. ASSUME NEW p \in Procs, SyncParent(p) PROVE Moves(p)
  BY <1>13, GotoEffect DEF SyncParent, Moves, MakesDurable, StorageTypeOK,
                           Places
<1>14. ASSUME NEW p \in Procs, NEW s \in Settings, StartDaemon(p, s)
       PROVE  Moves(p)
  <2>1. PICK at \in {"check", "failed"} : Start(p, s.allow, at)
    BY <1>14 DEF StartDaemon
  <2> QED
    BY <2>1, StartEffect, SettingsAssumption DEF Places, Moves, Begins, Start
<1>15. ASSUME NEW p \in Procs, Stops(p) PROVE Moves(p)
  BY <1>15 DEF Stops, Moves, GivesUp
<1>16. ASSUME NEW p \in Procs, Retries(p) PROVE Moves(p)
  BY <1>16 DEF Retries, Moves, GoesOn, Sealing
<1> QED
  BY <1>1, <1>2, <1>3, <1>5, <1>7, <1>8, <1>9, <1>10, <1>11, <1>12, <1>13,
     <1>14, <1>15, <1>16, StepKinds
  DEF StorageStep

(* A process comes to open its store only with its identity loaded.        *)
LEMMA DaemonComes ==
  ASSUME StorageTypeOK, DaemonTypes, DaemonInv, Next,
         NEW p \in Procs, daemon'[p].at # "none"
  PROVE  /\ proc'[p].at \in {"loaded", "failed"}
         /\ \/ daemon[p].at # "none"
            \/ proc[p].at = "loaded" /\ UNCHANGED storageVars
<1>1. proc'[p].at \in {"loaded", "failed"}
  BY DaemonStep DEF DaemonInv
<1>2. ASSUME NEW q \in Procs, New(q)
      PROVE  \/ daemon[p].at # "none"
             \/ proc[p].at = "loaded" /\ UNCHANGED storageVars
  BY <1>2, DaemonEffect DEF New
<1>3. ASSUME NEW q \in Procs, Relays(q) \/ Bind(q) PROVE daemon[p].at # "none"
  <2>1. /\ daemon[q].at # "none"
        /\ \A d \in Procs \ {q} : daemon'[d] = daemon[d]
    BY <1>3 DEF Relays, Bind, DaemonTypes
  <2> QED BY <2>1
<1>4. ASSUME NEW q \in Procs, Gone(q) PROVE daemon[p].at # "none"
  BY <1>4, GoneEffect
<1>5. CASE UNCHANGED daemon
  BY <1>1, <1>5
<1>6. ASSUME NEW q \in Procs, NEW s \in Settings, StartDaemon(q, s)
      PROVE  daemon[p].at # "none"
  BY <1>6 DEF StartDaemon, DaemonTypes, Daemon
<1>7. CASE PowerFails
  BY <1>7 DEF PowerFails, NoDaemon
<1>8. ASSUME NEW q \in Procs, PresenceStep(q) \/ StoreFails(q)
      PROVE  UNCHANGED daemon
  BY <1>8 DEF PresenceStep, Connected, PublishProfile, PublishHandler,
              StoreFails, startVars
<1> QED
  BY <1>1, <1>2, <1>3, <1>4, <1>5, <1>6, <1>7, <1>8
  DEF Next, StartStep, Environment, Shutdown, startVars

(* A start that works on an identity has one before it.                    *)
LEMMA PlaceStep ==
  ASSUME StorageTypeOK, KeyInv, PlaceInv, Next
  PROVE  PlaceInv'
<1>1. CASE UNCHANGED storageVars
  BY <1>1 DEF storageVars, PlaceInv
<1>2. CASE PowerFails
  <2>1. \A q \in Procs : proc'[q].at = "off" /\ ~proc'[q].fresh
    BY <1>2, PowerCutEffect DEF PowerFails, Off
  <2> QED BY <2>1 DEF PlaceInv, Sealing
<1>3. ASSUME NEW p \in Procs, Moves(p), ~PowerFails PROVE PlaceInv'
  <2>1. envelope.version # "none" => envelope'.version # "none"
    BY <1>3, EnvelopeStays
  <2>2. \A q \in Procs \ {p} : proc'[q] = proc[q]
    BY <1>3 DEF Moves
  <2>3. /\ proc'[p].fresh => proc'[p].at \in Sealing \cup
                               {"syncdir", "loaded", "failed"}
        /\ proc'[p].at = "syncdir" => envelope'.version # "none"
        /\ ~proc'[p].fresh /\ proc'[p].at \in Sealing \cup {"read", "open"} =>
             envelope'.version # "none"
        /\ proc'[p].at # "off" => proc'[p].start > 0
    <3>1. CASE Begins(p)
      BY <3>1 DEF Begins, Sealing
    <3>2. CASE Generates(p)
      BY <3>2 DEF Generates, PlaceInv, Sealing
    <3>3. CASE Finds(p) \/ Reads(p)
      BY <3>3 DEF Finds, Reads, PlaceInv, Sealing
    <3>4. CASE GoesOn(p)
      BY <3>4 DEF GoesOn, PlaceInv, Sealing
    <3>5. CASE Stores(p) \/ MakesDurable(p)
      BY <3>5 DEF Stores, MakesDurable, PlaceInv, Sealing
    <3>6. CASE GivesUp(p)
      BY <3>6 DEF GivesUp, PlaceInv, Sealing, Off
    <3> QED BY <1>3, <3>1, <3>2, <3>3, <3>4, <3>5, <3>6 DEF Moves
  <2> QED BY <2>1, <2>2, <2>3 DEF PlaceInv
<1> QED BY <1>1, <1>2, <1>3, MoveKinds

(* Nothing is made of an identity that is not in the file.                 *)
LEMMA DurableStep ==
  ASSUME StorageTypeOK, DaemonTypes, DaemonInv, KeyInv, PlaceInv, DurableInv,
         Next
  PROVE  DurableInv'
<1>d. \A p \in Procs : daemon'[p].at # "none" =>
        /\ proc'[p].at \in {"loaded", "failed"}
        /\ daemon[p].at # "none" \/ proc[p].at = "loaded"
  BY DaemonComes
<1>1. CASE UNCHANGED storageVars
  BY <1>1, <1>d DEF storageVars, DurableInv
<1>2. CASE PowerFails
  <2>1. /\ \A q \in Procs : proc'[q].at = "off"
        /\ envelope' \in {envelope, durable} /\ durable' = envelope'
    BY <1>2, PowerCutEffect DEF PowerFails, Off
  <2> QED BY <1>d, <2>1 DEF DurableInv, Sealing
<1>3. ASSUME NEW p \in Procs, Moves(p), ~PowerFails PROVE DurableInv'
  <2>1. envelope.version # "none" => envelope'.version # "none"
    BY <1>3, EnvelopeStays
  <2>2. \A q \in Procs \ {p} : proc'[q] = proc[q]
    BY <1>3 DEF Moves
  <2>3. CASE Begins(p)
    BY <1>d, <2>2, <2>3 DEF Begins, DurableInv, DaemonInv, Sealing
  <2>4. CASE Generates(p)
    BY <1>d, <2>2, <2>4 DEF Generates, DurableInv, PlaceInv, Sealing
  <2>5. CASE Finds(p)
    BY <1>d, <2>2, <2>5 DEF Finds, DurableInv, Sealing
  <2>6. CASE Reads(p)
    BY <1>d, <2>2, <2>6 DEF Reads, DurableInv, PlaceInv, Sealing
  <2>7. CASE GoesOn(p)
    BY <1>d, <2>2, <2>7 DEF GoesOn, DurableInv, Sealing
  <2>8. CASE Stores(p)
    BY <1>d, <2>2, <2>8 DEF Stores, DurableInv, Sealing
  <2>9. CASE MakesDurable(p)
    BY <1>d, <2>2, <2>9 DEF MakesDurable, PlaceInv, DurableInv, Sealing
  <2>10. CASE GivesUp(p)
    BY <1>d, <2>2, <2>10 DEF GivesUp, DurableInv, DaemonInv, Sealing, Off
  <2> QED
    BY <1>3, <2>3, <2>4, <2>5, <2>6, <2>7, <2>8, <2>9, <2>10 DEF Moves
<1> QED BY <1>1, <1>2, <1>3, MoveKinds

(* That an identity was generated beside another is not forgotten.         *)
LEMMA DoubledStays ==
  ASSUME StorageTypeOK, KeyInv, Next, ~doubled'
  PROVE  ~doubled
BY MoveKinds, PowerCutEffect
DEF storageVars, PowerFails, Moves, Begins, Generates, Finds, Reads, GoesOn,
    Stores, MakesDurable, GivesUp, StorageTypeOK

(* Until then the identity in the file is the one everybody works on.      *)
LEMMA KeepStep ==
  ASSUME StorageTypeOK, DaemonTypes, DaemonInv, KeyInv, PlaceInv, DurableInv,
         KeepInv, Next
  PROVE  KeepInv'
<1> SUFFICES ASSUME ~doubled' PROVE KeepInv'
  BY DEF KeepInv
<1> USE DoubledStays
<1>d. \A p \in Procs : daemon'[p].at # "none" =>
        /\ proc'[p].at \in {"loaded", "failed"}
        /\ daemon[p].at # "none" \/ proc[p].at = "loaded"
  BY DaemonComes
<1>g. Sealing \cap {"off", "loaded", "failed", "check", "read", "open",
                    "syncdir"} = {}
  BY DEF Sealing
<1>1. CASE UNCHANGED storageVars
  BY <1>1, <1>d DEF storageVars, KeepInv, Generating
<1>2. CASE PowerFails
  <2>1. /\ \A q \in Procs : proc'[q].at = "off" /\ ~proc'[q].fresh
        /\ durable' = envelope'
    BY <1>2, PowerCutEffect DEF PowerFails, Off
  <2> QED BY <1>d, <1>g, <2>1 DEF KeepInv, Generating
<1>3. ASSUME NEW p \in Procs, Moves(p), ~PowerFails PROVE KeepInv'
  <2>2. \A q \in Procs \ {p} : proc'[q] = proc[q]
    BY <1>3 DEF Moves
  <2>3. CASE Begins(p)
    BY <1>d, <1>g, <2>2, <2>3 DEF Begins, KeepInv, Generating
  <2>4. CASE Generates(p)
    <3>1. /\ envelope.version = "none"
          /\ \A q \in Procs \ {p} : ~Generating(q)
      BY <2>4 DEF Generates, StorageTypeOK
    <3>2. \A q \in Procs \ {p} : ~Generating(q)'
      BY <2>2, <3>1 DEF Generating
    <3> QED BY <1>d, <1>g, <2>2, <2>4, <3>1, <3>2 DEF Generates, KeepInv
  <2>5. CASE Finds(p)
    BY <1>d, <1>g, <2>2, <2>5 DEF Finds, KeepInv, Generating
  <2>6. CASE Reads(p)
    BY <1>d, <1>g, <2>2, <2>6 DEF Reads, KeepInv, PlaceInv, Generating
  <2>7. CASE GoesOn(p)
    BY <1>d, <1>g, <2>2, <2>7 DEF GoesOn, KeepInv, PlaceInv, Generating
  <2>8. CASE Stores(p)
    <3>1. CASE proc[p].fresh
      <4>1. envelope.version = "none" /\ durable.version = "none"
        BY <2>8, <3>1 DEF Stores, KeepInv, Sealing, DurableInv
      <4> QED
        BY <1>d, <1>g, <2>2, <2>8, <3>1, <4>1
        DEF Stores, KeepInv, PlaceInv, Generating
    <3>2. CASE ~proc[p].fresh
      <4>1. envelope'.identity = envelope.identity /\ envelope.version # "none"
        BY <2>8, <3>2 DEF Stores, KeepInv, PlaceInv, Sealing
      <4> QED
        BY <1>d, <1>g, <2>2, <2>8, <3>2, <4>1
        DEF Stores, KeepInv, PlaceInv, Generating
    <3> QED BY <3>1, <3>2
  <2>9. CASE MakesDurable(p)
    BY <1>d, <1>g, <2>2, <2>9 DEF MakesDurable, KeepInv, PlaceInv, Generating
  <2>10. CASE GivesUp(p)
    BY <1>d, <1>g, <2>2, <2>10 DEF GivesUp, KeepInv, DaemonInv, Generating, Off
  <2> QED
    BY <1>3, <2>3, <2>4, <2>5, <2>6, <2>7, <2>8, <2>9, <2>10 DEF Moves
<1> QED BY <1>1, <1>2, <1>3, MoveKinds

(* The identity in the file is kept until one is generated beside it.      *)
LEMMA IdentityStep ==
  ASSUME StorageTypeOK, KeyInv, PlaceInv, KeepInv, Next,
         envelope.version # "none", ~doubled'
  PROVE  envelope'.version = "none" \/ envelope'.identity = envelope.identity
<1>1. ~doubled
  BY DoubledStays
<1>2. ASSUME NEW p \in Procs, Persist(p)
      PROVE  envelope'.identity = envelope.identity
  BY <1>1, <1>2 DEF Persist, KeepInv, PlaceInv, Sealing
<1>3. ASSUME PowerFails
      PROVE  envelope'.version = "none"
               \/ envelope'.identity = envelope.identity
  BY <1>1, <1>3, PowerCutEffect DEF PowerFails, KeepInv
<1> QED BY <1>2, <1>3, EnvelopeChange

(* An announced identity is durable, and stays.                            *)
LEMMA AnnouncedStep ==
  ASSUME StorageTypeOK, DaemonTypes, DaemonInv, KeyInv, PlaceInv, DurableInv,
         KeepInv, AnnouncedIdentityIsKept, Next
  PROVE  AnnouncedIdentityIsKept'
<1> SUFFICES ASSUME ~doubled'
             PROVE  \A i \in announced' : \A env \in {envelope', durable'} :
                      env.version # "none" /\ env.identity = i
  BY DEF AnnouncedIdentityIsKept
<1>1. ~doubled
  BY DoubledStays
<1>2. ASSUME NEW p \in Procs, PublishProfile(p), Backed(p)
      PROVE  \A env \in {envelope, durable} :
               env.version # "none" /\ env.identity = Identity(p)
  <2>1. daemon[p].at # "none"
    BY <1>2 DEF PublishProfile, DaemonInv
  <2>2. durable.version # "none" /\ durable.identity = Identity(p)
    <3>1. CASE proc[p].fresh
      BY <1>1, <2>1, <3>1 DEF KeepInv, Identity
    <3>2. CASE durable.identity = Identity(p)
      BY <2>1, <3>2 DEF DurableInv, Identity
    <3> QED BY <1>2, <3>1, <3>2 DEF Backed
  <2>3. envelope.version # "none" /\ envelope.identity = Identity(p)
    BY <1>1, <2>2 DEF KeepInv, DurableInv
  <2> QED BY <2>2, <2>3
<1>3. ASSUME NEW p \in Procs, PublishProfile(p)
      PROVE  \A i \in announced' : \A env \in {envelope', durable'} :
               env.version # "none" /\ env.identity = i
  <2>1. UNCHANGED <<envelope, durable>>
    BY <1>3 DEF PublishProfile, storageVars
  <2>2. \A i \in announced' :
          i \in announced \/ (Backed(p) /\ i = Identity(p))
    BY <1>3 DEF PublishProfile
  <2>3. \A i \in announced : \A env \in {envelope, durable} :
          env.version # "none" /\ env.identity = i
    BY <1>1 DEF AnnouncedIdentityIsKept
  <2> QED BY <1>2, <1>3, <2>1, <2>2, <2>3
<1>4. ASSUME announced' = announced
      PROVE  \A i \in announced' : \A env \in {envelope', durable'} :
               env.version # "none" /\ env.identity = i
  <2> SUFFICES ASSUME NEW i \in announced
               PROVE  \A env \in {envelope', durable'} :
                        env.version # "none" /\ env.identity = i
    BY <1>4
  <2>1. /\ envelope.version # "none" /\ envelope.identity = i
        /\ durable.version # "none" /\ durable.identity = i
    BY <1>1 DEF AnnouncedIdentityIsKept
  <2>2. CASE UNCHANGED storageVars
    BY <2>1, <2>2 DEF storageVars
  <2>3. CASE PowerFails
    BY <2>1, <2>3, PowerCutEffect DEF PowerFails
  <2>4. ASSUME NEW p \in Procs, Moves(p)
        PROVE  \A env \in {envelope', durable'} :
                 env.version # "none" /\ env.identity = i
    <3>1. CASE Stores(p)
      <4>1. ~proc[p].fresh
        BY <1>1, <2>1, <3>1 DEF Stores, KeepInv, Sealing
      <4> QED BY <1>1, <2>1, <3>1, <4>1 DEF Stores, KeepInv, Sealing
    <3>2. CASE MakesDurable(p)
      BY <2>1, <3>2 DEF MakesDurable
    <3>3. CASE UNCHANGED <<envelope, durable>>
      BY <2>1, <3>3
    <3> QED
      BY <2>4, <3>1, <3>2, <3>3
      DEF Moves, Begins, Generates, Finds, Reads, GoesOn, GivesUp
  <2> QED BY <2>2, <2>3, <2>4, MoveKinds
<1>5. announced' = announced \/ \E p \in Procs : PublishProfile(p)
  BY DEF Next, StartStep, PresenceStep, Environment, startVars, New, Relays,
         Bind, Gone, Connected, PublishHandler, StartDaemon, StoreFails,
         Shutdown, PowerFails
<1> QED BY <1>3, <1>4, <1>5

-----------------------------------------------------------------------------
(* CLEAN STARTS                                                            *)

(* An identity whose key was missing from the beginning.                   *)
Broken == envelope.version = "current" /\ key.state = "absent"

(* A start does not work on an identity of an unknown format, and has none *)
(* in hand before it has looked for one; and while nothing has failed,     *)
(* a key file that is not whole is being written, and  *)
(* what is to be opened can be opened, unless its key was missing from the *)
(* beginning.                                                              *)
CleanInv ==
  /\ envelope.version = "unknown" /\ ~doubled =>
       \A p \in Procs : proc[p].at \notin Sealing \cup {"open"}
  /\ \A p \in Procs : proc[p].at = "check" => proc[p].env = NoEnvelope
  /\ incidents = 0 /\ ~doubled =>
       /\ key.state = "empty" => \E p \in Procs : proc[p].at = "write"
       /\ envelope.version \in {"legacy", "current"} =>
            Opens(envelope) \/ Broken
       /\ \A p \in Procs :
            /\ proc[p].at = "open" =>
                 \/ Opens(proc[p].env)
                 \/ Broken /\ proc[p].env.version = "current"
            /\ ~proc[p].fresh /\ proc[p].at \in Sealing => Usable

(* The reasons for which a start may fail.                                 *)
Excused(p) ==
  \/ ~validate(daemon[p].settings)
  \/ daemon[p].settings.relays = "malformed"
  \/ ~proc[p].allow /\ proc[p].env = NoEnvelope
  \/ daemon[p].at = "bind"
  \/ envelope.version = "unknown"
  \/ Broken

(* While nothing fails, who is writing the key goes on to write it.        *)
LEMMA WriterStays ==
  ASSUME StorageTypeOK, DaemonInv, Next, incidents' = incidents,
         NEW q \in Procs, proc[q].at = "write"
  PROVE  proc'[q].at = "write" \/ WriteKey(q)
<1>1. ~Incident
  BY DEF Incident, StorageTypeOK
<1>2. ASSUME NEW p \in Procs, \A r \in Procs \ {p} : proc'[r] = proc[r],
             p = q => WriteKey(p)
      PROVE  proc'[q].at = "write" \/ WriteKey(q)
  BY <1>2
<1>3. ASSUME NEW p \in Procs, StorageStep(p)
      PROVE  proc'[q].at = "write" \/ WriteKey(q)
  <2>1. \A r \in Procs \ {p} : proc'[r] = proc[r]
    BY <1>3 DEF StorageStep, Check, Read, Open, WrapWithKey, WrapWithoutKey,
                CreateKey, WriteKey, SyncKey, Verify, Persist, SyncParent,
                Generate, Goto, UseFoundKey,
                StorageTypeOK
  <2>2. p = q => WriteKey(p)
    BY <1>3 DEF StorageStep, Check, Read, Open, WrapWithKey, WrapWithoutKey,
                CreateKey, SyncKey, Verify, Persist, SyncParent
  <2> QED BY <1>2, <2>1, <2>2
<1>4. ASSUME NEW p \in Procs, p # q, \E x : proc' = [proc EXCEPT ![p] = x]
      PROVE  proc'[q].at = "write" \/ WriteKey(q)
  BY <1>4 DEF StorageTypeOK
<1>5. CASE UNCHANGED proc
  BY <1>5
<1>6. ASSUME NEW p \in Procs, New(p) \/ PresenceStep(p) PROVE UNCHANGED proc
  BY <1>6 DEF New, PresenceStep, Connected, PublishProfile, PublishHandler,
              storageVars
<1>7. ASSUME NEW p \in Procs, Relays(p) \/ Bind(p) \/ Exit(p) \/ Shutdown(p)
      PROVE  proc'[q].at = "write" \/ WriteKey(q)
  <2>1. p # q
    BY <1>7 DEF Relays, Bind, Exit, Shutdown, DaemonInv
  <2>2. UNCHANGED proc \/ \E x : proc' = [proc EXCEPT ![p] = x]
    BY <1>7 DEF Relays, Bind, Exit, Shutdown, Fails, Ends
  <2> QED BY <1>4, <1>5, <2>1, <2>2
<1>8. ASSUME NEW p \in Procs, NEW s \in Settings, StartDaemon(p, s)
      PROVE  proc'[q].at = "write" \/ WriteKey(q)
  <2>1. p # q /\ \E x : proc' = [proc EXCEPT ![p] = x]
    BY <1>8 DEF StartDaemon, Start
  <2> QED BY <1>4, <2>1
<1>9. /\ ~PowerFails
      /\ \A p \in Procs : /\ ~OperationFails(p) /\ ~CheckFails(p)
                         /\ ~StoreFails(p) /\ ~Kill(p)
  BY <1>1 DEF PowerFails, PowerCut, OperationFails, CheckFails, StoreFails,
              Kill
<1> QED
  BY <1>3, <1>5, <1>6, <1>7, <1>8, <1>9 DEF Next, StartStep, Environment

(* A whole key file stays usable, and what it opens it opens still, as     *)
(* long as the power does not fail.                                        *)
LEMMA UsableStays ==
  ASSUME StorageTypeOK, KeyInv, Next, ~PowerFails
  PROVE  /\ Usable => Usable'
         /\ \A env : Opens(env) => Usable' /\ key'.value = env.key
BY KeyStays DEF Usable, Opens

(* Nothing repairs an identity whose key is missing, and nothing changes   *)
(* it; nor one of an unknown format.                                       *)
LEMMA BrokenStays ==
  ASSUME StorageTypeOK, KeyInv, PlaceInv, KeepInv, CleanInv, Next,
         incidents = 0, ~doubled, ~PowerFails
  PROVE  /\ Broken => Broken'
         /\ envelope.version = "unknown" => envelope'.version = "unknown"
<1>1. ASSUME Broken PROVE Broken'
  <2>1. envelope.version = "current" /\ key.state = "absent"
    BY <1>1 DEF Broken
  <2>2. ASSUME NEW p \in Procs, CreateKey(p) PROVE FALSE
    <3>1. proc[p].at \in Sealing
      BY <2>2 DEF CreateKey, Sealing
    <3>2. proc[p].fresh => envelope.version = "none"
      BY <3>1 DEF KeepInv
    <3>3. ~proc[p].fresh => Usable
      BY <3>1 DEF CleanInv
    <3> QED BY <2>1, <3>2, <3>3 DEF Usable
  <2>3. ASSUME NEW p \in Procs, SyncKey(p) PROVE FALSE
    BY <2>1, <2>3 DEF SyncKey, KeyInv
  <2>4. key' = key
    BY <2>1, <2>2, <2>3, KeyChange
  <2>5. envelope' = envelope
    BY <2>1, EnvelopeChange DEF Persist, KeyInv
  <2> QED BY <2>1, <2>4, <2>5 DEF Broken
<1>2. ASSUME envelope.version = "unknown", NEW p \in Procs, Persist(p)
      PROVE  FALSE
  BY <1>2 DEF Persist, CleanInv, Sealing
<1> QED BY <1>1, <1>2, EnvelopeChange

(* A start that has not looked for an identity has none in hand.           *)
LEMMA LookStep ==
  ASSUME StorageTypeOK, KeyInv, CleanInv, Next,
         NEW p \in Procs, proc'[p].at = "check"
  PROVE  proc'[p].env = NoEnvelope
<1>1. CASE UNCHANGED storageVars
  BY <1>1 DEF storageVars, CleanInv
<1>2. CASE PowerFails
  BY <1>2, PowerCutEffect DEF PowerFails, Off
<1>3. ASSUME NEW q \in Procs, Moves(q) PROVE proc'[p].env = NoEnvelope
  <2>1. CASE q = p
    <3>1. ~(Generates(p) \/ Finds(p) \/ Reads(p))
      BY DEF Generates, Finds, Reads
    <3>2. ~(GoesOn(p) \/ Stores(p) \/ MakesDurable(p))
      BY DEF GoesOn, Stores, MakesDurable, Sealing
    <3>3. ~GivesUp(p)
      BY DEF GivesUp, Off
    <3> QED BY <1>3, <2>1, <3>1, <3>2, <3>3 DEF Moves, Begins
  <2>2. CASE q # p
    BY <1>3, <2>2 DEF Moves, CleanInv
  <2> QED BY <2>1, <2>2
<1> QED BY <1>1, <1>2, <1>3, MoveKinds

(* A start does not come to work on an identity of an unknown format.      *)
LEMMA UnknownStep ==
  ASSUME StorageTypeOK, KeyInv, CleanInv, Next,
         envelope'.version = "unknown", ~doubled', NEW p \in Procs
  PROVE  proc'[p].at \notin Sealing \cup {"open"}
<1>d. ~doubled
  BY DoubledStays
<1>1. CASE UNCHANGED storageVars
  BY <1>d, <1>1 DEF storageVars, CleanInv
<1>2. CASE PowerFails
  BY <1>2, PowerCutEffect DEF PowerFails, Off, Sealing
<1>3. ASSUME NEW q \in Procs, Moves(q)
      PROVE  proc'[p].at \notin Sealing \cup {"open"}
  <2>1. ~Stores(q) /\ \A r \in Procs \ {q} : proc'[r] = proc[r]
    BY <1>3 DEF Moves, Stores
  <2>2. envelope' = envelope
    BY <1>3, <2>1 DEF Moves, Begins, Generates, Finds, Reads, GoesOn,
                      MakesDurable, GivesUp
  <2>3. \A r \in Procs : proc[r].at \notin Sealing \cup {"open"}
    BY <1>d, <2>2 DEF CleanInv
  <2>4. proc'[q].at \notin Sealing \cup {"open"}
    <3>1. ~Generates(q) /\ ~Reads(q)
      BY <2>2 DEF Generates, Reads
    <3>2. ~GoesOn(q)
      BY <2>3 DEF GoesOn
    <3>3. CASE GivesUp(q)
      BY <3>3 DEF GivesUp, Sealing, Off
    <3>4. CASE Begins(q) \/ Finds(q) \/ MakesDurable(q)
      BY <3>4 DEF Begins, Finds, MakesDurable, Sealing
    <3> QED BY <1>3, <2>1, <3>1, <3>2, <3>3, <3>4 DEF Moves
  <2> QED BY <2>1, <2>3, <2>4
<1> QED BY <1>1, <1>2, <1>3, MoveKinds

(* What a start that seals an old identity, or opens one, relies on.       *)
LEMMA OpenStep ==
  ASSUME StorageTypeOK, DaemonInv, KeyInv, PlaceInv, KeepInv, CleanInv, Next,
         incidents = 0, ~doubled, ~PowerFails, NEW p \in Procs
  PROVE  /\ proc'[p].at = "open" =>
              \/ Usable' /\ key'.value = proc'[p].env.key
              \/ Broken' /\ proc'[p].env.version = "current"
         /\ ~proc'[p].fresh /\ proc'[p].at \in Sealing => Usable'
<1> DEFINE Good == /\ proc'[p].at = "open" =>
                        \/ Usable' /\ key'.value = proc'[p].env.key
                        \/ Broken' /\ proc'[p].env.version = "current"
                   /\ ~proc'[p].fresh /\ proc'[p].at \in Sealing => Usable'
<1>1. /\ proc[p].at = "open" =>
           \/ Opens(proc[p].env)
           \/ Broken /\ proc[p].env.version = "current"
      /\ ~proc[p].fresh /\ proc[p].at \in Sealing => Usable
      /\ envelope.version \in {"legacy", "current"} =>
           Opens(envelope) \/ Broken
  BY DEF CleanInv
<1>2. ASSUME proc'[p] = proc[p] PROVE Good
  BY <1>1, <1>2, UsableStays, BrokenStays
<1>3. ASSUME Reads(p) PROVE Good
  <2>1. \/ Opens(proc'[p].env)
        \/ Broken /\ proc'[p].env.version = "current"
    BY <1>1, <1>3 DEF Reads, Broken
  <2>2. proc'[p].at \notin Sealing
    BY <1>3 DEF Reads, Sealing
  <2> QED BY <2>1, <2>2, UsableStays, BrokenStays
<1>4. ASSUME GoesOn(p), proc[p].at # "open" PROVE Good
  <2>1. /\ proc'[p].at \in Sealing /\ proc[p].at \in Sealing
        /\ proc'[p].fresh = proc[p].fresh /\ proc'[p].at # "open"
    BY <1>4 DEF GoesOn, Sealing
  <2> QED BY <1>1, <2>1, UsableStays
<1>5. ASSUME Open(p) PROVE Good
  <2>1. PICK at \in {"failed", "wrap", "loaded"} :
          Goto(p, at) /\ (at = "wrap" => Opens(proc[p].env))
    BY <1>5 DEF Open
  <2>2. at \in Places
    BY DEF Places
  <2>3. proc'[p].at = at
    BY <2>1, <2>2, GotoEffect DEF StorageTypeOK
  <2> QED BY <2>1, <2>3, UsableStays DEF Sealing
<1>6. ASSUME ~(proc'[p].at \in Sealing \cup {"open"}
                 /\ (proc'[p].fresh => proc'[p].at = "open"))
      PROVE  Good
  BY <1>6 DEF Sealing
<1>7. ASSUME NEW q \in Procs, Moves(q) PROVE Good
  <2>1. CASE q # p
    BY <1>2, <1>7, <2>1 DEF Moves
  <2>2. CASE q = p
    <3>1. CASE Begins(p) \/ Generates(p) \/ Finds(p) \/ Stores(p)
               \/ MakesDurable(p) \/ GivesUp(p)
      <4>1. CASE Generates(p)
        BY <1>6, <4>1 DEF Generates
      <4>2. CASE GivesUp(p)
        BY <1>6, <4>2 DEF GivesUp, Sealing, Off
      <4>3. CASE Begins(p) \/ Finds(p) \/ Stores(p) \/ MakesDurable(p)
        BY <1>6, <4>3 DEF Begins, Finds, Stores, MakesDurable, Sealing
      <4> QED BY <3>1, <4>1, <4>2, <4>3
    <3>2. CASE GoesOn(p) /\ proc[p].at = "open"
      <4>1. Open(p) \/ proc'[p] = proc[p] \/ proc'[p] = Off
              \/ proc'[p].at = "failed"
        <5>1. ASSUME NEW r \in Procs, StorageStep(r) \/ CheckFails(r)
              PROVE  Open(p) \/ proc'[p] = proc[p]
          <6>1. r = p => Open(p)
            BY <3>2, <5>1 DEF StorageStep, Check, Read, WrapWithKey,
                  WrapWithoutKey, CreateKey, WriteKey, SyncKey, Verify,
                  Persist, SyncParent, CheckFails
          <6>2. \A x \in Procs \ {r} : proc'[x] = proc[x]
            BY <5>1 DEF StorageStep, Check, Read, Open, WrapWithKey,
                  WrapWithoutKey, CreateKey, WriteKey, SyncKey, Verify,
                  Persist, SyncParent, CheckFails, Generate, Goto,
                  UseFoundKey, StorageTypeOK
          <6> QED BY <6>1, <6>2
        <5>2. ASSUME NEW r \in Procs, NEW s \in Settings, StartDaemon(r, s)
              PROVE  proc'[p] = proc[p]
          BY <3>2, <5>2 DEF StartDaemon, Start, StorageTypeOK
        <5>3. ASSUME NEW r \in Procs, Stops(r) \/ Retries(r)
              PROVE  proc'[p] = proc[p] \/ proc'[p] = Off
                       \/ proc'[p].at = "failed"
          BY <3>2, <5>3 DEF Stops, Retries
        <5> QED BY <5>1, <5>2, <5>3, StepKinds DEF storageVars
      <4>2. proc'[p] = Off \/ proc'[p].at = "failed" => Good
        BY <1>6 DEF Off, Sealing
      <4> QED BY <1>2, <1>5, <4>1, <4>2
    <3> QED BY <1>3, <1>4, <1>7, <2>2, <3>1, <3>2 DEF Moves
  <2> QED BY <2>1, <2>2
<1>8. CASE UNCHANGED storageVars
  BY <1>2, <1>8 DEF storageVars
<1> QED BY <1>7, <1>8, MoveKinds

(* Incidents are only counted up.                                          *)
LEMMA IncidentsGrow ==
  ASSUME StorageTypeOK, Next
  PROVE  incidents' \in {incidents, incidents + 1}
<1>1. ASSUME NEW p \in Procs, StorageStep(p) PROVE incidents' = incidents
  BY <1>1 DEF StorageStep, Check, Read, Open, WrapWithKey, WrapWithoutKey,
        CreateKey, WriteKey, SyncKey, Verify, Persist, SyncParent
<1>2. ASSUME NEW p \in Procs, CheckFails(p) PROVE incidents' = incidents + 1
  BY <1>2 DEF CheckFails, Incident
<1> QED BY <1>1, <1>2, StepKinds, PowerCutEffect
        DEF storageVars, StartDaemon, Start, Stops, Retries, PowerFails

(* While nothing fails and nobody generates beside another, keys and       *)
(* envelopes fit.                                                          *)
LEMMA CleanStep ==
  ASSUME StorageTypeOK, StorageTypeOK', DaemonInv, KeyInv, PlaceInv, KeepInv,
         CleanInv, Next
  PROVE  CleanInv'
<1>1. /\ envelope'.version = "unknown" /\ ~doubled' =>
           \A p \in Procs : proc'[p].at \notin Sealing \cup {"open"}
      /\ \A p \in Procs : proc'[p].at = "check" => proc'[p].env = NoEnvelope
  BY UnknownStep, LookStep
<1>2. ASSUME incidents' = 0, ~doubled'
      PROVE  /\ key'.state = "empty" => \E p \in Procs : proc'[p].at = "write"
             /\ envelope'.version \in {"legacy", "current"} =>
                  Opens(envelope)' \/ Broken'
             /\ \A p \in Procs :
                  /\ proc'[p].at = "open" =>
                       \/ Opens(proc[p].env)'
                       \/ Broken' /\ proc'[p].env.version = "current"
                  /\ ~proc'[p].fresh /\ proc'[p].at \in Sealing => Usable'
  <2>1. ~doubled
    BY <1>2, DoubledStays
  <2>2. incidents' \in {incidents, incidents + 1}
    BY IncidentsGrow
  <2>3. incidents = 0 /\ ~PowerFails
    BY <1>2, <2>2, PowerCutEffect DEF StorageTypeOK, PowerFails
  <2>4. ASSUME key'.state = "empty" PROVE \E p \in Procs : proc'[p].at = "write"
    <3>1. CASE key' = key
      <4>1. PICK p \in Procs : proc[p].at = "write"
        BY <2>1, <2>3, <2>4, <3>1 DEF CleanInv
      <4>2. ~WriteKey(p)
        BY <2>4 DEF WriteKey
      <4> QED BY <1>2, <2>3, <4>1, <4>2, WriterStays
    <3>2. ASSUME NEW p \in Procs, CreateKey(p), key.state = "absent"
          PROVE  proc'[p].at = "write"
      BY <3>2, GotoEffect DEF CreateKey, StorageTypeOK, Places
    <3>3. ASSUME NEW p \in Procs, WriteKey(p) PROVE FALSE
      BY <2>4, <3>3 DEF WriteKey
    <3>4. ASSUME NEW p \in Procs, SyncKey(p) PROVE FALSE
      BY <2>4, <3>4, SyncKeyEffect DEF SyncKey, KeyInv
    <3> QED BY <2>3, <3>1, <3>2, <3>3, <3>4, KeyChange
  <2>5. ASSUME envelope'.version \in {"legacy", "current"}
        PROVE  Opens(envelope)' \/ Broken'
    <3>1. CASE envelope' = envelope
      <4>1. Opens(envelope) \/ Broken
        BY <2>1, <2>3, <2>5, <3>1 DEF CleanInv
      <4>2. Opens(envelope) => Usable' /\ key'.value = envelope'.key
        BY <2>3, <3>1, UsableStays
      <4>3. Broken => Broken'
        BY <2>1, <2>3, BrokenStays
      <4> QED BY <4>1, <4>2, <4>3 DEF Opens
    <3>2. ASSUME NEW p \in Procs, Persist(p) PROVE Opens(envelope)'
      BY <3>2 DEF Persist, KeyInv, Opens, Usable
    <3> QED BY <2>3, <3>1, <3>2, EnvelopeChange
  <2>6. ASSUME NEW p \in Procs
        PROVE  /\ proc'[p].at = "open" =>
                    \/ Opens(proc[p].env)'
                    \/ Broken' /\ proc'[p].env.version = "current"
               /\ ~proc'[p].fresh /\ proc'[p].at \in Sealing => Usable'
    BY <2>1, <2>3, OpenStep DEF Opens
  <2> QED BY <2>4, <2>5, <2>6
<1> QED BY <1>1, <1>2 DEF CleanInv

(* Whoever has failed keeps what it was started with and has found.        *)
LEMMA FailedStays ==
  ASSUME StorageTypeOK, DaemonTypes, Next, NEW p \in Procs,
         proc[p].at = "failed", proc'[p].at = "failed"
  PROVE  daemon'[p] = daemon[p] /\ proc'[p] = proc[p]
<1>1. ASSUME NEW q \in Procs, StorageStep(q), UNCHANGED startVars
      PROVE  daemon'[p] = daemon[p] /\ proc'[p] = proc[p]
  <2>1. q # p
    BY <1>1 DEF StorageStep, Check, Read, Open, WrapWithKey, WrapWithoutKey,
          CreateKey, WriteKey, SyncKey, Verify, Persist, SyncParent
  <2>2. \A r \in Procs \ {q} : proc'[r] = proc[r]
    BY <1>1 DEF StorageStep, Check, Read, Open, WrapWithKey, WrapWithoutKey,
          CreateKey, WriteKey, SyncKey, Verify, Persist, SyncParent,
          Generate, Goto, UseFoundKey, StorageTypeOK
  <2> QED BY <1>1, <2>1, <2>2 DEF startVars
<1>2. ASSUME NEW q \in Procs, New(q) \/ Relays(q) \/ Bind(q)
      PROVE  daemon'[p] = daemon[p] /\ proc'[p] = proc[p]
  <2>1. q # p
    BY <1>2 DEF New, Relays, Bind
  <2> QED BY <1>2, <2>1 DEF New, Relays, Bind, Fails, storageVars,
                            StorageTypeOK, DaemonTypes
<1>3. ASSUME NEW q \in Procs, PresenceStep(q)
      PROVE  daemon'[p] = daemon[p] /\ proc'[p] = proc[p]
  BY <1>3 DEF PresenceStep, Connected, PublishProfile, PublishHandler,
              storageVars
<1>4. ASSUME NEW q \in Procs, Ends(q), Gone(q)
      PROVE  daemon'[p] = daemon[p] /\ proc'[p] = proc[p]
  <2>1. q # p
    BY <1>4, EndsEffect DEF Off
  <2> QED BY <1>4, <2>1, EndsEffect, GoneEffect
<1>5. ASSUME NEW q \in Procs, NEW s \in Settings, StartDaemon(q, s)
      PROVE  daemon'[p] = daemon[p] /\ proc'[p] = proc[p]
  <2>1. q # p
    BY <1>5 DEF StartDaemon, Start
  <2> QED BY <1>5, <2>1 DEF StartDaemon, Start, StorageTypeOK, DaemonTypes
<1>6. ASSUME NEW q \in Procs,
             \/ CheckFails(q) /\ UNCHANGED startVars
             \/ OperationFails(q) /\ UNCHANGED startVars
             \/ StoreFails(q)
      PROVE  daemon'[p] = daemon[p] /\ proc'[p] = proc[p]
  <2>1. q # p
    BY <1>6 DEF OperationFails, CheckFails, StoreFails
  <2> QED BY <1>6, <2>1, CheckEffect
          DEF OperationFails, StoreFails, Goto, Fails, startVars,
              StorageTypeOK
<1>7. CASE PowerFails
  BY <1>7, PowerCutEffect DEF PowerFails, Off
<1> QED
  BY <1>1, <1>2, <1>3, <1>4, <1>5, <1>6, <1>7
  DEF Next, StartStep, Environment, Exit, Kill, Shutdown

(* A start that fails while nothing else does has a reason of its own.     *)
LEMMA FailureExcused ==
  ASSUME StorageTypeOK, DaemonTypes, DaemonInv, KeyInv, PlaceInv, KeepInv,
         CleanInv, Next, incidents = 0, incidents' = 0, ~doubled,
         NEW p \in Procs, proc[p].at # "failed", proc'[p].at = "failed"
  PROVE  Excused(p)'
<1>0. ~Incident
  BY DEF Incident
<1>1. ASSUME NEW q \in Procs, q # p, \A r \in Procs \ {q} : proc'[r] = proc[r]
      PROVE  FALSE
  BY <1>1
<1>2. ASSUME NEW q \in Procs, StorageStep(q), UNCHANGED startVars
      PROVE  Excused(p)'
  <2>1. \A r \in Procs \ {q} : proc'[r] = proc[r]
    BY <1>2 DEF StorageStep, Check, Read, Open, WrapWithKey, WrapWithoutKey,
          CreateKey, WriteKey, SyncKey, Verify, Persist, SyncParent,
          Generate, Goto, UseFoundKey, StorageTypeOK
  <2>2. q = p
    BY <1>1, <2>1
  <2>3. CASE Check(p)
    <3>1. proc[p].env = NoEnvelope
      BY <2>3 DEF Check, CleanInv
    <3>2. ~proc'[p].allow /\ proc'[p].env = NoEnvelope
      BY <2>3, <3>1, CheckEffect
    <3> QED BY <3>2 DEF Excused
  <2>4. CASE Read(p)
    <3>1. envelope.version \notin {"legacy", "current"} /\ envelope' = envelope
      <4>1. proc'[p].at = IF envelope.version \in {"legacy", "current"}
                          THEN "open" ELSE "failed"
        BY <2>4, ReadEffect
      <4> QED BY <2>4, <4>1 DEF Read
    <3>2. envelope.version # "none"
      <4>1. proc[p].at = "read"
        BY <2>4 DEF Read
      <4>2. ~proc[p].fresh
        BY <4>1 DEF PlaceInv, Sealing
      <4> QED BY <4>1, <4>2 DEF PlaceInv
    <3>3. envelope.version = "unknown"
      BY <3>1, <3>2 DEF StorageTypeOK, Envelope
    <3> QED BY <3>1, <3>3 DEF Excused
  <2>5. CASE Open(p)
    <3>1. ~Opens(proc[p].env)
      BY <2>5, GotoEffect DEF Open, StorageTypeOK, Places
    <3>2. Broken
      BY <2>5, <3>1 DEF Open, CleanInv
    <3> QED BY <2>5, <3>2 DEF Open, Broken, Excused
  <2>6. ASSUME UseFoundKey(p), proc[p].at \in {"wrap", "create"},
               key.state # "absent"
        PROVE  FALSE
    <3>1. ~Usable
      BY <2>6, UseFoundKeyEffect DEF AfterSealing
    <3>2. key.state = "empty"
      BY <2>6, <3>1 DEF Usable, StorageTypeOK, KeyFile
    <3>3. PICK w \in Procs : proc[w].at = "write"
      BY <3>2 DEF CleanInv
    <3>4. proc[p].fresh /\ proc[w].fresh
      BY <2>6, <3>1, <3>3 DEF CleanInv, Sealing, StorageTypeOK, Proc
    <3>5. Generating(p) /\ Generating(w)
      BY <2>6, <3>3, <3>4 DEF Generating
    <3>6. p = w
      BY <3>5 DEF KeepInv
    <3> QED BY <2>6, <3>3, <3>6
  <2>7. CASE WrapWithKey(p)
    BY <2>6, <2>7 DEF WrapWithKey
  <2>8. CASE CreateKey(p)
    <3>1. CASE Goto(p, "write")
      BY <3>1, GotoEffect DEF StorageTypeOK, Places
    <3> QED BY <2>6, <2>8, <3>1 DEF CreateKey
  <2>9. CASE WrapWithoutKey(p) \/ WriteKey(p) \/ Persist(p) \/ SyncParent(p)
    <3>1. PICK at \in {"create", "sync", "syncdir", "loaded"} : Goto(p, at)
      BY <2>9 DEF WrapWithoutKey, WriteKey, Persist, SyncParent
    <3> QED BY <3>1, GotoEffect DEF StorageTypeOK, Places
  <2>10. CASE SyncKey(p)
    BY <2>10, SyncKeyEffect DEF AfterSealing
  <2>11. CASE Verify(p)
    <3>1. Opens(proc[p].env)
      BY <2>11 DEF Verify, KeyInv, Opens, Usable
    <3> QED BY <2>11, <3>1, GotoEffect DEF Verify, StorageTypeOK, Places
  <2> QED
    BY <1>2, <2>2, <2>3, <2>4, <2>5, <2>7, <2>8, <2>9, <2>10, <2>11
    DEF StorageStep
<1>3. ASSUME NEW q \in Procs, Relays(q) PROVE Excused(p)'
  <2>1. q = p
    BY <1>1, <1>3 DEF Relays, Fails, StorageTypeOK
  <2>2. daemon[p].settings.relays = "malformed" /\ daemon' = daemon
    BY <1>3, <2>1 DEF Relays
  <2> QED BY <2>2 DEF Excused
<1>4. ASSUME NEW q \in Procs, Bind(q) PROVE Excused(p)'
  <2>1. q = p
    BY <1>1, <1>4 DEF Bind, Fails, StorageTypeOK
  <2>2. daemon[p].at = "bind" /\ daemon' = daemon
    BY <1>4, <2>1 DEF Bind
  <2> QED BY <2>2 DEF Excused
<1>5. ASSUME NEW q \in Procs, NEW s \in Settings, StartDaemon(q, s)
      PROVE  Excused(p)'
  <2>1. q = p
    BY <1>1, <1>5 DEF StartDaemon, Start, StorageTypeOK
  <2>2. ~validate(s)
    <3>1. ASSUME validate(s) PROVE FALSE
      <4>1. Start(p, s.allow, "check")
        BY <1>5, <2>1, <3>1 DEF StartDaemon
      <4> QED BY <4>1, StartEffect, SettingsAssumption DEF Places
    <3> QED BY <3>1
  <2>3. daemon'[p].settings = s
    BY <1>5, <2>1 DEF StartDaemon, DaemonTypes, Daemon
  <2>4. ~validate(daemon'[p].settings)
    BY <2>2, <2>3
  <2> QED BY <2>4 DEF Excused, validate, authored_profile
<1>6. ASSUME NEW q \in Procs, Ends(q) PROVE FALSE
  <2>1. q = p
    BY <1>1, <1>6, EndsEffect
  <2> QED BY <1>6, <2>1, EndsEffect DEF Off
<1>7. ASSUME NEW q \in Procs, New(q) \/ PresenceStep(q) PROVE FALSE
  BY <1>7 DEF New, PresenceStep, Connected, PublishProfile, PublishHandler,
              storageVars
<1>8. /\ ~PowerFails
      /\ \A q \in Procs : /\ ~OperationFails(q) /\ ~CheckFails(q)
                         /\ ~StoreFails(q) /\ ~Kill(q)
  BY <1>0 DEF PowerFails, PowerCut, OperationFails, CheckFails, StoreFails,
              Kill
<1> QED
  BY <1>2, <1>3, <1>4, <1>5, <1>6, <1>7, <1>8
  DEF Next, StartStep, Environment, Exit, Shutdown

(* No reason of a failure is taken back while nothing fails, so a start    *)
(* that has failed and lies there keeps its reason.                        *)
LEMMA CleanStartsStep ==
  ASSUME StorageTypeOK, StorageTypeOK', DaemonTypes, DaemonInv, KeyInv,
         PlaceInv, KeepInv, CleanInv, CleanStartsSucceed, Next
  PROVE  CleanStartsSucceed'
<1> SUFFICES ASSUME NEW p \in Procs,
                    proc'[p].at = "failed", incidents' = 0, ~doubled'
             PROVE  Excused(p)'
  BY DEF CleanStartsSucceed, Excused, Broken, validate, authored_profile
<1>1. ~doubled
  BY DoubledStays
<1>2. incidents' \in {incidents, incidents + 1}
  BY IncidentsGrow
<1>3. incidents = 0 /\ ~PowerFails
  BY <1>2, PowerCutEffect DEF StorageTypeOK, PowerFails
<1>4. CASE proc[p].at # "failed"
  BY <1>1, <1>3, <1>4, FailureExcused
<1>5. CASE proc[p].at = "failed"
  <2>1. Excused(p)
    BY <1>1, <1>3, <1>5 DEF CleanStartsSucceed, Excused, Broken
  <2>2. daemon'[p] = daemon[p] /\ proc'[p] = proc[p]
    BY <1>5, FailedStays
  <2>3. Broken => Broken'
    BY <1>1, <1>3, BrokenStays
  <2>4. envelope.version = "unknown" => envelope' = envelope
    <3>1. ASSUME envelope.version = "unknown", NEW q \in Procs, Persist(q)
          PROVE  FALSE
      BY <1>1, <3>1 DEF CleanInv, Persist, Sealing
    <3> QED BY <1>3, <3>1, EnvelopeChange
  <2>5. ~validate(daemon[p].settings) => ~validate(daemon'[p].settings)
    BY <2>2
  <2>6. CASE ~validate(daemon[p].settings)
    BY <2>5, <2>6 DEF Excused, validate, authored_profile
  <2>7. CASE validate(daemon[p].settings)
    BY <2>1, <2>2, <2>3, <2>4, <2>7 DEF Excused, Broken
  <2> QED BY <2>6, <2>7
<1> QED BY <1>4, <1>5

-----------------------------------------------------------------------------
(* THE INVARIANTS                                                          *)

(* A process that has not started works on nothing.                        *)
LEMMA Initially ==
  ASSUME Init
  PROVE  /\ StorageTypeOK /\ DaemonTypes /\ DaemonInv /\ KeyInv
         /\ StoredIdentityOpens /\ PlaceInv /\ DurableInv /\ KeepInv
         /\ AnnouncedIdentityIsKept /\ CleanInv /\ CleanStartsSucceed
<1>1. /\ proc = [p \in Procs |-> Off] /\ durable = envelope
      /\ doubled = FALSE /\ starts = 0 /\ incidents = 0
  BY DEF Init, StorageInit
<1>2. \A p \in Procs : proc[p] = Off /\ proc[p].at = "off" /\ ~proc[p].fresh
  BY <1>1 DEF Off
<1>3. /\ key \in KeyFile /\ envelope \in Envelope
      /\ envelope.identity = 0 /\ envelope.key = 0
      /\ key.state # "empty"
      /\ envelope.version \in {"legacy", "current"} =>
           \/ key.state = "full" /\ key.value = 0
           \/ envelope.version = "current" /\ key.state = "absent"
  <2>1. CASE key = NoKey /\ envelope = NoEnvelope
    BY <2>1, EmptyTypes DEF NoKey, NoEnvelope
  <2>2. ASSUME key = StoredKey, NEW v \in {"legacy", "current", "unknown"},
               envelope = Stored(v)
        PROVE  <1>3!:
    BY <2>2, EmptyTypes DEF StoredKey, Stored, NoEnvelope
  <2>3. CASE key = NoKey /\ envelope = Stored("current")
    BY <2>3, EmptyTypes DEF NoKey, Stored, NoEnvelope
  <2> QED BY <2>1, <2>2, <2>3 DEF Init, StorageInit
<1>4. StorageTypeOK
  <2>1. 0 \in 0..MaxIncidents /\ 0 \in Starts
    BY StorageAssumption DEF Starts
  <2>2. proc \in [Procs -> Proc]
    BY <1>1, EmptyTypes
  <2> QED BY <1>1, <1>3, <2>1, <2>2 DEF StorageTypeOK
<1>5. /\ DaemonTypes /\ announced = {}
      /\ \A p \in Procs : daemon[p].at = "none" /\ presence[p] = "none"
  <2>1. NoDaemon \in Daemon
    BY DEF NoDaemon, Daemon
  <2> QED BY <2>1 DEF Init, DaemonTypes, NoDaemon
<1>6. DaemonInv
  BY <1>5 DEF DaemonInv
<1>7. KeyInv
  BY <1>2 DEF KeyInv
<1>8. StoredIdentityOpens
  BY <1>1, <1>3 DEF StoredIdentityOpens
<1>9. PlaceInv
  BY <1>2 DEF PlaceInv, Sealing
<1>10. DurableInv
  BY <1>1, <1>2, <1>3, <1>5 DEF DurableInv, Sealing, Init, StorageInit,
                                 Stored, NoEnvelope
<1>11. KeepInv
  BY <1>1, <1>2, <1>5 DEF KeepInv, Generating, Sealing
<1>12. AnnouncedIdentityIsKept
  BY <1>5 DEF AnnouncedIdentityIsKept
<1>13. CleanInv
  BY <1>2, <1>3 DEF CleanInv, Sealing, Opens, Usable, Broken
<1>14. CleanStartsSucceed
  BY <1>2 DEF CleanStartsSucceed
<1> QED BY <1>4, <1>5, <1>6, <1>7, <1>8, <1>9, <1>10, <1>11, <1>12, <1>13,
           <1>14

(* The inductive invariant.                                                *)
IInv ==
  /\ StorageTypeOK /\ DaemonTypes /\ DaemonInv /\ KeyInv
  /\ StoredIdentityOpens /\ PlaceInv /\ DurableInv /\ KeepInv
  /\ AnnouncedIdentityIsKept /\ CleanInv /\ CleanStartsSucceed

(* A step that changes nothing keeps it.                                   *)
LEMMA StutterStep ==
  ASSUME IInv, UNCHANGED vars
  PROVE  IInv'
<1>1. UNCHANGED <<storageVars, startVars>>
  BY DEF vars, startVars
<1>2. /\ key' = key /\ envelope' = envelope /\ durable' = durable
      /\ proc' = proc /\ doubled' = doubled /\ starts' = starts
      /\ incidents' = incidents /\ daemon' = daemon /\ presence' = presence
      /\ listening' = listening /\ server' = server /\ announced' = announced
  BY <1>1 DEF storageVars, startVars
<1>3. StorageTypeOK' /\ DaemonTypes' /\ DaemonInv' /\ KeyInv'
  BY <1>2 DEF IInv, StorageTypeOK, DaemonTypes, DaemonInv, KeyInv
<1>4. StoredIdentityOpens' /\ PlaceInv' /\ DurableInv'
  BY <1>2 DEF IInv, StoredIdentityOpens, Opens, Usable, PlaceInv, DurableInv
<1>5. KeepInv' /\ AnnouncedIdentityIsKept'
  BY <1>2 DEF IInv, KeepInv, Generating, AnnouncedIdentityIsKept
<1>6. CleanInv' /\ CleanStartsSucceed'
  BY <1>2 DEF IInv, CleanInv, Opens, Usable, Broken, CleanStartsSucceed
<1> QED BY <1>3, <1>4, <1>5, <1>6 DEF IInv

(* Every step keeps it.                                                    *)
LEMMA InvariantStep ==
  ASSUME IInv, [Next]_vars
  PROVE  IInv'
<1>1. CASE Next
  <2>1. StorageTypeOK' /\ DaemonTypes' /\ DaemonInv'
    BY <1>1, StorageTypes, DaemonStep DEF IInv
  <2>2. KeyInv' /\ StoredIdentityOpens'
    BY <1>1, KeyStep, OpensStep DEF IInv
  <2>3. PlaceInv' /\ DurableInv'
    BY <1>1, PlaceStep, DurableStep DEF IInv
  <2>4. KeepInv' /\ AnnouncedIdentityIsKept'
    BY <1>1, KeepStep, AnnouncedStep DEF IInv
  <2>5. CleanInv' /\ CleanStartsSucceed'
    BY <1>1, <2>1, CleanStep, CleanStartsStep DEF IInv
  <2> QED BY <2>1, <2>2, <2>3, <2>4, <2>5 DEF IInv
<1>2. CASE UNCHANGED vars
  BY <1>2, StutterStep
<1> QED BY <1>1, <1>2

-----------------------------------------------------------------------------
(* THEOREMS                                                                *)

(* The invariant holds always.                                             *)
LEMMA Invariant == Spec => []IInv
<1>1. Init => IInv
  BY Initially DEF IInv
<1> QED BY <1>1, InvariantStep, PTL DEF Spec

(* The files, the starts and what is known of each process stay of their   *)
(* types; a listener and the address belong to processes that got so far.  *)
THEOREM TypeCorrect == Spec => []TypeOK
<1>1. IInv => TypeOK
  BY DEF IInv, TypeOK, DaemonTypes
<1> QED BY <1>1, Invariant, PTL

(* load_or_create_key, persist_envelope: what the identity file needs to   *)
(* be opened is on disk and synced whenever the file is, whatever was      *)
(* killed, failed or lost power between any two file operations.           *)
THEOREM IdentityOpens == Spec => []StoredIdentityOpens
<1>1. IInv => StoredIdentityOpens
  BY DEF IInv
<1> QED BY <1>1, Invariant, PTL

(* load_service_identity: no step replaces the identity in the file by     *)
(* another, until a start generates one because its look at the file       *)
(* failed, or while another start was generating one.                      *)
THEOREM IdentityKept == Spec => IdentityIsKept
<1>1. IInv /\ [Next]_vars =>
        [envelope.version # "none" /\ ~doubled' =>
           \/ envelope'.version = "none"
           \/ envelope'.identity = envelope.identity]_storageVars
  <2>1. ASSUME IInv, Next, envelope.version # "none", ~doubled'
        PROVE  \/ envelope'.version = "none"
               \/ envelope'.identity = envelope.identity
    BY <2>1, IdentityStep DEF IInv
  <2>2. UNCHANGED vars => UNCHANGED storageVars
    BY DEF vars, storageVars
  <2> QED BY <2>1, <2>2
<1> QED BY <1>1, Invariant, PTL DEF Spec, IdentityIsKept

(* bootstrap_presence: an identity the service has announced for good is   *)
(* the one in the file, and the one a power cut leaves there, until a      *)
(* start generates one because its look at the file failed, or while       *)
(* another start was generating one.                                       *)
THEOREM AnnouncedKept == Spec => []AnnouncedIdentityIsKept
<1>1. IInv => AnnouncedIdentityIsKept
  BY DEF IInv
<1> QED BY <1>1, Invariant, PTL

(* Nobody may generate an identity, and nobody has.                        *)
Forbidden == ~doubled /\ \A p \in Procs : ~proc[p].allow

(* It stays so as long as no setting gives the permission.                 *)
LEMMA ForbiddenStep ==
  ASSUME IInv, Forbidden, [Next]_vars, \A s \in Settings : ~s.allow
  PROVE  Forbidden'
<1>1. StorageTypeOK /\ KeyInv
  BY DEF IInv
<1>2. CASE UNCHANGED storageVars
  BY <1>2 DEF storageVars, Forbidden
<1>3. CASE PowerFails
  BY <1>1, <1>3, PowerCutEffect DEF PowerFails, Forbidden, Off
<1>4. ASSUME NEW p \in Procs, StorageStep(p) \/ CheckFails(p)
      PROVE  \A q \in Procs : proc'[q].allow = proc[q].allow
  <2>1. ASSUME NEW at \in Places, Goto(p, at)
        PROVE  \A q \in Procs : proc'[q].allow = proc[q].allow
    BY <1>1, <2>1, GotoEffect DEF StorageTypeOK
  <2>2. CASE Check(p) \/ CheckFails(p)
    BY <1>1, <2>2, CheckEffect
  <2>3. CASE Read(p)
    BY <1>1, <2>3, ReadEffect
  <2>4. CASE WrapWithKey(p)
    BY <1>1, <2>4, UseFoundKeyEffect DEF WrapWithKey
  <2>5. CASE CreateKey(p)
    BY <1>1, <2>1, <2>5, UseFoundKeyEffect DEF CreateKey, Places
  <2>6. CASE SyncKey(p)
    BY <1>1, <2>6, SyncKeyEffect
  <2>7. CASE Open(p) \/ WrapWithoutKey(p) \/ WriteKey(p) \/ Verify(p)
               \/ Persist(p) \/ SyncParent(p)
    BY <2>1, <2>7 DEF Open, WrapWithoutKey, WriteKey, Verify, Persist,
                      SyncParent, Places
  <2> QED BY <1>4, <2>2, <2>3, <2>4, <2>5, <2>6, <2>7 DEF StorageStep
<1>5. ASSUME NEW p \in Procs, StorageStep(p) \/ CheckFails(p)
      PROVE  doubled' = doubled
  <2>1. ~proc[p].allow
    BY DEF Forbidden
  <2> QED BY <1>5, <2>1 DEF StorageStep, Check, CheckFails, Read, Open,
        WrapWithKey, WrapWithoutKey, CreateKey, WriteKey, SyncKey, Verify,
        Persist, SyncParent
<1>6. ASSUME NEW p \in Procs, NEW s \in Settings, StartDaemon(p, s)
      PROVE  Forbidden'
  <2>1. PICK at \in Places : Start(p, s.allow, at)
    BY <1>6 DEF StartDaemon, Places
  <2>2. doubled' = doubled
    BY <2>1 DEF Start
  <2>3. \A q \in Procs : ~proc'[q].allow
    <3>1. ~s.allow /\ s.allow \in BOOLEAN
      BY SettingsAssumption
    <3>2. /\ proc'[p].allow = s.allow
          /\ \A q \in Procs \ {p} : proc'[q] = proc[q]
      BY <1>1, <2>1, <3>1, StartEffect
    <3> QED BY <3>1, <3>2 DEF Forbidden
  <2> QED BY <2>2, <2>3 DEF Forbidden
<1>7. ASSUME NEW p \in Procs, Stops(p) \/ Retries(p) PROVE Forbidden'
  BY <1>7 DEF Stops, Retries, Forbidden, Off
<1>8. Next \/ UNCHANGED storageVars
  BY DEF vars
<1> QED BY <1>1, <1>2, <1>3, <1>4, <1>5, <1>6, <1>7, <1>8, StepKinds
        DEF Forbidden

(* --allow-generate-identity: where no process is started with it, no      *)
(* step whatever replaces the identity in the file: no migration, look     *)
(* that fails, kill or power cut, and no two starts at once.               *)
THEOREM IdentityKeptWithoutPermission ==
  ASSUME \A s \in Settings : ~s.allow
  PROVE  Spec => PresentIdentityIsKept
<1>1. Init => Forbidden
  BY DEF Init, StorageInit, Forbidden, Off
<1>2. IInv /\ Forbidden /\ [Next]_vars => Forbidden'
  BY ForbiddenStep
<1>3. IInv /\ Forbidden /\ Forbidden' /\ [Next]_vars =>
        [envelope.version # "none" =>
           \/ envelope'.version = "none"
           \/ envelope'.identity = envelope.identity]_storageVars
  <2>1. ASSUME IInv, Forbidden', Next, envelope.version # "none"
        PROVE  \/ envelope'.version = "none"
               \/ envelope'.identity = envelope.identity
    BY <2>1, IdentityStep DEF IInv, Forbidden
  <2>2. UNCHANGED vars => UNCHANGED storageVars
    BY DEF vars, storageVars
  <2> QED BY <2>1, <2>2
<1> QED BY <1>1, <1>2, <1>3, Invariant, PTL DEF Spec, PresentIdentityIsKept

(* run(): a start fails only for a reason that lies outside it, whatever   *)
(* else starts, migrates or shuts down meanwhile.                          *)
THEOREM CleanStarts == Spec => []CleanStartsSucceed
<1>1. IInv => CleanStartsSucceed
  BY DEF IInv
<1> QED BY <1>1, Invariant, PTL
================================================================================
