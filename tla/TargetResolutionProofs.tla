------------------------ MODULE TargetResolutionProofs ------------------------
(***************************************************************************)
(* Proofs about TargetResolution, for any calls, requests, relay lists and *)
(* answers of DNS.                                                         *)
(*                                                                         *)
(* What relay lists hold does not matter: the provers know nothing about   *)
(* SelectSeq, so the proofs say of the lists of targets and outcomes only  *)
(* that they are sequences of something.  The inductive invariant adds to  *)
(* the properties, for calls that are still at work,                       *)
(*   TargetInv   targets are distinct, checked, and of the pass they are   *)
(*               found in,                                                 *)
(*   AuthorInv   a relay of the author that passed the check ends the      *)
(*               search,                                                   *)
(*   RequestInv  each entry of the request is still to be checked or is    *)
(*               answered.                                                 *)
(***************************************************************************)
EXTENDS TargetResolution, SequenceTheorems, TLAPS

-----------------------------------------------------------------------------
(* SEQUENCES OF SOMETHING                                                  *)

IsSequence(s) == s \in Seq(Range(s))

(* The empty sequence is one.                                              *)
LEMMA EmptyIsSequence == IsSequence(<<>>) /\ Range(<<>>) = {}
<1>1. <<>> \in Seq({})
  OBVIOUS
<1>2. Range(<<>>) = {}
  BY DEF Range
<1> QED BY <1>1, <1>2 DEF IsSequence

(* A sequence of anything is one.                                          *)
LEMMA SequenceIntro ==
  ASSUME NEW S, NEW s \in Seq(S)
  PROVE  IsSequence(s) /\ Range(s) \subseteq S
BY SeqOfRange, RangeOfSeq DEF IsSequence

(* What Append adds.                                                       *)
LEMMA AppendAny ==
  ASSUME NEW s, IsSequence(s), NEW t
  PROVE  /\ IsSequence(Append(s, t))
         /\ Range(Append(s, t)) = Range(s) \cup {t}
         /\ Append(s, t) # <<>>
         /\ DOMAIN s = 1..Len(s) /\ Len(s) \in Nat
         /\ DOMAIN Append(s, t) = 1..(Len(s) + 1)
         /\ \A i \in 1..Len(s) : Append(s, t)[i] = s[i]
         /\ Append(s, t)[Len(s) + 1] = t
<1> DEFINE S == Range(s) \cup {t}
<1>1. s \in Seq(S) /\ t \in S
  <2>1. s \in Seq(Range(s))
    BY DEF IsSequence
  <2>2. Range(s) \subseteq S /\ t \in S
    OBVIOUS
  <2> HIDE DEF S
  <2> QED BY <2>1, <2>2, SeqMonotonic
<1>2. S = Range(s) \cup {t}
  OBVIOUS
<1> HIDE DEF S
<1>3. DOMAIN s = 1..Len(s) /\ Len(s) \in Nat
  BY <1>1, LenProperties
<1>4. /\ Append(s, t) \in Seq(S) /\ Append(s, t) # <<>>
      /\ Len(Append(s, t)) = Len(s) + 1
      /\ \A i \in 1..Len(s) : Append(s, t)[i] = s[i]
      /\ Append(s, t)[Len(s) + 1] = t
  BY <1>1, AppendProperties
<1>5. DOMAIN Append(s, t) = 1..(Len(s) + 1)
  BY <1>4, LenProperties
<1>6. Range(Append(s, t)) = Range(s) \cup {t}
  <2>1. Range(Append(s, t)) \subseteq S
    BY <1>4, RangeOfSeq
  <2>2. Range(s) \subseteq Range(Append(s, t))
    BY <1>3, <1>4, <1>5 DEF Range
  <2>3. t \in Range(Append(s, t))
    <3>1. Len(s) + 1 \in DOMAIN Append(s, t)
      BY <1>3, <1>5
    <3> QED BY <1>4, <3>1 DEF Range
  <2> QED BY <1>2, <2>1, <2>2, <2>3
<1>7. IsSequence(Append(s, t))
  BY <1>4, SeqOfRange DEF IsSequence
<1> QED BY <1>3, <1>4, <1>5, <1>6, <1>7

(* Taking the first element of a sequence.                                 *)
LEMMA TakeFirst ==
  ASSUME NEW S, NEW s \in Seq(S), s # <<>>
  PROVE  /\ Tail(s) \in Seq(S) /\ Head(s) \in S
         /\ Range(s) \subseteq {Head(s)} \cup Range(Tail(s))
         /\ Range(Tail(s)) \subseteq Range(s)
<1>1. /\ Tail(s) \in Seq(S) /\ Head(s) \in S
      /\ Len(Tail(s)) = Len(s) - 1
      /\ \A i \in 1 .. Len(Tail(s)) : Tail(s)[i] = s[i+1]
  BY HeadTailProperties
<1>2. DOMAIN s = 1..Len(s) /\ Len(s) \in Nat /\ Len(s) # 0
  BY LenProperties, EmptySeq
<1>3. DOMAIN Tail(s) = 1..(Len(s) - 1)
  BY <1>1, LenProperties
<1>4. Head(s) = s[1]
  OBVIOUS
<1>5. ASSUME NEW i \in DOMAIN s PROVE s[i] \in {Head(s)} \cup Range(Tail(s))
  <2>1. CASE i = 1
    BY <1>4, <2>1
  <2>2. CASE i # 1
    <3>1. i - 1 \in DOMAIN Tail(s) /\ Tail(s)[i - 1] = s[i]
      BY <1>1, <1>2, <1>3, <2>2
    <3> QED BY <3>1 DEF Range
  <2> QED BY <2>1, <2>2
<1>6. ASSUME NEW i \in DOMAIN Tail(s) PROVE Tail(s)[i] \in Range(s)
  <2>1. i + 1 \in DOMAIN s /\ Tail(s)[i] = s[i + 1]
    BY <1>1, <1>2, <1>3
  <2> QED BY <2>1 DEF Range
<1> QED BY <1>1, <1>5, <1>6 DEF Range

(* No two targets for one relay and scope.                                 *)
Distinct(targets) ==
  \A i, j \in DOMAIN targets :
    TargetKey(targets[i]) = TargetKey(targets[j]) => i = j

(* push_resolved_relay: the target is among the targets afterwards, if     *)
(* perhaps with the source it was first found by, and once.                *)
LEMMA PushEffect ==
  ASSUME NEW s, IsSequence(s), Distinct(s), NEW t,
         NEW r, r = push_resolved_relay(s, t)
  PROVE  /\ IsSequence(r) /\ Distinct(r) /\ r # <<>>
         /\ Range(s) \subseteq Range(r)
         /\ Range(r) \subseteq Range(s) \cup {t}
         /\ \E x \in Range(r) : x.url = t.url /\ x.scope = t.scope
<1>1. CASE \E i \in DOMAIN s : s[i].url = t.url /\ s[i].scope = t.scope
  <2>1. push_resolved_relay(s, t) = s
    BY <1>1 DEF push_resolved_relay
  <2>2. \E x \in Range(s) : x.url = t.url /\ x.scope = t.scope
    BY <1>1 DEF Range
  <2>3. s # <<>>
    BY <1>1
  <2> QED BY <2>1, <2>2, <2>3
<1>2. CASE ~\E i \in DOMAIN s : s[i].url = t.url /\ s[i].scope = t.scope
  <2>1. push_resolved_relay(s, t) = Append(s, t)
    BY <1>2 DEF push_resolved_relay
  <2>2. /\ IsSequence(Append(s, t))
        /\ Range(Append(s, t)) = Range(s) \cup {t}
        /\ Append(s, t) # <<>>
        /\ DOMAIN s = 1..Len(s) /\ Len(s) \in Nat
        /\ DOMAIN Append(s, t) = 1..(Len(s) + 1)
        /\ \A i \in 1..Len(s) : Append(s, t)[i] = s[i]
        /\ Append(s, t)[Len(s) + 1] = t
    BY AppendAny
  <2>3. ASSUME NEW i \in 1..(Len(s) + 1), NEW j \in 1..(Len(s) + 1),
               TargetKey(Append(s, t)[i]) = TargetKey(Append(s, t)[j])
        PROVE  i = j
    <3>1. ASSUME NEW k \in 1..Len(s) PROVE TargetKey(s[k]) # TargetKey(t)
      BY <1>2, <2>2, <3>1 DEF TargetKey
    <3>2. CASE i \in 1..Len(s) /\ j \in 1..Len(s)
      BY <2>2, <2>3, <3>2 DEF Distinct
    <3>3. CASE i \notin 1..Len(s)
      <4>1. i = Len(s) + 1
        BY <2>2, <3>3
      <4> QED BY <2>2, <2>3, <3>1, <4>1
    <3>4. CASE j \notin 1..Len(s)
      <4>1. j = Len(s) + 1
        BY <2>2, <3>4
      <4> QED BY <2>2, <2>3, <3>1, <4>1
    <3> QED BY <3>2, <3>3, <3>4
  <2>4. Distinct(Append(s, t))
    BY <2>2, <2>3 DEF Distinct
  <2> QED BY <2>1, <2>2, <2>4
<1> QED BY <1>1, <1>2

-----------------------------------------------------------------------------
(* THE INVARIANT                                                           *)

Shape ==
  /\ stage \in [Calls -> Places]
  /\ request \in [Calls -> Requests \cup {NoRequest}]
  /\ DOMAIN todo = Calls /\ DOMAIN found = Calls
  /\ DOMAIN kept = Calls /\ DOMAIN passed = Calls
  /\ \A c \in Calls : DOMAIN found[c] = {"targets", "outcomes"}

IsDefault(i) == \E n \in DOMAIN Defaults : Defaults[n] = i

TargetInv(c) ==
  /\ IsSequence(found[c].targets) /\ Distinct(found[c].targets)
  /\ stage[c] \notin Passes \cup {"done", "failed"} => found[c].targets = <<>>
  /\ stage[c] = "default" =>
       /\ todo[c] \in Seq(Entry)
       /\ \A e \in Range(todo[c]) : IsDefault(e.input)
  /\ \A t \in Range(found[c].targets) :
       /\ PublicPolicy => <<t.url, t.source>> \in passed[c]
       /\ stage[c] \in Passes => t.source = SourceOf(stage[c])
       /\ stage[c] \in {"default", "done"} /\ t.source = "DaemonDefault" =>
            \E n \in DOMAIN Defaults : Parse[Defaults[n]] = t.url

(* No relay of the author has passed the check.                            *)
NoAuthorRelay(c) == \A x \in passed[c] : x[2] # "NostrAuthorWrite"

AuthorInv(c) ==
  /\ stage[c] \notin {"cached", "discovered", "done", "failed"} =>
       NoAuthorRelay(c)
  /\ stage[c] \in {"cached", "discovered"} =>
       NoAuthorRelay(c) \/ found[c].targets # <<>>
  /\ stage[c] = "done" =>
       \/ NoAuthorRelay(c)
       \/ \A t \in Range(found[c].targets) : t.source # "DaemonDefault"

Explicit == {"explicit_targets", "explicit_only",
             "request_then_author_then_default"}

Answered(c, e) ==
  \/ \E t \in Range(found[c].targets) : TargetKey(t) = EntryKey(e)
  \/ \E o \in Range(found[c].outcomes) : OutcomeKey(o) = EntryKey(e)

RequestInv(c) ==
  /\ stage[c] # "idle" => request[c] \in Requests
  /\ stage[c] = "request" =>
       /\ kept[c] = <<>> /\ IsSequence(found[c].outcomes)
       /\ todo[c] \in Seq(Entry)
       /\ \A e \in Range(request[c].entries) :
            e \in Range(todo[c]) \/ Answered(c, e)
  /\ stage[c] = "done" /\ request[c].policy \in Explicit =>
       \A e \in Range(request[c].entries) : Answered(c, e)
  /\ /\ stage[c] \notin {"idle", "request", "done", "failed"}
     /\ request[c].policy \in Explicit
     => request[c].entries = <<>>

CallInv(c) == TargetInv(c) /\ AuthorInv(c) /\ RequestInv(c)

IInv == Shape /\ \A c \in Calls : CallInv(c)

-----------------------------------------------------------------------------
(* THE STEPS                                                               *)

(* What a step does not touch.                                             *)
Others(c) ==
  \A d \in Calls \ {c} :
    /\ stage'[d] = stage[d] /\ request'[d] = request[d]
    /\ todo'[d] = todo[d] /\ found'[d] = found[d]
    /\ kept'[d] = kept[d] /\ passed'[d] = passed[d]

(* The step of one call does not disturb another.                          *)
LEMMA OthersStay ==
  ASSUME NEW d \in Calls, CallInv(d), stage'[d] = stage[d],
         request'[d] = request[d], todo'[d] = todo[d],
         found'[d] = found[d], kept'[d] = kept[d], passed'[d] = passed[d]
  PROVE  CallInv(d)'
<1>1. TargetInv(d)'
  BY DEF CallInv, TargetInv
<1>2. AuthorInv(d)'
  BY DEF CallInv, AuthorInv, NoAuthorRelay
<1>3. RequestInv(d)'
  BY DEF CallInv, RequestInv, Answered
<1> QED BY <1>1, <1>2, <1>3 DEF CallInv

(* The effect of a new pass.                                               *)
LEMMA BeginEffect ==
  ASSUME Shape, NEW c \in Calls, NEW pass \in Places, NEW entries, NEW outs,
         Begin(c, pass, entries, outs)
  PROVE  /\ stage' \in [Calls -> Places] /\ DOMAIN todo' = Calls
         /\ DOMAIN found' = Calls /\ DOMAIN kept' = Calls
         /\ stage'[c] = pass /\ todo'[c] = entries
         /\ found'[c].targets = <<>> /\ found'[c].outcomes = <<>>
         /\ kept'[c] = outs
         /\ \A d \in Calls : DOMAIN found'[d] = {"targets", "outcomes"}
         /\ \A d \in Calls \ {c} :
              /\ stage'[d] = stage[d] /\ todo'[d] = todo[d]
              /\ found'[d] = found[d] /\ kept'[d] = kept[d]
<1>1. found'[c] = Nothing /\ DOMAIN found' = Calls
        /\ \A d \in Calls \ {c} : found'[d] = found[d]
  BY DEF Begin, Shape
<1>2. /\ Nothing.targets = <<>> /\ Nothing.outcomes = <<>>
      /\ DOMAIN Nothing = {"targets", "outcomes"}
  BY DEF Nothing
<1>3. \A d \in Calls : DOMAIN found'[d] = {"targets", "outcomes"}
  BY <1>1, <1>2 DEF Shape
<1>4. /\ stage' \in [Calls -> Places] /\ stage'[c] = pass
      /\ \A d \in Calls \ {c} : stage'[d] = stage[d]
  BY DEF Begin, Shape
<1>5. /\ DOMAIN todo' = Calls /\ todo'[c] = entries
      /\ \A d \in Calls \ {c} : todo'[d] = todo[d]
  BY DEF Begin, Shape
<1>6. /\ DOMAIN kept' = Calls /\ kept'[c] = outs
      /\ \A d \in Calls \ {c} : kept'[d] = kept[d]
  BY DEF Begin, Shape
<1> QED BY <1>1, <1>2, <1>3, <1>4, <1>5, <1>6

(* The effect of the end.                                                  *)
LEMMA FinishEffect ==
  ASSUME Shape, NEW c \in Calls, Finish(c)
  PROVE  /\ stage' \in [Calls -> Places] /\ DOMAIN todo' = Calls
         /\ DOMAIN found' = Calls /\ DOMAIN kept' = Calls
         /\ stage'[c] = "done"
         /\ found'[c].targets = found[c].targets
         /\ found'[c].outcomes = found[c].outcomes \o kept[c]
         /\ \A d \in Calls : DOMAIN found'[d] = {"targets", "outcomes"}
         /\ \A d \in Calls \ {c} :
              /\ stage'[d] = stage[d] /\ todo'[d] = todo[d]
              /\ found'[d] = found[d] /\ kept'[d] = kept[d]
<1>1. /\ DOMAIN found' = Calls
      /\ found'[c] = [found[c] EXCEPT !.outcomes =
                        found[c].outcomes \o kept[c]]
      /\ \A d \in Calls \ {c} : found'[d] = found[d]
  BY DEF Finish, Shape
<1>2. /\ found'[c].targets = found[c].targets
      /\ found'[c].outcomes = found[c].outcomes \o kept[c]
      /\ DOMAIN found'[c] = {"targets", "outcomes"}
  BY <1>1 DEF Shape
<1>3. /\ stage' \in [Calls -> Places] /\ stage'[c] = "done"
      /\ \A d \in Calls \ {c} : stage'[d] = stage[d]
  BY DEF Finish, Shape, Places
<1>4. /\ DOMAIN todo' = Calls /\ DOMAIN kept' = Calls
      /\ \A d \in Calls \ {c} : todo'[d] = todo[d] /\ kept'[d] = kept[d]
  BY DEF Finish, Shape
<1>5. \A d \in Calls : DOMAIN found'[d] = {"targets", "outcomes"}
  BY <1>1, <1>2 DEF Shape
<1> QED BY <1>1, <1>2, <1>3, <1>4, <1>5

(* An outcome is added.                                                    *)
LEMMA FailureEffect ==
  ASSUME Shape, NEW c \in Calls, NEW kind, NEW endpoint, NEW scope,
         NEW source, NEW outcome,
         Failure(c, kind, endpoint, scope, source, outcome)
  PROVE  /\ DOMAIN found' = Calls /\ passed' = passed
         /\ found'[c].targets = found[c].targets
         /\ \E o : /\ found'[c].outcomes = Append(found[c].outcomes, o)
                   /\ OutcomeKey(o) = <<kind, endpoint, scope>>
         /\ \A d \in Calls : DOMAIN found'[d] = {"targets", "outcomes"}
         /\ \A d \in Calls \ {c} : found'[d] = found[d]
<1> DEFINE o == [kind |-> kind, endpoint |-> endpoint, scope |-> scope,
                 source |-> source, outcome |-> outcome]
<1>1. OutcomeKey(o) = <<kind, endpoint, scope>>
  BY DEF OutcomeKey
<1>2. found' = [found EXCEPT ![c].outcomes = Append(@, o)] /\ passed' = passed
  BY DEF Failure
<1> HIDE DEF o
<1>3. /\ DOMAIN found' = Calls
      /\ found'[c] = [found[c] EXCEPT !.outcomes =
                        Append(found[c].outcomes, o)]
      /\ \A d \in Calls \ {c} : found'[d] = found[d]
  BY <1>2 DEF Shape
<1>4. /\ found'[c].targets = found[c].targets
      /\ found'[c].outcomes = Append(found[c].outcomes, o)
      /\ DOMAIN found'[c] = {"targets", "outcomes"}
  BY <1>3 DEF Shape
<1> QED BY <1>1, <1>2, <1>3, <1>4 DEF Shape

(* A target is added.                                                      *)
Resolves(c, t) ==
  found' = [found EXCEPT ![c].targets = push_resolved_relay(@, t)]

(* What that does.                                                         *)
LEMMA ResolvesEffect ==
  ASSUME Shape, NEW c \in Calls, NEW t, Resolves(c, t)
  PROVE  /\ DOMAIN found' = Calls
         /\ found'[c].targets = push_resolved_relay(found[c].targets, t)
         /\ found'[c].outcomes = found[c].outcomes
         /\ \A d \in Calls : DOMAIN found'[d] = {"targets", "outcomes"}
         /\ \A d \in Calls \ {c} : found'[d] = found[d]
<1>1. /\ DOMAIN found' = Calls
      /\ found'[c] = [found[c] EXCEPT !.targets =
                        push_resolved_relay(found[c].targets, t)]
      /\ \A d \in Calls \ {c} : found'[d] = found[d]
  BY DEF Resolves, Shape
<1>2. /\ found'[c].targets = push_resolved_relay(found[c].targets, t)
      /\ found'[c].outcomes = found[c].outcomes
      /\ DOMAIN found'[c] = {"targets", "outcomes"}
  BY <1>1 DEF Shape
<1> QED BY <1>1, <1>2 DEF Shape

(* One turn of a loop over relays.                                         *)
Finds(c, e) ==
  /\ e.kind = "nostr" /\ Parse[e.input] # None
  /\ stage' = stage
  /\ Resolves(c, [url |-> Parse[e.input], scope |-> e.scope,
                  source |-> SourceOf(stage[c])])
  /\ passed' = IF PublicPolicy
               THEN [passed EXCEPT ![c] =
                       @ \cup {<<Parse[e.input], SourceOf(stage[c])>>}]
               ELSE passed

Reports(c, e) ==
  /\ stage' = stage /\ passed' = passed
  /\ DOMAIN found' = Calls
  /\ found'[c].targets = found[c].targets
  /\ \E o : /\ found'[c].outcomes = Append(found[c].outcomes, o)
            /\ OutcomeKey(o) = EntryKey(e)
  /\ \A d \in Calls : DOMAIN found'[d] = {"targets", "outcomes"}
  /\ \A d \in Calls \ {c} : found'[d] = found[d]

PassesOver(c) ==
  /\ UNCHANGED <<found, passed>>
  /\ \/ stage' = stage /\ stage[c] # "request"
     \/ stage' = [stage EXCEPT ![c] = "failed"]

(* A turn is one of these.                                                 *)
LEMMA CheckKinds ==
  ASSUME Shape, NEW c \in Calls, NEW answer, CheckNext(c, answer)
  PROVE  LET e == Head(todo[c])
         IN  Finds(c, e) \/ Reports(c, e) \/ PassesOver(c)
<1> DEFINE e == Head(todo[c])
<1>1. stage' = IF e.kind = "malformed" THEN [stage EXCEPT ![c] = "failed"]
               ELSE stage
  BY DEF CheckNext
<1>2. \/ /\ e.kind = "nostr" /\ Parse[e.input] # None
         /\ CheckUrl(c, Parse[e.input], e.scope, answer)
      \/ /\ e.kind = "nostr" /\ Parse[e.input] = None
         /\ Malformed(c, e)
      \/ /\ e.kind = "reticulum"
         /\ Failure(c, e.kind, Trim[e.input], e.scope, "Reticulum",
                    "DeferredUntilImplemented")
      \/ /\ e.kind = "other"
         /\ Failure(c, e.kind, Trim[e.input], e.scope, "Request",
                    "Unsupported")
      \/ e.kind = "malformed" /\ UNCHANGED <<found, passed>>
  BY DEF CheckNext
<1> HIDE DEF e
<1>3. ASSUME NEW end, NEW source, NEW outcome,
             Failure(c, e.kind, end, e.scope, source, outcome),
             e.kind # "malformed", EntryKey(e) = <<e.kind, end, e.scope>>
      PROVE  Reports(c, e)
  <2>1. /\ DOMAIN found' = Calls /\ passed' = passed
        /\ found'[c].targets = found[c].targets
        /\ \E o : /\ found'[c].outcomes = Append(found[c].outcomes, o)
                  /\ OutcomeKey(o) = <<e.kind, end, e.scope>>
        /\ \A d \in Calls : DOMAIN found'[d] = {"targets", "outcomes"}
        /\ \A d \in Calls \ {c} : found'[d] = found[d]
    BY <1>3, FailureEffect
  <2> QED BY <1>1, <1>3, <2>1 DEF Reports
<1>4. ASSUME e.kind = "nostr", Parse[e.input] # None,
             CheckUrl(c, Parse[e.input], e.scope, answer)
      PROVE  Finds(c, e) \/ Reports(c, e)
  <2>1. EntryKey(e) = <<e.kind, Parse[e.input], e.scope>>
    BY <1>4 DEF EntryKey
  <2>2. CASE \E outcome : Failure(c, "nostr", Parse[e.input], e.scope,
                                  SourceOf(stage[c]), outcome)
    <3>1. PICK outcome : Failure(c, "nostr", Parse[e.input], e.scope,
                                 SourceOf(stage[c]), outcome)
      BY <2>2
    <3>2. Failure(c, e.kind, Parse[e.input], e.scope, SourceOf(stage[c]),
                  outcome)
      BY <1>4, <3>1
    <3>3. e.kind # "malformed"
      BY <1>4
    <3>4. Reports(c, e)
      BY <1>3, <2>1, <3>2, <3>3
    <3> QED BY <3>4
  <2>3. CASE ~\E outcome : Failure(c, "nostr", Parse[e.input], e.scope,
                                   SourceOf(stage[c]), outcome)
    <3>1. /\ found' = [found EXCEPT ![c].targets =
                         push_resolved_relay(@, [url |-> Parse[e.input],
                           scope |-> e.scope, source |-> SourceOf(stage[c])])]
          /\ passed' = IF PublicPolicy
                       THEN [passed EXCEPT ![c] = @ \cup
                               {<<Parse[e.input], SourceOf(stage[c])>>}]
                       ELSE passed
      BY <1>4, <2>3 DEF CheckUrl, NeedsLookup
    <3>2. Resolves(c, [url |-> Parse[e.input], scope |-> e.scope,
                       source |-> SourceOf(stage[c])])
      BY <3>1 DEF Resolves
    <3>3. stage' = stage
      BY <1>1, <1>4
    <3>4. Finds(c, e)
      BY <1>4, <3>1, <3>2, <3>3 DEF Finds
    <3> QED BY <3>4
  <2> QED BY <2>2, <2>3
<1>5. ASSUME e.kind = "nostr", Parse[e.input] = None, Malformed(c, e)
      PROVE  Reports(c, e) \/ PassesOver(c)
  <2>1. EntryKey(e) = <<e.kind, e.input, e.scope>> /\ e.kind # "malformed"
    BY <1>5 DEF EntryKey
  <2>2. CASE stage[c] = "request"
    <3>1. Failure(c, e.kind, e.input, e.scope, "Request", "TargetRejected")
      BY <1>5, <2>2 DEF Malformed
    <3>2. Reports(c, e)
      BY <1>3, <2>1, <3>1
    <3> QED BY <3>2
  <2>3. CASE stage[c] # "request"
    BY <1>1, <1>5, <2>3 DEF Malformed, PassesOver
  <2> QED BY <2>2, <2>3
<1>6. ASSUME NEW source, NEW outcome, e.kind \in {"reticulum", "other"},
             Failure(c, e.kind, Trim[e.input], e.scope, source, outcome)
      PROVE  Reports(c, e)
  <2>1. e.kind # "nostr" /\ e.kind # "malformed"
    BY <1>6
  <2>2. EntryKey(e) = <<e.kind, Trim[e.input], e.scope>>
    BY <2>1 DEF EntryKey
  <2> QED BY <1>3, <1>6, <2>1, <2>2
<1>7. ASSUME e.kind = "malformed", UNCHANGED <<found, passed>>
      PROVE  PassesOver(c)
  BY <1>1, <1>7 DEF PassesOver
<1>8. Finds(c, e) \/ Reports(c, e) \/ PassesOver(c)
  BY <1>2, <1>4, <1>5, <1>6, <1>7
<1> QED BY <1>8 DEF e

(* The invariant after a step of one call.                                 *)
LEMMA Assemble ==
  ASSUME IInv, NEW c \in Calls, Shape', Others(c), CallInv(c)'
  PROVE  IInv'
<1>1. ASSUME NEW d \in Calls \ {c} PROVE CallInv(d)'
  <2>1. CallInv(d)
    BY DEF IInv
  <2>2. /\ stage'[d] = stage[d] /\ request'[d] = request[d]
        /\ todo'[d] = todo[d] /\ found'[d] = found[d]
        /\ kept'[d] = kept[d] /\ passed'[d] = passed[d]
    BY DEF Others
  <2> QED BY <2>1, <2>2, OthersStay
<1>2. \A d \in Calls : CallInv(d)'
  BY <1>1
<1> QED BY <1>2 DEF IInv

(* What a turn of a loop leaves to be done.                                *)
LEMMA CheckTodo ==
  ASSUME IInv, NEW c \in Calls, NEW answer, CheckNext(c, answer)
  PROVE  /\ stage[c] \in Passes /\ request' = request /\ kept' = kept
         /\ DOMAIN todo' = Calls
         /\ \A d \in Calls \ {c} : todo'[d] = todo[d]
         /\ stage[c] = "default" =>
              /\ todo'[c] \in Seq(Entry)
              /\ \A e \in Range(todo'[c]) : IsDefault(e.input)
              /\ IsDefault(Head(todo[c]).input)
         /\ stage[c] = "request" =>
              /\ todo'[c] \in Seq(Entry)
              /\ Range(todo[c]) \subseteq {Head(todo[c])} \cup Range(todo'[c])
<1>1. /\ stage[c] \in Passes /\ request' = request /\ kept' = kept
      /\ todo[c] # <<>>
  BY DEF CheckNext
<1>2. /\ DOMAIN todo' = Calls /\ todo'[c] = Tail(todo[c])
      /\ \A d \in Calls \ {c} : todo'[d] = todo[d]
  BY DEF CheckNext, IInv, Shape
<1>3. ASSUME todo[c] \in Seq(Entry)
      PROVE  /\ todo'[c] \in Seq(Entry)
             /\ Range(todo[c]) \subseteq {Head(todo[c])} \cup Range(todo'[c])
             /\ Range(todo'[c]) \subseteq Range(todo[c])
             /\ Head(todo[c]) \in Range(todo[c])
  <2>1. todo[c] \in Seq(Range(todo[c]))
    BY <1>3, SequenceIntro DEF IsSequence
  <2>2. Head(todo[c]) \in Range(todo[c])
    BY <1>1, <2>1, TakeFirst
  <2> QED BY <1>1, <1>2, <1>3, <2>2, TakeFirst
<1>4. stage[c] = "default" =>
        /\ todo[c] \in Seq(Entry)
        /\ \A e \in Range(todo[c]) : IsDefault(e.input)
  BY DEF IInv, CallInv, TargetInv
<1>5. stage[c] = "request" => todo[c] \in Seq(Entry)
  BY DEF IInv, CallInv, RequestInv
<1> QED BY <1>1, <1>2, <1>3, <1>4, <1>5

(* A relay that passes the check becomes a target.                         *)
LEMMA FindsStep ==
  ASSUME IInv, NEW c \in Calls, NEW answer, CheckNext(c, answer),
         Finds(c, Head(todo[c]))
  PROVE  IInv'
<1> DEFINE e == Head(todo[c])
           source == SourceOf(stage[c])
           t == [url |-> Parse[e.input], scope |-> e.scope,
                 source |-> source]
<1>1. /\ e.kind = "nostr" /\ Parse[e.input] # None /\ stage' = stage
      /\ Resolves(c, t)
      /\ passed' = IF PublicPolicy
                   THEN [passed EXCEPT ![c] =
                           @ \cup {<<Parse[e.input], source>>}]
                   ELSE passed
  BY DEF Finds
<1>2. t.url = Parse[e.input] /\ t.scope = e.scope /\ t.source = source
  OBVIOUS
<1>3. /\ stage[c] \in Passes /\ request' = request /\ kept' = kept
      /\ DOMAIN todo' = Calls
      /\ \A d \in Calls \ {c} : todo'[d] = todo[d]
      /\ stage[c] = "default" =>
           /\ todo'[c] \in Seq(Entry)
           /\ \A x \in Range(todo'[c]) : IsDefault(x.input)
           /\ IsDefault(e.input)
      /\ stage[c] = "request" =>
           /\ todo'[c] \in Seq(Entry)
           /\ Range(todo[c]) \subseteq {e} \cup Range(todo'[c])
  BY CheckTodo
<1> HIDE DEF e, t
<1>4. Shape /\ TargetInv(c) /\ AuthorInv(c) /\ RequestInv(c)
  BY DEF IInv, CallInv
<1>5. /\ DOMAIN found' = Calls
      /\ found'[c].targets = push_resolved_relay(found[c].targets, t)
      /\ found'[c].outcomes = found[c].outcomes
      /\ \A d \in Calls : DOMAIN found'[d] = {"targets", "outcomes"}
      /\ \A d \in Calls \ {c} : found'[d] = found[d]
  BY <1>1, <1>4, ResolvesEffect
<1>6. /\ IsSequence(found'[c].targets) /\ Distinct(found'[c].targets)
      /\ found'[c].targets # <<>>
      /\ Range(found[c].targets) \subseteq Range(found'[c].targets)
      /\ Range(found'[c].targets) \subseteq Range(found[c].targets) \cup {t}
      /\ \E x \in Range(found'[c].targets) :
           x.url = t.url /\ x.scope = t.scope
  <2>1. IsSequence(found[c].targets) /\ Distinct(found[c].targets)
    BY <1>4 DEF TargetInv
  <2> DEFINE s == found[c].targets
             r == found'[c].targets
  <2>2. IsSequence(s) /\ Distinct(s) /\ r = push_resolved_relay(s, t)
    BY <1>5, <2>1
  <2> HIDE DEF s, r
  <2>3. /\ IsSequence(r) /\ Distinct(r) /\ r # <<>>
        /\ Range(s) \subseteq Range(r)
        /\ Range(r) \subseteq Range(s) \cup {t}
        /\ \E x \in Range(r) : x.url = t.url /\ x.scope = t.scope
    BY <2>2, PushEffect
  <2> QED BY <2>3 DEF s, r
<1>7. /\ DOMAIN passed' = Calls /\ passed[c] \subseteq passed'[c]
      /\ passed'[c] \subseteq passed[c] \cup {<<t.url, source>>}
      /\ PublicPolicy => <<t.url, source>> \in passed'[c]
      /\ \A d \in Calls \ {c} : passed'[d] = passed[d]
  BY <1>1, <1>2, <1>4 DEF Shape
<1>8. Shape' /\ Others(c)
  BY <1>1, <1>3, <1>4, <1>5, <1>7 DEF Shape, Others
<1>9. TargetInv(c)'
  <2>1. ASSUME NEW x \in Range(found'[c].targets)
        PROVE  /\ PublicPolicy => <<x.url, x.source>> \in passed'[c]
               /\ x.source = source
               /\ stage[c] = "default" =>
                    \E n \in DOMAIN Defaults : Parse[Defaults[n]] = x.url
    <3>1. CASE x = t
      BY <1>2, <1>3, <1>7, <3>1 DEF IsDefault
    <3>2. CASE x \in Range(found[c].targets)
      <4>1. /\ PublicPolicy => <<x.url, x.source>> \in passed[c]
            /\ x.source = source
            /\ (stage[c] = "default" /\ x.source = "DaemonDefault") =>
                 \E n \in DOMAIN Defaults : Parse[Defaults[n]] = x.url
        BY <1>3, <1>4, <3>2 DEF TargetInv
      <4>2. stage[c] = "default" => source = "DaemonDefault"
        BY DEF SourceOf
      <4> QED BY <1>7, <4>1, <4>2
    <3> QED BY <1>6, <3>1, <3>2
  <2>2. stage[c] # "done" /\ stage'[c] = stage[c]
    BY <1>1, <1>3 DEF Passes
  <2> QED BY <1>3, <1>6, <2>1, <2>2 DEF TargetInv
<1>10. AuthorInv(c)'
  <2>1. stage[c] \notin {"done", "failed"} /\ stage'[c] = stage[c]
    BY <1>1, <1>3 DEF Passes
  <2>2. CASE stage[c] \in {"cached", "discovered"}
    BY <1>6, <2>1, <2>2 DEF AuthorInv
  <2>3. CASE stage[c] \notin {"cached", "discovered"}
    <3>1. NoAuthorRelay(c)
      BY <1>4, <2>1, <2>3 DEF AuthorInv
    <3>2. source # "NostrAuthorWrite"
      BY <2>3 DEF SourceOf
    <3>3. \A x \in passed'[c] : x[2] # "NostrAuthorWrite"
      BY <1>7, <3>1, <3>2 DEF NoAuthorRelay
    <3> QED BY <2>1, <2>3, <3>3 DEF AuthorInv, NoAuthorRelay
  <2> QED BY <2>2, <2>3
<1>11. RequestInv(c)'
  <2>1. stage[c] # "done" /\ stage'[c] = stage[c] /\ request'[c] = request[c]
    BY <1>1, <1>3 DEF Passes
  <2>2. \A x : Answered(c, x) => Answered(c, x)'
    BY <1>5, <1>6 DEF Answered
  <2>3. ASSUME NEW x, x = e PROVE Answered(c, x)'
    <3>1. EntryKey(x) = <<"nostr", t.url, t.scope>>
      BY <1>1, <1>2, <2>3 DEF EntryKey
    <3>2. \E y \in Range(found'[c].targets) : TargetKey(y) = EntryKey(x)
      BY <1>6, <3>1 DEF TargetKey
    <3> QED BY <3>2 DEF Answered
  <2>4. ASSUME stage[c] = "request"
        PROVE  /\ kept'[c] = <<>> /\ IsSequence(found'[c].outcomes)
               /\ todo'[c] \in Seq(Entry)
               /\ \A x \in Range(request'[c].entries) :
                    x \in Range(todo'[c]) \/ Answered(c, x)'
    <3>1. /\ kept[c] = <<>> /\ IsSequence(found[c].outcomes)
          /\ \A x \in Range(request[c].entries) :
               x \in Range(todo[c]) \/ Answered(c, x)
      BY <1>4, <2>4 DEF RequestInv
    <3> QED BY <1>3, <1>5, <2>1, <2>2, <2>3, <2>4, <3>1
  <2> QED BY <1>4, <2>1, <2>4 DEF RequestInv
<1> QED BY <1>8, <1>9, <1>10, <1>11, Assemble DEF CallInv

(* A relay that fails it is reported.                                      *)
LEMMA ReportsStep ==
  ASSUME IInv, NEW c \in Calls, NEW answer, CheckNext(c, answer),
         Reports(c, Head(todo[c]))
  PROVE  IInv'
<1> DEFINE e == Head(todo[c])
<1>1. /\ stage' = stage /\ passed' = passed
      /\ DOMAIN found' = Calls
      /\ found'[c].targets = found[c].targets
      /\ \E o : /\ found'[c].outcomes = Append(found[c].outcomes, o)
                /\ OutcomeKey(o) = EntryKey(e)
      /\ \A d \in Calls : DOMAIN found'[d] = {"targets", "outcomes"}
      /\ \A d \in Calls \ {c} : found'[d] = found[d]
  BY DEF Reports
<1>2. /\ stage[c] \in Passes /\ request' = request /\ kept' = kept
      /\ DOMAIN todo' = Calls
      /\ \A d \in Calls \ {c} : todo'[d] = todo[d]
      /\ stage[c] = "default" =>
           /\ todo'[c] \in Seq(Entry)
           /\ \A x \in Range(todo'[c]) : IsDefault(x.input)
      /\ stage[c] = "request" =>
           /\ todo'[c] \in Seq(Entry)
           /\ Range(todo[c]) \subseteq {e} \cup Range(todo'[c])
  BY CheckTodo
<1> HIDE DEF e
<1>3. Shape /\ TargetInv(c) /\ AuthorInv(c) /\ RequestInv(c)
  BY DEF IInv, CallInv
<1>4. Shape' /\ Others(c)
  BY <1>1, <1>2, <1>3 DEF Shape, Others
<1>5. TargetInv(c)'
  BY <1>1, <1>2, <1>3 DEF TargetInv
<1>6. AuthorInv(c)'
  BY <1>1, <1>2, <1>3 DEF AuthorInv, NoAuthorRelay
<1>7. RequestInv(c)'
  <2>1. stage[c] # "done" /\ stage'[c] = stage[c] /\ request'[c] = request[c]
    BY <1>1, <1>2 DEF Passes
  <2>2. PICK o : /\ found'[c].outcomes = Append(found[c].outcomes, o)
                 /\ OutcomeKey(o) = EntryKey(e)
    BY <1>1
  <2>3. ASSUME stage[c] = "request"
        PROVE  /\ kept'[c] = <<>> /\ IsSequence(found'[c].outcomes)
               /\ todo'[c] \in Seq(Entry)
               /\ \A x \in Range(request'[c].entries) :
                    x \in Range(todo'[c]) \/ Answered(c, x)'
    <3>1. /\ kept[c] = <<>> /\ IsSequence(found[c].outcomes)
          /\ \A x \in Range(request[c].entries) :
               x \in Range(todo[c]) \/ Answered(c, x)
      BY <1>3, <2>3 DEF RequestInv
    <3>2. /\ IsSequence(found'[c].outcomes)
          /\ Range(found'[c].outcomes) = Range(found[c].outcomes) \cup {o}
      BY <2>2, <3>1, AppendAny
    <3>3. \A x : Answered(c, x) => Answered(c, x)'
      BY <1>1, <3>2 DEF Answered
    <3>4. ASSUME NEW x, x = e PROVE Answered(c, x)'
      BY <2>2, <3>2, <3>4 DEF Answered
    <3> QED BY <1>2, <2>1, <2>3, <3>1, <3>2, <3>3, <3>4
  <2> QED BY <1>3, <2>1, <2>3 DEF RequestInv
<1> QED BY <1>4, <1>5, <1>6, <1>7, Assemble DEF CallInv

(* A call that gives up keeps what it has.                                 *)
LEMMA FailedStep ==
  ASSUME IInv, NEW c \in Calls, stage[c] # "idle",
         stage' = [stage EXCEPT ![c] = "failed"],
         UNCHANGED <<request, found, kept, passed>>,
         DOMAIN todo' = Calls, \A d \in Calls \ {c} : todo'[d] = todo[d]
  PROVE  IInv'
<1>1. Shape /\ TargetInv(c) /\ AuthorInv(c) /\ RequestInv(c)
  BY DEF IInv, CallInv
<1>2. /\ stage' \in [Calls -> Places] /\ stage'[c] = "failed"
      /\ \A d \in Calls \ {c} : stage'[d] = stage[d]
  BY <1>1 DEF Shape, Places
<1>3. Shape' /\ Others(c)
  BY <1>1, <1>2 DEF Shape, Others
<1>4. TargetInv(c)'
  BY <1>1, <1>2 DEF TargetInv, Passes
<1>5. AuthorInv(c)'
  BY <1>2 DEF AuthorInv
<1>6. RequestInv(c)'
  BY <1>1, <1>2 DEF RequestInv
<1> QED BY <1>3, <1>4, <1>5, <1>6, Assemble DEF CallInv

(* A string that is no relay URL, in a relay list or the configuration, is *)
(* passed over.                                                            *)
LEMMA PassesOverStep ==
  ASSUME IInv, NEW c \in Calls, NEW answer, CheckNext(c, answer),
         PassesOver(c)
  PROVE  IInv'
<1>1. /\ stage[c] \in Passes /\ request' = request /\ kept' = kept
      /\ DOMAIN todo' = Calls
      /\ \A d \in Calls \ {c} : todo'[d] = todo[d]
      /\ stage[c] = "default" =>
           /\ todo'[c] \in Seq(Entry)
           /\ \A x \in Range(todo'[c]) : IsDefault(x.input)
  BY CheckTodo
<1>2. stage[c] \notin {"idle", "done", "failed"}
  BY <1>1 DEF Passes
<1>3. CASE stage' = [stage EXCEPT ![c] = "failed"]
  BY <1>1, <1>2, <1>3, FailedStep DEF PassesOver
<1>4. CASE stage' = stage /\ stage[c] # "request"
  <2>1. Shape /\ TargetInv(c) /\ AuthorInv(c) /\ RequestInv(c)
    BY DEF IInv, CallInv
  <2>2. found' = found /\ passed' = passed
    BY DEF PassesOver
  <2>3. Shape' /\ Others(c)
    BY <1>1, <1>4, <2>1, <2>2 DEF Shape, Others
  <2>4. TargetInv(c)'
    BY <1>1, <1>4, <2>1, <2>2 DEF TargetInv
  <2>5. AuthorInv(c)'
    BY <1>4, <2>1, <2>2 DEF AuthorInv, NoAuthorRelay
  <2>6. RequestInv(c)'
    BY <1>1, <1>2, <1>4, <2>1 DEF RequestInv
  <2> QED BY <2>3, <2>4, <2>5, <2>6, Assemble DEF CallInv
<1> QED BY <1>3, <1>4 DEF PassesOver

(* One turn of a loop over relays keeps the invariant.                     *)
LEMMA CheckNextStep ==
  ASSUME IInv, NEW c \in Calls, NEW answer, CheckNext(c, answer)
  PROVE  IInv'
<1> DEFINE e == Head(todo[c])
<1>1. Finds(c, e) \/ Reports(c, e) \/ PassesOver(c)
  BY CheckKinds DEF IInv
<1> QED BY <1>1, FindsStep, ReportsStep, PassesOverStep

(* The pass over the configured defaults.                                  *)
LEMMA PlainDefaults ==
  /\ Plain(Defaults) \in Seq(Entry)
  /\ \A e \in Range(Plain(Defaults)) : IsDefault(e.input)
<1>1. Defaults \in Seq(Inputs)
  BY ResolutionAssumption
<1>2. /\ Len(Defaults) \in Nat /\ DOMAIN Defaults = 1..Len(Defaults)
      /\ \A i \in 1..Len(Defaults) : Defaults[i] \in Inputs
  BY <1>1, LenProperties, ElementOfSeq
<1>3. Plain(Defaults) \in [1..Len(Defaults) -> Entry]
  BY <1>2 DEF Plain, Entry
<1>4. Plain(Defaults) \in Seq(Entry)
  BY <1>2, <1>3
<1>5. ASSUME NEW e \in Range(Plain(Defaults)) PROVE IsDefault(e.input)
  BY <1>2, <1>5 DEF Plain, IsDefault, Range
<1> QED BY <1>4, <1>5

(* A new pass begins as long as no relay of the author has been found.     *)
LEMMA BeginStep ==
  ASSUME IInv, NEW c \in Calls,
         NEW pass \in Passes \cup {"readCache", "fetch"},
         NEW entries, NEW outs, Begin(c, pass, entries, outs),
         NoAuthorRelay(c), passed' = passed,
         request' \in [Calls -> Requests \cup {NoRequest}],
         request'[c] \in Requests,
         \A d \in Calls \ {c} : request'[d] = request[d],
         pass = "default" => entries = Plain(Defaults),
         pass = "request" =>
           /\ outs = <<>> /\ entries = request'[c].entries
           /\ entries \in Seq(Entry),
         pass # "request" /\ request'[c].policy \in Explicit =>
           request'[c].entries = <<>>
  PROVE  IInv'
<1>1. Shape /\ pass \in Places /\ pass \notin {"idle", "done", "failed"}
  BY DEF IInv, Places, Passes
<1>2. /\ stage' \in [Calls -> Places] /\ DOMAIN todo' = Calls
      /\ DOMAIN found' = Calls /\ DOMAIN kept' = Calls
      /\ stage'[c] = pass /\ todo'[c] = entries
      /\ found'[c].targets = <<>> /\ found'[c].outcomes = <<>>
      /\ kept'[c] = outs
      /\ \A d \in Calls : DOMAIN found'[d] = {"targets", "outcomes"}
      /\ \A d \in Calls \ {c} :
           /\ stage'[d] = stage[d] /\ todo'[d] = todo[d]
           /\ found'[d] = found[d] /\ kept'[d] = kept[d]
  BY <1>1, BeginEffect
<1>3. Shape' /\ Others(c)
  BY <1>1, <1>2 DEF Shape, Others
<1>4. IsSequence(<<>>) /\ Range(<<>>) = {} /\ Distinct(<<>>)
  BY EmptyIsSequence DEF Distinct
<1>5. TargetInv(c)'
  <2>1. pass = "default" =>
          /\ todo'[c] \in Seq(Entry)
          /\ \A e \in Range(todo'[c]) : IsDefault(e.input)
    BY <1>2, PlainDefaults
  <2> QED BY <1>2, <1>4, <2>1 DEF TargetInv
<1>6. AuthorInv(c)'
  BY <1>1, <1>2 DEF AuthorInv, NoAuthorRelay
<1>7. RequestInv(c)'
  BY <1>1, <1>2, <1>4 DEF RequestInv
<1> QED BY <1>3, <1>5, <1>6, <1>7, Assemble DEF CallInv

(* The last pass ends the call.                                            *)
LEMMA FinishStep ==
  ASSUME IInv, NEW c \in Calls, todo[c] = <<>>, Finish(c),
         UNCHANGED <<request, passed>>,
         stage[c] \in {"request", "default", "cached", "discovered"},
         stage[c] \in {"cached", "discovered"} => found[c].targets # <<>>
  PROVE  IInv'
<1>1. Shape /\ TargetInv(c) /\ AuthorInv(c) /\ RequestInv(c)
  BY DEF IInv, CallInv
<1>2. /\ stage' \in [Calls -> Places] /\ DOMAIN todo' = Calls
      /\ DOMAIN found' = Calls /\ DOMAIN kept' = Calls
      /\ stage'[c] = "done"
      /\ found'[c].targets = found[c].targets
      /\ found'[c].outcomes = found[c].outcomes \o kept[c]
      /\ \A d \in Calls : DOMAIN found'[d] = {"targets", "outcomes"}
      /\ \A d \in Calls \ {c} :
           /\ stage'[d] = stage[d] /\ todo'[d] = todo[d]
           /\ found'[d] = found[d] /\ kept'[d] = kept[d]
  BY <1>1, FinishEffect
<1>3. Shape' /\ Others(c)
  BY <1>1, <1>2 DEF Shape, Others
<1>4. \A t \in Range(found[c].targets) : t.source = SourceOf(stage[c])
  BY <1>1 DEF TargetInv, Passes
<1>5. TargetInv(c)'
  <2>1. ASSUME NEW t \in Range(found[c].targets), t.source = "DaemonDefault"
        PROVE  \E n \in DOMAIN Defaults : Parse[Defaults[n]] = t.url
    <3>1. stage[c] = "default"
      BY <1>4, <2>1 DEF SourceOf
    <3> QED BY <1>1, <2>1, <3>1 DEF TargetInv
  <2> QED BY <1>1, <1>2, <2>1 DEF TargetInv, Passes
<1>6. AuthorInv(c)'
  <2>1. CASE stage[c] \in {"cached", "discovered"}
    <3>1. \A t \in Range(found'[c].targets) : t.source # "DaemonDefault"
      BY <1>2, <1>4, <2>1 DEF SourceOf
    <3> QED BY <1>2, <3>1 DEF AuthorInv
  <2>2. CASE stage[c] \notin {"cached", "discovered"}
    <3>1. NoAuthorRelay(c)
      BY <1>1, <2>2 DEF AuthorInv
    <3> QED BY <1>2, <3>1 DEF AuthorInv, NoAuthorRelay
  <2> QED BY <2>1, <2>2
<1>7. RequestInv(c)'
  <2>1. request'[c] = request[c] /\ request[c] \in Requests
    BY <1>1 DEF RequestInv
  <2>2. ASSUME request[c].policy \in Explicit,
               NEW e \in Range(request[c].entries)
        PROVE  Answered(c, e)'
    <3>1. CASE stage[c] = "request"
      <4>1. /\ kept[c] = <<>> /\ IsSequence(found[c].outcomes)
            /\ e \in Range(todo[c]) \/ Answered(c, e)
        BY <1>1, <2>2, <3>1 DEF RequestInv
      <4>2. found'[c].outcomes = found[c].outcomes
        BY <1>2, <4>1, ConcatEmptySeq DEF IsSequence
      <4>3. todo[c] = <<>> => e \notin Range(todo[c])
        BY EmptyIsSequence
      <4> QED BY <1>2, <4>1, <4>2, <4>3 DEF Answered
    <3>2. CASE stage[c] # "request"
      <4>1. request[c].entries = <<>>
        BY <1>1, <2>2, <3>2 DEF RequestInv
      <4> QED BY <2>2, <4>1, EmptyIsSequence
    <3> QED BY <3>1, <3>2
  <2> QED BY <1>2, <2>1, <2>2 DEF RequestInv
<1> QED BY <1>3, <1>5, <1>6, <1>7, Assemble DEF CallInv

(* The discovery, which has no targets yet, goes on.                       *)
LEMMA DiscoveryStep ==
  ASSUME IInv, NEW c \in Calls, Fetch(c) \/ StoreCache(c)
  PROVE  IInv'
<1>1. Shape /\ TargetInv(c) /\ AuthorInv(c) /\ RequestInv(c)
  BY DEF IInv, CallInv
<1>2. stage[c] \in {"fetch", "store"}
  BY DEF Fetch, StoreCache
<1>3. /\ stage' \in [Calls -> Places]
      /\ stage'[c] \in {"store", "discovered"}
      /\ \A d \in Calls \ {c} : stage'[d] = stage[d]
  BY <1>1 DEF Fetch, StoreCache, Shape, Places, Passes
<1>4. UNCHANGED <<request, found, kept, passed>>
  BY DEF Fetch, StoreCache
<1>5. DOMAIN todo' = Calls /\ \A d \in Calls \ {c} : todo'[d] = todo[d]
  <2>1. CASE Fetch(c)
    BY <1>1, <2>1 DEF Fetch, Shape
  <2>2. CASE StoreCache(c)
    BY <1>1, <2>2 DEF StoreCache, Shape
  <2> QED BY <2>1, <2>2
<1>6. Shape' /\ Others(c)
  BY <1>1, <1>3, <1>4, <1>5 DEF Shape, Others
<1>7. found[c].targets = <<>> /\ Range(<<>>) = {}
  BY <1>1, <1>2, EmptyIsSequence DEF TargetInv, Passes
<1>8. TargetInv(c)'
  BY <1>1, <1>3, <1>4, <1>7 DEF TargetInv
<1>9. AuthorInv(c)'
  BY <1>1, <1>2, <1>3, <1>4 DEF AuthorInv, NoAuthorRelay
<1>10. RequestInv(c)'
  BY <1>1, <1>2, <1>3, <1>4 DEF RequestInv
<1> QED BY <1>6, <1>8, <1>9, <1>10, Assemble DEF CallInv

(* The call starts with the pass its policy names.                         *)
LEMMA StartStep ==
  ASSUME IInv, NEW c \in Calls, NEW q \in Requests, Start(c, q)
  PROVE  IInv'
<1>1. Shape /\ AuthorInv(c) /\ stage[c] = "idle"
  BY DEF IInv, CallInv, Start
<1>2. NoAuthorRelay(c) /\ passed' = passed
  BY <1>1 DEF AuthorInv, Start
<1>3. /\ request' \in [Calls -> Requests \cup {NoRequest}]
      /\ request'[c] = q
      /\ \A d \in Calls \ {c} : request'[d] = request[d]
  BY <1>1 DEF Shape, Start
<1>4. q.entries \in Seq(Entry)
  BY ResolutionAssumption
<1>5. CASE Begin(c, "request", q.entries, <<>>)
  BY <1>2, <1>3, <1>4, <1>5, BeginStep DEF Passes
<1>6. CASE /\ \/ q.policy = "author_then_default"
              \/ /\ q.policy = "request_then_author_then_default"
                 /\ q.entries = <<>>
           /\ Begin(c, "readCache", <<>>, <<>>)
  <2>1. q.policy \in Explicit => q.entries = <<>>
    BY <1>6 DEF Explicit
  <2> QED BY <1>2, <1>3, <1>6, <2>1, BeginStep
<1>7. CASE /\ q.policy = "default_only"
           /\ Begin(c, "default", Plain(Defaults), <<>>)
  <2>1. q.policy \notin Explicit
    BY <1>7 DEF Explicit
  <2> QED BY <1>2, <1>3, <1>7, <2>1, BeginStep DEF Passes
<1> QED BY <1>5, <1>6, <1>7 DEF Start

(* The passes for the author's relays follow each other.                   *)
LEMMA PassStep ==
  ASSUME IInv, NEW c \in Calls,
         \/ LastPassDone(c) \/ ReadCache(c) \/ CachedDone(c)
         \/ DiscoveryDone(c) \/ DiscoveredDone(c)
  PROVE  IInv'
<1>1. Shape /\ AuthorInv(c) /\ RequestInv(c)
  BY DEF IInv, CallInv
<1>2. UNCHANGED <<request, passed>>
  BY DEF LastPassDone, ReadCache, CachedDone, DiscoveryDone, DiscoveredDone
<1>3. request' \in [Calls -> Requests \cup {NoRequest}]
  BY <1>1, <1>2 DEF Shape
<1>4. ASSUME stage[c] \in {"readCache", "cached", "discovery", "discovered"},
             stage[c] \in {"cached", "discovered"} => found[c].targets = <<>>,
             NEW pass \in {"cached", "discovery", "fetch", "default"},
             NEW entries, NEW outs, Begin(c, pass, entries, outs),
             pass = "default" => entries = Plain(Defaults)
      PROVE  IInv'
  <2>1. NoAuthorRelay(c)
    BY <1>1, <1>4 DEF AuthorInv
  <2>2. /\ request'[c] \in Requests
        /\ request'[c].policy \in Explicit => request'[c].entries = <<>>
    BY <1>1, <1>2, <1>4 DEF RequestInv
  <2>3. pass \in Passes \cup {"readCache", "fetch"} /\ pass # "request"
    BY <1>4 DEF Passes
  <2>4. \A d \in Calls \ {c} : request'[d] = request[d]
    BY <1>2
  <2> QED BY <1>2, <1>3, <1>4, <2>1, <2>2, <2>3, <2>4, BeginStep
<1>5. CASE LastPassDone(c)
  BY <1>2, <1>5, FinishStep DEF LastPassDone
<1>6. CASE ReadCache(c)
  BY <1>4, <1>6 DEF ReadCache
<1>7. CASE CachedDone(c)
  <2>1. CASE found[c].targets # <<>> /\ Finish(c)
    BY <1>2, <1>7, <2>1, FinishStep DEF CachedDone
  <2>2. CASE ~(found[c].targets # <<>> /\ Finish(c))
    BY <1>4, <1>7, <2>2 DEF CachedDone
  <2> QED BY <2>1, <2>2
<1>8. CASE DiscoveryDone(c)
  BY <1>4, <1>8 DEF DiscoveryDone
<1>9. CASE DiscoveredDone(c)
  <2>1. CASE found[c].targets # <<>> /\ Finish(c)
    BY <1>2, <1>9, <2>1, FinishStep DEF DiscoveredDone
  <2>2. CASE ~(found[c].targets # <<>> /\ Finish(c))
    BY <1>4, <1>9, <2>2 DEF DiscoveredDone
  <2> QED BY <2>1, <2>2
<1> QED BY <1>5, <1>6, <1>7, <1>8, <1>9

(* The invariant holds at the start.                                       *)
LEMMA InitInv == Init => IInv
<1> SUFFICES ASSUME Init PROVE IInv
  OBVIOUS
<1>1. /\ Nothing.targets = <<>> /\ Nothing.outcomes = <<>>
      /\ DOMAIN Nothing = {"targets", "outcomes"}
  BY DEF Nothing
<1>2. Shape
  BY <1>1 DEF Init, Shape, Places
<1>3. ASSUME NEW c \in Calls PROVE CallInv(c)
  <2>1. stage[c] = "idle" /\ found[c] = Nothing /\ passed[c] = {}
    BY DEF Init
  <2>2. IsSequence(<<>>) /\ Range(<<>>) = {} /\ Distinct(<<>>)
    BY EmptyIsSequence DEF Distinct
  <2>3. TargetInv(c)
    BY <1>1, <2>1, <2>2 DEF TargetInv, Passes
  <2>4. AuthorInv(c)
    BY <2>1 DEF AuthorInv, NoAuthorRelay
  <2>5. RequestInv(c)
    BY <2>1 DEF RequestInv
  <2> QED BY <2>3, <2>4, <2>5 DEF CallInv
<1> QED BY <1>2, <1>3 DEF IInv

(* Every step keeps it.                                                    *)
LEMMA NextInv == IInv /\ [Next]_vars => IInv'
<1> SUFFICES ASSUME IInv, [Next]_vars PROVE IInv'
  OBVIOUS
<1>1. CASE UNCHANGED vars
  <2>1. Shape'
    BY <1>1 DEF vars, IInv, Shape
  <2>2. ASSUME NEW c \in Calls PROVE CallInv(c)'
    <3>1. CallInv(c)
      BY DEF IInv
    <3> QED BY <1>1, <3>1, OthersStay DEF vars
  <2> QED BY <2>1, <2>2 DEF IInv
<1>2. ASSUME NEW c \in Calls, GiveUp(c) PROVE IInv'
  <2>1. /\ stage[c] # "idle" /\ stage' = [stage EXCEPT ![c] = "failed"]
        /\ UNCHANGED <<request, found, kept, passed>> /\ todo' = todo
    BY <1>2 DEF GiveUp
  <2>2. DOMAIN todo' = Calls /\ \A d \in Calls \ {c} : todo'[d] = todo[d]
    BY <2>1 DEF IInv, Shape
  <2> QED BY <2>1, <2>2, FailedStep
<1>3. ASSUME NEW c \in Calls, CallStep(c) PROVE IInv'
  BY <1>3, CheckNextStep, PassStep, DiscoveryStep DEF CallStep
<1>4. ASSUME NEW c \in Calls, NEW q \in Requests, Start(c, q) PROVE IInv'
  BY <1>4, StartStep
<1> QED BY <1>1, <1>2, <1>3, <1>4 DEF Next

(* IInv is an invariant of the specification.                              *)
LEMMA Invariant == Spec => []IInv
BY InitInv, NextInv, PTL DEF Spec

-----------------------------------------------------------------------------
(* THE THEOREMS                                                            *)

(* push_resolved_relay: however relays are spelled and whichever pass      *)
(* finds them, an event goes to a relay once per scope.                    *)
THEOREM TargetsDistinct == Spec => []TargetsAreDistinct
<1>1. IInv => TargetsAreDistinct
  <2> SUFFICES ASSUME IInv, NEW c \in Calls PROVE Distinct(found[c].targets)
    BY DEF TargetsAreDistinct, Distinct
  <2> QED BY DEF IInv, CallInv, TargetInv
<1> QED BY <1>1, Invariant, PTL

(* push_checked_relay_target: under the public policy each relay an event  *)
(* goes to was found public by the call that sends it, cached or not.      *)
THEOREM CheckedTargets == Spec => []TargetsCheckedByThisCall
<1>1. IInv => TargetsCheckedByThisCall
  BY DEF IInv, CallInv, TargetInv, TargetsCheckedByThisCall
<1> QED BY <1>1, Invariant, PTL

(* resolve_author_write_relays: the defaults receive an event only if no   *)
(* relay of its author passed the check, and relays that are merely asked  *)
(* for the relay list never do.                                            *)
THEOREM DefaultsFallBack == Spec => []DefaultsAreTheFallback
<1>1. IInv => DefaultsAreTheFallback
  <2> SUFFICES ASSUME IInv, NEW c \in Calls, stage[c] = "done",
                      NEW t \in Range(found[c].targets),
                      t.source = "DaemonDefault"
               PROVE  /\ \A u \in Urls :
                           <<u, "NostrAuthorWrite">> \notin passed[c]
                      /\ \E i \in DOMAIN Defaults :
                           Parse[Defaults[i]] = t.url
    BY DEF DefaultsAreTheFallback
  <2>1. TargetInv(c) /\ AuthorInv(c)
    BY DEF IInv, CallInv
  <2>2. NoAuthorRelay(c)
    BY <2>1 DEF AuthorInv
  <2>3. ASSUME NEW u \in Urls, <<u, "NostrAuthorWrite">> \in passed[c]
        PROVE  FALSE
    <3>1. <<u, "NostrAuthorWrite">>[2] # "NostrAuthorWrite"
      BY <2>2, <2>3 DEF NoAuthorRelay
    <3> QED BY <3>1
  <2>4. \E i \in DOMAIN Defaults : Parse[Defaults[i]] = t.url
    BY <2>1 DEF TargetInv
  <2> QED BY <2>3, <2>4
<1> QED BY <1>1, Invariant, PTL

(* resolve_explicit_targets, resolve_request_relays: each entry a request  *)
(* names is a target or has an outcome that says why not.                  *)
THEOREM RequestAnswered == Spec => []RequestIsAnswered
<1>1. IInv => RequestIsAnswered
  <2> SUFFICES ASSUME IInv, NEW c \in Calls, stage[c] = "done",
                      request[c].policy \in Explicit,
                      NEW e \in Range(request[c].entries)
               PROVE  EntryKey(e) \in
                        {TargetKey(t) : t \in Range(found[c].targets)} \cup
                        {OutcomeKey(o) : o \in Range(found[c].outcomes)}
    BY DEF RequestIsAnswered, Explicit
  <2>1. Answered(c, e)
    BY DEF IInv, CallInv, RequestInv
  <2> QED BY <2>1 DEF Answered
<1> QED BY <1>1, Invariant, PTL
================================================================================
