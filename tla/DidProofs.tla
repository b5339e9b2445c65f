------------------------------ MODULE DidProofs ------------------------------
(***************************************************************************)
(* Proofs about DidResolver, for any documents, credentials, configurations*)
(* and caches: which credential of a did-configuration a verdict is about, *)
(* and whose key it rests on.  EndpointProofs is about the endpoints.      *)
(***************************************************************************)
EXTENDS DidResolver, TLAPS

USE UrisAssumption, AlgsAssumption, DocsAssumption

\* The entries whose credential may become dataProof, and those whose algorithm
\* may become alg.
Datas == {i \in Passing : config.linked[i].data # Nil}
Jwts == {i \in Passing : config.linked[i].jwt # Nil}

IsFirst(i, S) == i \in S /\ \A j \in S : i <= j

\* The variables a verdict is computed from.
Typed ==
    /\ \A d \in Dids : cache[d] \in Docs[d] \cup {Nil}
    /\ DOMAIN cache = Dids
    /\ pc \in {"idle", "getForEndpoints", "getForKeys", "endpoints", "origin", "linked", "keys"}
    /\ config \in ConfigType
    /\ next \in 1..(Len(config.linked) + 1)
    /\ payload \in Credentials \cup {Nil}
    /\ alg \in Algs \cup {Nil}

\* A call has no result before it ends; it knows whose document it wants.
CallShape ==
    /\ pc # "idle" => result = Nil
    /\ pc = "linked" => config.kind = "good"
    /\ pc \in {"getForEndpoints", "getForKeys"} => did \in Dids
    /\ pc = "keys" => diDoc \in Docs[did]

\* The loop of resolveDidConfig has kept the first credential that passes, and
\* the algorithm of the first JWT that does.
LoopSoFar ==
    pc = "linked" =>
        /\ \/ payload = Nil /\ \A i \in Datas : i >= next
           \/ \E i \in Datas : IsFirst(i, Datas) /\ i < next /\ payload = config.linked[i].data
        /\ \/ alg = Nil /\ \A i \in Jwts : i >= next
           \/ \E i \in Jwts : IsFirst(i, Jwts) /\ i < next /\ alg = config.linked[i].jwt

\* The signature is checked of that credential, with that algorithm.
Chosen ==
    /\ Datas # {}
    /\ payload = config.linked[First(Datas)].data
    /\ did = payload.did
    /\ alg = IF Jwts = {} THEN AlgFromProof(payload) ELSE config.linked[First(Jwts)].jwt
KeysForConfig == config.kind = "good" /\ pc \in {"getForKeys", "keys"} => Chosen

\* A verdict is that of Verify, or there was no credential to verify.
VerdictGiven ==
    /\ Answered("verdict") /\ result.verified =>
          /\ diDoc \in Docs[did]
          /\ \E m \in diDoc.methods : Accepts(m, payload, alg)
    /\ Answered("verdict") /\ config.kind = "good" =>
          \/ Datas = {} /\ ~result.verified
          \/ Chosen /\ (result.verified <=> \E m \in diDoc.methods : Accepts(m, payload, alg))

Inv == Typed /\ CallShape /\ LoopSoFar /\ KeysForConfig /\ VerdictGiven

----------------------------------------------------------------------------
(* Lemmas *)

LEMMA FirstIs ==
    ASSUME NEW S, S \subseteq Nat, NEW i, IsFirst(i, S)
    PROVE  First(S) = i
<1>1. \A k \in S : (\A j \in S : k <= j) => k = i
      BY DEF IsFirst
<1> QED
    BY <1>1 DEF First, IsFirst

LEMMA EntryTypes ==
    ASSUME NEW c \in ConfigType
    PROVE  /\ c.linked \in Seq(Entries) /\ Len(c.linked) \in Nat
           /\ DOMAIN c.linked = 1..Len(c.linked)
           /\ \A i \in 1..Len(c.linked) :
                 /\ c.linked[i].data \in Credentials \cup {Nil}
                 /\ c.linked[i].jwt \in Algs \cup {Nil}
<1>1. c.linked \in Seq(Entries)
      BY DEF ConfigType
<1>2. \A i \in 1..Len(c.linked) : c.linked[i] \in Entries
      BY <1>1
<1> QED
    BY <1>1, <1>2 DEF Entries

LEMMA NoConfigTyped ==
    /\ NoConfig \in ConfigType /\ NoConfig.kind = "rejected" /\ NoConfig.linked = <<>>
    /\ [NoConfig EXCEPT !.kind = "mistyped"] \in ConfigType
    /\ [NoConfig EXCEPT !.kind = "mistyped"].kind = "mistyped"
<1>1. <<>> \in Seq(Entries)
      OBVIOUS
<1> QED
    BY <1>1 DEF NoConfig, ConfigType

LEMMA ProofTypes ==
    ASSUME NEW c \in Credentials
    PROVE  c.did \in Dids /\ AlgFromProof(c) \in Algs
BY DEF Credentials, AlgFromProof

LEMMA Indices ==
    ASSUME Typed
    PROVE  /\ Datas \subseteq Passing /\ Jwts \subseteq Passing
           /\ Passing \subseteq 1..Len(config.linked) /\ Passing \subseteq Nat
           /\ Len(config.linked) \in Nat /\ next \in Nat
<1>1. DOMAIN config.linked = 1..Len(config.linked) /\ Len(config.linked) \in Nat
      BY EntryTypes DEF Typed
<1> QED
    BY <1>1 DEF Typed, Datas, Jwts, Passing

----------------------------------------------------------------------------
(* Starting a call forgets the one before *)

\* config is none that is checked entry by entry.
Forgets == config'.kind # "good" /\ (result' # Nil => result' \in {Threw, Verdict(FALSE)})

LEMMA StartForgets ==
    ASSUME Typed, Start
    PROVE  \/ Forgets
           \/ /\ pc' = "linked" /\ config'.kind = "good" /\ next' = 1
              /\ payload' = Nil /\ alg' = Nil /\ result' = Nil
<1> USE DEF Fresh, AtOnce
<1>1. \A d \in Dids, ts \in SUBSET Types : ResolveDid(d, ts) => Forgets
      BY NoConfigTyped DEF ResolveDid, Call, Forgets
<1>2. RejectConfig \/ ResolveVCThrows => Forgets
      BY NoConfigTyped DEF RejectConfig, ResolveVCThrows, Forgets
<1>3. MistypedConfig => Forgets
      BY NoConfigTyped DEF MistypedConfig, Forgets
<1>4. \A c \in VCs, d \in Dids : ResolveVC(c, d) => Forgets
      BY NoConfigTyped DEF ResolveVC, Call, Forgets
<1> QED
    BY <1>1, <1>2, <1>3, <1>4 DEF Start, LoadConfig, Call

LEMMA StartTyped ==
    ASSUME Typed, Start
    PROVE  Typed' /\ CallShape'
<1> USE DEF Fresh, AtOnce
<1>1. /\ NoConfig \in ConfigType /\ NoConfig.kind # "good" /\ NoConfig.linked = <<>>
      /\ [NoConfig EXCEPT !.kind = "mistyped"] \in ConfigType
      /\ [NoConfig EXCEPT !.kind = "mistyped"].kind # "good"
      BY NoConfigTyped
<1>2. \A c \in ConfigType : 1 \in 1..(Len(c.linked) + 1)
      BY EntryTypes
<1> USE DEF Typed, CallShape
<1>3. ASSUME NEW d \in Dids, NEW ts \in SUBSET Types, ResolveDid(d, ts)
      PROVE  Typed' /\ CallShape'
      BY <1>1, <1>2, <1>3 DEF ResolveDid, Call
<1>4. CASE RejectConfig \/ ResolveVCThrows
      BY <1>1, <1>2, <1>4 DEF RejectConfig, ResolveVCThrows
<1>5. CASE MistypedConfig
      BY <1>1, <1>2, <1>5 DEF MistypedConfig
<1>6. ASSUME NEW c \in Configs, LoadConfig(c), ~RejectConfig, ~MistypedConfig
      PROVE  Typed' /\ CallShape'
  <2>1. c \in ConfigType
        OBVIOUS
  <2> QED
      BY <1>2, <1>6, <2>1 DEF LoadConfig, Call
<1>7. ASSUME NEW c \in VCs, NEW d \in Dids, ResolveVC(c, d)
      PROVE  Typed' /\ CallShape'
  <2>1. c \in Credentials /\ AlgFromProof(c) \in Algs
        BY ProofTypes
  <2> QED
      BY <1>1, <1>2, <1>7, <2>1 DEF ResolveVC, Call
<1> QED
    BY <1>3, <1>4, <1>5, <1>6, <1>7 DEF Start, LoadConfig

----------------------------------------------------------------------------
(* The other steps *)

\* What leaves the call that is under way alone.
Elsewhere == \/ \E d \in Dids : OtherThreadPuts(d) \/ Expire(d)
             \/ UNCHANGED vars

\* Steps of a resolveDid call, and the loads that fail.
Plain ==
    \/ LoadFails \/ CollectEndpoints \/ EndpointsBreak
    \/ OriginOfId \/ OriginOfFirst \/ OriginBreaks \/ NoOrigin
    \/ LinkedDidThrows \/ LinkedDataUnproven \/ VerifyThrows

LEMMA PlainFields ==
    ASSUME Typed, CallShape, Plain
    PROVE  /\ cache' = cache /\ config' = config /\ next' = next /\ payload' = payload
           /\ alg' = alg /\ did' = did /\ diDoc' = diDoc
           /\ pc' \in {"origin", "idle"} /\ pc # "idle"
           /\ pc' = "origin" => result' = Nil
           /\ ~Answered("verdict")'
<1> USE DEF Return, Goto, locals, Answered, CallShape
<1>1. CASE LoadFails
      BY <1>1 DEF LoadFails, Getting, Threw
<1>2. CASE CollectEndpoints
      BY <1>2 DEF CollectEndpoints
<1>3. CASE \/ EndpointsBreak \/ LinkedDidThrows \/ LinkedDataUnproven
           \/ OriginBreaks \/ VerifyThrows
      BY <1>3 DEF EndpointsBreak, LinkedDidThrows, LinkedDataUnproven, OriginBreaks,
         VerifyThrows, Threw
<1>4. CASE OriginOfId \/ OriginOfFirst \/ NoOrigin
      BY <1>4 DEF OriginOfId, OriginOfFirst, NoOrigin, Resolved
<1> QED
    BY <1>1, <1>2, <1>3, <1>4 DEF Plain

LEMMA GetDocument ==
    ASSUME Typed, CallShape, CacheHit \/ Load
    PROVE  /\ config' = config /\ next' = next /\ payload' = payload
           /\ alg' = alg /\ did' = did /\ result' = Nil /\ diDoc' \in Docs[did]
           /\ DOMAIN cache' = Dids /\ \A d \in Dids : cache'[d] \in Docs[d] \cup {Nil}
           /\ \/ pc = "getForEndpoints" /\ pc' = "endpoints"
              \/ pc = "getForKeys" /\ pc' = "keys"
<1> USE DEF Typed, CallShape, Continue, Goto
<1>1. CASE CacheHit
      BY <1>1 DEF CacheHit
<1>2. CASE Load
      BY <1>2 DEF Load
<1> QED
    BY <1>1, <1>2

\* Nothing of a credential is known but its place in the configuration.
LEMMA SameConfig ==
    ASSUME config' = config
    PROVE  Datas' = Datas /\ Jwts' = Jwts /\ Passing' = Passing
BY DEF Datas, Jwts, Passing

LEMMA TypedStep ==
    ASSUME Typed, CallShape, [Next]_vars
    PROVE  Typed' /\ CallShape'
<1>1. CASE Start
      BY <1>1, StartTyped
<1>2. CASE Plain
      BY <1>2, PlainFields DEF Typed, CallShape
<1>3. CASE CacheHit \/ Load
      BY <1>3, GetDocument DEF Typed, CallShape
<1>4. CASE LinkedDid
  <2>1. /\ next \in 1..Len(config.linked) /\ Len(config.linked) \in Nat
        /\ Entry.data \in Credentials \cup {Nil} /\ Entry.jwt \in Algs \cup {Nil}
        BY <1>4, EntryTypes DEF LinkedDid, InLoop, Entry, Typed
  <2> QED
      BY <1>4, <2>1 DEF LinkedDid, InLoop, Goto, Typed, CallShape
<1>5. CASE NoLinkedData
      BY <1>5 DEF NoLinkedData, Return, locals, Typed, CallShape
<1>6. CASE LinkedData
  <2>1. payload.did \in Dids /\ AlgFromProof(payload) \in Algs
        BY <1>6, ProofTypes DEF LinkedData, Typed
  <2> QED
      BY <1>6, <2>1 DEF LinkedData, Goto, Typed, CallShape
<1>7. CASE Verify
      BY <1>7 DEF Verify, Return, locals, Typed, CallShape
<1>8. CASE Elsewhere
      BY <1>8 DEF Elsewhere, OtherThreadPuts, Expire, vars, locals, Typed, CallShape
<1> QED
    BY <1>1, <1>2, <1>3, <1>4, <1>5, <1>6, <1>7, <1>8 DEF Next, Step, Plain, Elsewhere

LEMMA LoopStep ==
    ASSUME Typed, CallShape, LoopSoFar, [Next]_vars
    PROVE  LoopSoFar'
<1>1. CASE Start
  <2>1. CASE Forgets
        BY <1>1, <2>1, StartTyped DEF Forgets, LoopSoFar, CallShape
  <2>2. CASE next' = 1 /\ payload' = Nil /\ alg' = Nil
    <3>1. Datas' \subseteq Nat /\ Jwts' \subseteq Nat /\ \A i \in Datas' \cup Jwts' : i >= 1
          BY <1>1, StartTyped, EntryTypes DEF Typed, Datas, Jwts, Passing
    <3> QED
        BY <2>2, <3>1 DEF LoopSoFar
  <2> QED
      BY <1>1, <2>1, <2>2, StartForgets
<1>2. CASE Plain
      BY <1>2, PlainFields DEF LoopSoFar
<1>3. CASE CacheHit \/ Load
      BY <1>3, GetDocument DEF LoopSoFar
<1>4. CASE LinkedDid
  <2>1. /\ config' = config /\ next' = next + 1 /\ pc = "linked"
        /\ next \in 1..Len(config.linked)
        /\ payload' = IF Entry.does = "pass" /\ payload = Nil THEN Entry.data ELSE payload
        /\ alg' = IF Entry.does = "pass" /\ alg = Nil THEN Entry.jwt ELSE alg
        BY <1>4, Indices DEF LinkedDid, InLoop, Goto, Typed
  <2>2. /\ Datas' = Datas /\ Jwts' = Jwts
        /\ Datas \subseteq Nat /\ Jwts \subseteq Nat /\ next \in Nat
        BY <2>1, SameConfig, Indices
  <2>3. /\ next \in Datas <=> Entry.does = "pass" /\ Entry.data # Nil
        /\ next \in Jwts <=> Entry.does = "pass" /\ Entry.jwt # Nil
    <3>1. DOMAIN config.linked = 1..Len(config.linked)
          BY EntryTypes DEF Typed
    <3> QED
        BY <2>1, <3>1 DEF Datas, Jwts, Passing, Entry
  <2>4. \/ payload' = Nil /\ \A i \in Datas : i >= next + 1
        \/ \E i \in Datas : IsFirst(i, Datas) /\ i < next + 1 /\ payload' = config.linked[i].data
    <3>1. CASE payload = Nil /\ \A i \in Datas : i >= next
      <4>1. CASE next \in Datas
        <5>1. IsFirst(next, Datas) /\ next < next + 1 /\ payload' = config.linked[next].data
              BY <2>1, <2>2, <2>3, <3>1, <4>1 DEF IsFirst, Entry
        <5> QED
            BY <4>1, <5>1
      <4>2. CASE next \notin Datas
        <5>1. payload' = Nil
              BY <2>1, <2>3, <3>1, <4>2
        <5>2. \A i \in Datas : i >= next + 1
              BY <2>2, <3>1, <4>2
        <5> QED
            BY <5>1, <5>2
      <4> QED
          BY <4>1, <4>2
    <3>2. ASSUME NEW i \in Datas, IsFirst(i, Datas), i < next, payload = config.linked[i].data
          PROVE  i < next + 1 /\ payload' = config.linked[i].data
      <4>1. payload # Nil
            BY <3>2 DEF Datas
      <4> QED
          BY <2>1, <2>2, <3>2, <4>1
    <3> QED
        BY <2>1, <3>1, <3>2 DEF LoopSoFar
  <2>5. \/ alg' = Nil /\ \A i \in Jwts : i >= next + 1
        \/ \E i \in Jwts : IsFirst(i, Jwts) /\ i < next + 1 /\ alg' = config.linked[i].jwt
    <3>1. CASE alg = Nil /\ \A i \in Jwts : i >= next
      <4>1. CASE next \in Jwts
        <5>1. IsFirst(next, Jwts) /\ next < next + 1 /\ alg' = config.linked[next].jwt
              BY <2>1, <2>2, <2>3, <3>1, <4>1 DEF IsFirst, Entry
        <5> QED
            BY <4>1, <5>1
      <4>2. CASE next \notin Jwts
        <5>1. alg' = Nil
              BY <2>1, <2>3, <3>1, <4>2
        <5>2. \A i \in Jwts : i >= next + 1
              BY <2>2, <3>1, <4>2
        <5> QED
            BY <5>1, <5>2
      <4> QED
          BY <4>1, <4>2
    <3>2. ASSUME NEW i \in Jwts, IsFirst(i, Jwts), i < next, alg = config.linked[i].jwt
          PROVE  i < next + 1 /\ alg' = config.linked[i].jwt
      <4>1. alg # Nil
            BY <3>2 DEF Jwts
      <4> QED
          BY <2>1, <2>2, <3>2, <4>1
    <3> QED
        BY <2>1, <3>1, <3>2 DEF LoopSoFar
  <2> QED
      BY <2>1, <2>2, <2>4, <2>5 DEF LoopSoFar
<1>5. CASE NoLinkedData \/ LinkedData \/ Verify
      BY <1>5 DEF NoLinkedData, LinkedData, Verify, Return, Goto, LoopSoFar
<1>6. CASE Elsewhere
  <2>1. config' = config /\ payload' = payload /\ alg' = alg /\ next' = next /\ pc' = pc
        BY <1>6 DEF Elsewhere, OtherThreadPuts, Expire, vars, locals
  <2> QED
      BY <2>1, SameConfig DEF LoopSoFar
<1> QED
    BY <1>1, <1>2, <1>3, <1>4, <1>5, <1>6 DEF Next, Step, Plain, Elsewhere

\* When the loop is over, what it has kept is the first of all there are.
LEMMA LoopResult ==
    ASSUME Typed, CallShape, LoopSoFar, LoopOver
    PROVE  /\ payload = Nil => Datas = {}
           /\ payload # Nil =>
                /\ Datas # {} /\ payload = config.linked[First(Datas)].data
                /\ payload \in Credentials
           /\ alg = Nil => Jwts = {}
           /\ alg # Nil => Jwts # {} /\ alg = config.linked[First(Jwts)].jwt
<1>1. /\ pc = "linked" /\ next > Len(config.linked) /\ next \in Nat
      /\ Datas \subseteq 1..Len(config.linked) /\ Jwts \subseteq 1..Len(config.linked)
      /\ Len(config.linked) \in Nat /\ Datas \subseteq Nat /\ Jwts \subseteq Nat
      BY Indices DEF LoopOver
<1>2. \A i \in Datas \cup Jwts : ~(i >= next)
      BY <1>1
<1>3. \/ payload = Nil /\ Datas = {}
      \/ payload # Nil /\ Datas # {} /\ payload = config.linked[First(Datas)].data
  <2>1. CASE payload = Nil /\ \A i \in Datas : i >= next
        BY <1>2, <2>1
  <2>2. ASSUME NEW i \in Datas, IsFirst(i, Datas), payload = config.linked[i].data
        PROVE  payload # Nil /\ payload = config.linked[First(Datas)].data
    <3>1. First(Datas) = i
          BY <1>1, <2>2, FirstIs
    <3> QED
        BY <2>2, <3>1 DEF Datas
  <2> QED
      BY <1>1, <2>1, <2>2 DEF LoopSoFar
<1>4. \/ alg = Nil /\ Jwts = {}
      \/ alg # Nil /\ Jwts # {} /\ alg = config.linked[First(Jwts)].jwt
  <2>1. CASE alg = Nil /\ \A i \in Jwts : i >= next
        BY <1>2, <2>1
  <2>2. ASSUME NEW i \in Jwts, IsFirst(i, Jwts), alg = config.linked[i].jwt
        PROVE  alg # Nil /\ alg = config.linked[First(Jwts)].jwt
    <3>1. First(Jwts) = i
          BY <1>1, <2>2, FirstIs
    <3> QED
        BY <2>2, <3>1 DEF Jwts
  <2> QED
      BY <1>1, <2>1, <2>2 DEF LoopSoFar
<1> QED
    BY <1>3, <1>4 DEF Typed

LEMMA ChosenKept ==
    ASSUME Chosen, config' = config, payload' = payload, did' = did, alg' = alg
    PROVE  Chosen'
BY SameConfig DEF Chosen

LEMMA KeysStep ==
    ASSUME Typed, CallShape, LoopSoFar, KeysForConfig, [Next]_vars
    PROVE  KeysForConfig'
<1>1. CASE Start
      BY <1>1, StartForgets DEF Forgets, KeysForConfig
<1>2. CASE Plain
      BY <1>2, PlainFields DEF KeysForConfig
<1>3. CASE CacheHit \/ Load
      BY <1>3, GetDocument, ChosenKept DEF KeysForConfig
<1>4. CASE LinkedDid \/ NoLinkedData \/ Verify
      BY <1>4 DEF LinkedDid, NoLinkedData, Verify, Return, Goto, KeysForConfig
<1>5. CASE LinkedData
  <2>1. /\ LoopOver /\ payload # Nil /\ config' = config /\ payload' = payload
        /\ did' = payload.did
        /\ alg' = IF alg = Nil THEN AlgFromProof(payload) ELSE alg
        BY <1>5 DEF LinkedData
  <2>2. /\ Datas # {} /\ payload = config.linked[First(Datas)].data
        /\ alg = Nil => Jwts = {}
        /\ alg # Nil => Jwts # {} /\ alg = config.linked[First(Jwts)].jwt
        BY <2>1, LoopResult
  <2> QED
      BY <2>1, <2>2, SameConfig DEF KeysForConfig, Chosen
<1>6. CASE Elsewhere
  <2>1. config' = config /\ payload' = payload /\ alg' = alg /\ did' = did /\ pc' = pc
        BY <1>6 DEF Elsewhere, OtherThreadPuts, Expire, vars, locals
  <2> QED
      BY <2>1, ChosenKept DEF KeysForConfig
<1> QED
    BY <1>1, <1>2, <1>3, <1>4, <1>5, <1>6 DEF Next, Step, Plain, Elsewhere

LEMMA VerdictStep ==
    ASSUME Typed, CallShape, LoopSoFar, KeysForConfig, VerdictGiven, [Next]_vars
    PROVE  VerdictGiven'
<1>1. CASE Start
      BY <1>1, StartForgets DEF Forgets, VerdictGiven, Answered, Threw, Verdict
<1>2. CASE Plain
      BY <1>2, PlainFields DEF VerdictGiven
<1>3. ASSUME result' = Nil
      PROVE  VerdictGiven'
      BY <1>3 DEF VerdictGiven, Answered
<1>4. CASE CacheHit \/ Load
      BY <1>3, <1>4, GetDocument
<1>5. CASE LinkedDid \/ LinkedData
  <2>1. result' = result /\ pc = "linked"
        BY <1>5 DEF LinkedDid, LinkedData, Goto
  <2> QED
      BY <1>3, <2>1 DEF CallShape
<1>6. CASE NoLinkedData
  <2>1. LoopOver /\ payload = Nil /\ result' = Verdict(FALSE) /\ config' = config
        BY <1>6 DEF NoLinkedData, Return, locals
  <2>2. Datas' = {}
        BY <2>1, LoopResult, SameConfig
  <2> QED
      BY <2>1, <2>2 DEF VerdictGiven, Verdict
<1>7. CASE Verify
  <2> DEFINE yes == \E m \in diDoc.methods : Accepts(m, payload, alg)
  <2>1. /\ pc = "keys" /\ result' = Verdict(yes) /\ config' = config /\ payload' = payload
        /\ alg' = alg /\ did' = did /\ diDoc' = diDoc
        BY <1>7 DEF Verify, Return, locals
  <2>2. diDoc \in Docs[did]
        BY <2>1 DEF CallShape
  <2>3. result'.verified = yes
        BY <2>1 DEF Verdict
  <2>4. yes' = yes
        BY <2>1
  <2>5. config'.kind = "good" => Chosen'
        BY <2>1, ChosenKept DEF KeysForConfig
  <2> QED
      BY <2>1, <2>2, <2>3, <2>4, <2>5 DEF VerdictGiven
<1>8. CASE Elsewhere
  <2>1. /\ config' = config /\ payload' = payload /\ alg' = alg /\ did' = did
        /\ diDoc' = diDoc /\ result' = result
        BY <1>8 DEF Elsewhere, OtherThreadPuts, Expire, vars, locals
  <2> QED
      BY <2>1, ChosenKept, SameConfig DEF VerdictGiven, Answered
<1> QED
    BY <1>1, <1>2, <1>4, <1>5, <1>6, <1>7, <1>8 DEF Next, Step, Plain, Elsewhere

----------------------------------------------------------------------------
(* The theorems *)

LEMMA InvInit == Init => Inv
<1> SUFFICES ASSUME Init
             PROVE  Inv
    OBVIOUS
<1>1. Typed
      BY NoConfigTyped DEF Init, Typed
<1> QED
    BY <1>1, NoConfigTyped DEF Init, Inv, CallShape, LoopSoFar, KeysForConfig, VerdictGiven,
       Answered

LEMMA InvStep == Inv /\ [Next]_vars => Inv'
BY TypedStep, LoopStep, KeysStep, VerdictStep DEF Inv

\* Inv is an invariant of DIDResolver, whatever the documents and the cache.
THEOREM Invariant == Spec => []Inv
BY InvInit, InvStep, PTL DEF Spec

\* The verdict on a did-configuration is about the first credential that passes,
\* whatever entries are skipped before it and whatever passes after it.
THEOREM FirstDecides == Spec => []ConfigVerdict
<1>1. Inv => ConfigVerdict
  <2> SUFFICES ASSUME VerdictGiven, Answered("verdict"), config.kind = "good"
               PROVE  result.verified <=>
                        /\ Datas # {}
                        /\ LET c == config.linked[First(Datas)].data
                               a == IF Jwts = {} THEN AlgFromProof(c)
                                    ELSE config.linked[First(Jwts)].jwt
                           IN did = c.did /\ \E m \in diDoc.methods : Accepts(m, c, a)
      BY DEF Inv, ConfigVerdict, Datas, Jwts
  <2>1. CASE Datas = {} /\ ~result.verified
        BY <2>1
  <2>2. CASE Chosen /\ (result.verified <=> \E m \in diDoc.methods : Accepts(m, payload, alg))
        BY <2>2 DEF Chosen
  <2> QED
      BY <2>1, <2>2 DEF VerdictGiven
<1> QED
    BY <1>1, Invariant, PTL

\* A credential verifies only by its signer's key, found in a document of the DID
\* in question, whatever other threads and Caffeine do to the cache meanwhile.
THEOREM VerdictsJustified == Spec => []VerdictJustified
<1>1. Inv => VerdictJustified
      BY DEF Inv, VerdictGiven, VerdictJustified, Accepts
<1> QED
    BY <1>1, Invariant, PTL
==============================================================================
