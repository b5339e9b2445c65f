----------------------------- MODULE CacheProofs -----------------------------
(***************************************************************************)
(* Proofs about VerificationCaches, for every set of configured timeouts   *)
(* and any number of renewals by the owner.                                *)
(***************************************************************************)
EXTENDS VerificationCaches, TLAPS

USE TimeoutsAssumption, MaxGenAssumption

AfterConfig == {"vc", "key", "context", "tl"}
Reading == {"did", "config", "configKey", "configContext"} \cup AfterConfig

\* What the current request has read so far, by where it stands; all of it once
\* it has its verdict.
HasRead(c) ==
    \/ pc = "idle"
    \/ c = "did" /\ pc # "did"
    \/ c = "config" /\ pc \notin {"did", "config"}
    \/ c = "context" /\ pc \in AfterConfig
    \/ c = "vc" /\ pc \in {"key", "context", "tl"}

\* The world a request sees while nothing disturbs it: the owner's credentials
\* fit its key and its list, an entry that still lives is what a load would return, and
\* so is everything the request has read.
Undisturbed ==
    quiet /\ (pc # "idle" \/ verdict # "none") =>
        /\ Settled
        /\ \A c \in CacheNames : Live(c) => cache[c].doc = remote[c]
        /\ \A c \in CacheNames : HasRead(c) => seen[c] = remote[c]

\* schema.org itself never changes.
ContextPublished == remote["context"] = Doc(0, 0, "published")

\* The verdict of the last request, told by the documents it has read.
VerdictOfSeen ==
    verdict # "none" =>
        /\ pc = "idle"
        /\ verdict = "verified" <=>
              /\ seen["vc"] = Doc(seen["did"].key, seen["tl"].list, "none")
              /\ seen["context"].context = signed

\* So is the verdict on the did-configuration from when there is one.
ConfigVerdict ==
    quiet /\ (pc \in AfterConfig \/ verdict # "none") =>
        (didVerified <=> signed = "published")

Inv == TypeOK /\ ContextPublished /\ Undisturbed /\ VerdictOfSeen /\ ConfigVerdict

----------------------------------------------------------------------------
\* A tick keeps an entry's ages within its bounds, and idle no longer than old.
LEMMA CappedAges ==
    ASSUME NEW t \in Nat, NEW age \in Nat, NEW idle \in Nat, age <= t + 1, idle <= age
    PROVE  /\ Capped(age, t + 1) \in Nat /\ Capped(idle, t) \in Nat
           /\ Capped(age, t + 1) <= t + 1
           /\ Capped(idle, t) <= Capped(age, t + 1)
BY DEF Capped

\* What there is of an entry that is loaded.
LEMMA LoadedEntry ==
    ASSUME NEW x \in Entries, x.loaded
    PROVE  x \in [loaded : {TRUE}, doc : Docs, age : Nat, idle : Nat]
<1>1. None.loaded = FALSE
      BY DEF None
<1>2. x # None
      BY <1>1
<1> QED
    BY <1>2 DEF Entries

\* An entry that was just loaded, and one that is read again, keep the type.
LEMMA EntryType ==
    ASSUME TypeOK, NEW c \in CacheNames,
           NEW e, e = IF Live(c) THEN [cache[c] EXCEPT !.idle = 0]
                      ELSE Fresh(remote[c])
    PROVE  /\ e \in Entries /\ e.loaded /\ e.doc \in Docs
           /\ e.age \in 0..(timeout[c] + 1) /\ e.idle = 0
           /\ Live(c) => e.doc = cache[c].doc
           /\ ~Live(c) => e.doc = remote[c]
<1>1. timeout[c] \in Nat /\ remote[c] \in Docs /\ cache[c] \in Entries
      BY DEF TypeOK
<1>2. CASE Live(c)
  <2>1. cache[c] \in [loaded : {TRUE}, doc : Docs, age : Nat, idle : Nat]
        BY <1>1, <1>2, LoadedEntry DEF Live
  <2>2. cache[c].age \in 0..(timeout[c] + 1)
        BY <1>1, <1>2, <2>1 DEF TypeOK, Live
  <2> QED
      BY <1>1, <1>2, <2>1, <2>2 DEF Entries
<1>3. CASE ~Live(c)
      BY <1>1, <1>3 DEF Fresh, Entries
<1> QED
    BY <1>2, <1>3

\* What a read does to the state, whichever document it is for.
LEMMA ReadType ==
    ASSUME TypeOK, NEW c \in CacheNames, NEW from,
           NEW to \in Reading \cup {"idle"}, Read(c, from, to)
    PROVE  /\ cache' \in [CacheNames -> Entries]
           /\ \A d \in CacheNames : cache'[d].loaded =>
                 cache'[d].age <= timeout'[d] + 1 /\ cache'[d].idle <= cache'[d].age
           /\ seen' \in [CacheNames -> Docs] /\ overdue' \in BOOLEAN
           /\ \A d \in CacheNames : d # c => cache'[d] = cache[d] /\ seen'[d] = seen[d]
           /\ seen'[c] = cache'[c].doc
           /\ Live(c) => seen'[c] = cache[c].doc
           /\ ~Live(c) => seen'[c] = remote[c]
<1> DEFINE e == IF Live(c) THEN [cache[c] EXCEPT !.idle = 0] ELSE Fresh(remote[c])
<1>1. /\ cache' = [cache EXCEPT ![c] = e]
      /\ seen' = [seen EXCEPT ![c] = e.doc]
      /\ overdue' = (overdue \/ e.age > timeout[c])
      /\ timeout' = timeout
      BY DEF Read
<1>2. /\ e \in Entries /\ e.loaded /\ e.doc \in Docs
      /\ e.age \in 0..(timeout[c] + 1) /\ e.idle = 0
      /\ Live(c) => e.doc = cache[c].doc
      /\ ~Live(c) => e.doc = remote[c]
      BY EntryType
<1> HIDE DEF e
<1>3. timeout \in [CacheNames -> Nat] /\ overdue \in BOOLEAN
      BY DEF TypeOK
<1> QED
    BY <1>1, <1>2, <1>3 DEF TypeOK

\* The owner's documents and the verdict are well typed after every step; the
\* context it signs under never changes.
LEMMA TypeInit == Init => TypeOK
<1> SUFFICES ASSUME Init
             PROVE  TypeOK
    OBVIOUS
<1>1. Blank \in Docs /\ \A x \in {"stub", "published"} : Doc(0, 0, x) \in Docs
      BY DEF Blank, Doc, Docs, Gens
<1>2. \A d \in Docs : /\ Fresh(d) \in Entries /\ Fresh(d).age = 0 /\ Fresh(d).idle = 0
      BY DEF Fresh, Entries
<1>3. None \in Entries /\ ~None.loaded
      BY DEF None, Entries
<1>4. timeout \in [CacheNames -> Timeouts] /\ timeout \in [CacheNames -> Nat]
      BY DEF Init
<1>5. remote \in [CacheNames -> Docs] /\ seen \in [CacheNames -> Docs]
      BY <1>1 DEF Init
<1>6. cache \in [CacheNames -> Entries]
      BY <1>1, <1>2, <1>3 DEF Init
<1>7. ASSUME NEW c \in CacheNames, cache[c].loaded
      PROVE  cache[c].age <= timeout[c] + 1 /\ cache[c].idle <= cache[c].age
      BY <1>1, <1>2, <1>3, <1>4, <1>7 DEF Init
<1>8. quiet \in BOOLEAN
      BY DEF Init
<1> QED
    BY <1>4, <1>5, <1>6, <1>7, <1>8 DEF Init, TypeOK

LEMMA TypeStep == TypeOK /\ [Next]_vars => TypeOK'
<1> SUFFICES ASSUME TypeOK, [Next]_vars
             PROVE  TypeOK'
    OBVIOUS
<1>0. timeout \in [CacheNames -> Nat] /\ Blank \in Docs
  <2>1. timeout \in [CacheNames -> Nat]
        BY DEF TypeOK
  <2>2. Blank \in Docs
        BY DEF Blank, Doc, Docs, Gens
  <2> QED
      BY <2>1, <2>2
<1>1. CASE UNCHANGED vars
      BY <1>1 DEF vars, TypeOK, request
<1>2. CASE Tick
  <2> DEFINE aged(c) == [cache[c] EXCEPT !.age = Capped(@, timeout[c] + 1),
                                         !.idle = Capped(@, timeout[c])]
  <2>1. ASSUME NEW c \in CacheNames, cache[c].loaded
        PROVE  /\ aged(c) \in Entries
               /\ aged(c).age <= timeout[c] + 1 /\ aged(c).idle <= aged(c).age
    <3>1. cache[c] \in [loaded : {TRUE}, doc : Docs, age : Nat, idle : Nat]
          BY <2>1, LoadedEntry DEF TypeOK
    <3>2. cache[c].age <= timeout[c] + 1 /\ cache[c].idle <= cache[c].age
          BY <2>1 DEF TypeOK
    <3>3. /\ Capped(cache[c].age, timeout[c] + 1) \in Nat
          /\ Capped(cache[c].idle, timeout[c]) \in Nat
          /\ Capped(cache[c].age, timeout[c] + 1) <= timeout[c] + 1
          /\ Capped(cache[c].idle, timeout[c]) <= Capped(cache[c].age, timeout[c] + 1)
          BY <1>0, <3>1, <3>2, CappedAges
    <3>4. /\ aged(c) \in [loaded : {TRUE}, doc : Docs, age : Nat, idle : Nat]
          /\ aged(c).age = Capped(cache[c].age, timeout[c] + 1)
          /\ aged(c).idle = Capped(cache[c].idle, timeout[c])
          BY <3>1, <3>3
    <3> QED
        BY <3>3, <3>4 DEF Entries
  <2>2. None \in Entries /\ ~None.loaded
        BY DEF None, Entries
  <2> QED
      BY <1>2, <2>1, <2>2 DEF Tick, TypeOK, request
<1>3. ASSUME NEW c \in CacheNames, Evict(c)
      PROVE  TypeOK'
      BY <1>3 DEF Evict, TypeOK, None, Entries, request
<1>4. CASE RenewKey
  <2>1. remote["did"] \in Docs /\ remote["tl"] \in Docs
        BY DEF TypeOK, CacheNames
  <2>2. remote["did"].key + 1 \in Gens
        BY <1>4, <2>1 DEF RenewKey, Renewals, Docs, Gens
  <2>3. [remote["did"] EXCEPT !.key = @ + 1] \in Docs
        BY <2>1, <2>2 DEF Docs
  <2>4. remote' \in [CacheNames -> Docs]
        BY <1>4, <2>3 DEF RenewKey, TypeOK
  <2> QED
      BY <1>4, <2>4 DEF RenewKey, TypeOK, request
<1>5. CASE RenewList
  <2>1. remote["did"] \in Docs /\ remote["tl"] \in Docs
        BY DEF TypeOK, CacheNames
  <2>2. remote["tl"].list + 1 \in Gens
        BY <1>5, <2>1 DEF RenewList, Renewals, Docs, Gens
  <2>3. [remote["tl"] EXCEPT !.list = @ + 1] \in Docs
        BY <2>1, <2>2 DEF Docs
  <2>4. remote' \in [CacheNames -> Docs]
        BY <1>5, <2>3 DEF RenewList, TypeOK
  <2> QED
      BY <1>5, <2>4 DEF RenewList, TypeOK, request
<1>6. CASE RenewVc
      BY <1>6 DEF RenewVc, Fitting, Doc, TypeOK, CacheNames, Docs, request
<1>7. CASE RenewConfig
      BY <1>7 DEF RenewConfig, TypeOK, CacheNames, Docs, request
<1>8. CASE Begin
      BY <1>0, <1>8 DEF Begin, Reset, TypeOK
<1>9. CASE ReadDid
      BY <1>9, ReadType DEF ReadDid, Read, TypeOK, CacheNames, Reading
<1>10. CASE ReadConfig
       BY <1>10, ReadType DEF ReadConfig, Read, TypeOK, CacheNames, Reading
<1>11. CASE ReadConfigKey
       BY <1>11, ReadType DEF ReadConfigKey, Read, TypeOK, CacheNames, Reading
<1>12. CASE ReadConfigContext
       BY <1>12, ReadType DEF ReadConfigContext, Read, TypeOK, CacheNames, Reading, AfterConfig
<1>13. CASE ConfigFails \/ ContextFails
       BY <1>13 DEF ConfigFails, ContextFails, TypeOK
<1>14. CASE ReadVc
       BY <1>14, ReadType DEF ReadVc, Read, TypeOK, CacheNames, Reading, AfterConfig
<1>15. CASE ReadKey
       BY <1>15, ReadType DEF ReadKey, Read, TypeOK, CacheNames, Reading, AfterConfig
<1>16. CASE ReadContext
       BY <1>16, ReadType DEF ReadContext, Read, TypeOK, CacheNames, Reading, AfterConfig
<1>17. CASE ReadList
       BY <1>17, ReadType DEF ReadList, Read, TypeOK, CacheNames, Reading, AfterConfig
<1>18. CASE Fail
       BY <1>0, <1>18 DEF Fail, LoadFails, Reset, TypeOK
<1> QED
    BY <1>1, <1>2, <1>3, <1>4, <1>5, <1>6, <1>7, <1>8, <1>9, <1>10, <1>11, <1>12, <1>13,
       <1>14, <1>15, <1>16, <1>17, <1>18 DEF Next, Owner, Request

----------------------------------------------------------------------------
LEMMA InvInit == Init => Inv
BY TypeInit DEF Init, Inv, CacheNames, ContextPublished, Undisturbed, VerdictOfSeen,
   ConfigVerdict, AfterConfig

\* A read leaves an undisturbed request undisturbed, and it has read one more.
LEMMA ReadUndisturbed ==
    ASSUME TypeOK, Undisturbed, NEW c \in CacheNames,
           NEW from \in Reading,
           NEW to \in Reading \cup {"idle"},
           Read(c, from, to), quiet' = quiet, quiet
    PROVE  /\ Settled'
           /\ \A d \in CacheNames : Live(d)' => cache'[d].doc = remote'[d]
           /\ seen'[c] = remote'[c]
           /\ \A d \in CacheNames : HasRead(d) => seen'[d] = remote'[d]
<1>1. /\ Settled
      /\ \A d \in CacheNames : Live(d) => cache[d].doc = remote[d]
      /\ \A d \in CacheNames : HasRead(d) => seen[d] = remote[d]
      BY DEF Undisturbed, Read, Reading, AfterConfig
<1>2. /\ \A d \in CacheNames : d # c => cache'[d] = cache[d] /\ seen'[d] = seen[d]
      /\ seen'[c] = cache'[c].doc
      /\ Live(c) => seen'[c] = cache[c].doc
      /\ ~Live(c) => seen'[c] = remote[c]
      BY ReadType
<1>3. remote' = remote /\ timeout' = timeout
      BY DEF Read
<1>4. seen'[c] = remote[c]
      BY <1>1, <1>2
<1>5. ASSUME NEW d \in CacheNames, Live(d)'
      PROVE  cache'[d].doc = remote[d]
      BY <1>1, <1>2, <1>3, <1>4, <1>5 DEF Live
<1> QED
    BY <1>1, <1>2, <1>3, <1>4, <1>5 DEF Settled, Fitting

LEMMA InvStep == Inv /\ [Next]_vars => Inv'
<1> SUFFICES ASSUME Inv, [Next]_vars
             PROVE  Inv'
    OBVIOUS
<1>0. /\ TypeOK /\ TypeOK' /\ ContextPublished /\ Undisturbed
      /\ VerdictOfSeen /\ ConfigVerdict
      BY TypeStep DEF Inv
<1> DEFINE Rest == ContextPublished /\ Undisturbed /\ VerdictOfSeen /\ ConfigVerdict
<1> SUFFICES Rest'
    BY <1>0 DEF Inv
<1> USE DEF ContextPublished, VerdictOfSeen, ConfigVerdict
<1>1. CASE UNCHANGED vars
      BY <1>0, <1>1 DEF vars, Undisturbed, Settled, Fitting, Live, HasRead
<1>2. CASE Tick
  <2>1. UNCHANGED <<timeout, signed, remote, request, quiet>>
        BY <1>2 DEF Tick
  <2>2. ASSUME NEW c \in CacheNames, Live(c)'
        PROVE  Live(c) /\ cache'[c].doc = cache[c].doc
    <3>1. cache[c].loaded
          BY <1>2, <2>2 DEF Tick, Live, None
    <3>2. cache[c] \in [loaded : {TRUE}, doc : Docs, age : Nat, idle : Nat]
          BY <1>0, <3>1, LoadedEntry DEF TypeOK
    <3>3. timeout[c] \in Nat
          BY <1>0 DEF TypeOK
    <3> QED
        BY <1>2, <2>1, <2>2, <3>1, <3>2, <3>3 DEF Tick, Live, Capped
  <2> QED
      BY <1>0, <2>1, <2>2 DEF Undisturbed, Settled, Fitting, HasRead, request
<1>3. ASSUME NEW c \in CacheNames, Evict(c)
      PROVE  Rest'
      BY <1>0, <1>3
      DEF Evict, TypeOK, None, Undisturbed, Settled, Fitting, Live, HasRead, request
<1>4. CASE RenewKey
      BY <1>0, <1>4 DEF RenewKey, TypeOK, CacheNames, Undisturbed, request
<1>5. CASE RenewList
      BY <1>0, <1>5 DEF RenewList, TypeOK, CacheNames, Undisturbed, request
<1>6. CASE RenewVc
      BY <1>0, <1>6 DEF RenewVc, TypeOK, CacheNames, Undisturbed, request
<1>7. CASE RenewConfig
      BY <1>0, <1>7 DEF RenewConfig, TypeOK, CacheNames, Undisturbed, request
<1>8. CASE Begin
  <2>1. quiet' => /\ Settled
                  /\ \A c \in CacheNames : cache[c].loaded => cache[c].idle >= timeout[c]
        BY <1>8 DEF Begin
  <2>2. ASSUME quiet', NEW c \in CacheNames
        PROVE  ~Live(c)
    <3>1. CASE cache[c].loaded
      <4>1. cache[c].idle \in Nat /\ timeout[c] \in Nat
        <5>1. cache[c] \in [loaded : {TRUE}, doc : Docs, age : Nat, idle : Nat]
              BY <1>0, <3>1, LoadedEntry DEF TypeOK
        <5> QED
            BY <1>0, <5>1 DEF TypeOK
      <4> QED
          BY <2>1, <2>2, <3>1, <4>1 DEF Live
    <3> QED
        BY <3>1 DEF Live
  <2>3. /\ pc' = "did" /\ verdict' = "none"
        /\ UNCHANGED <<timeout, signed, remote, cache>>
        BY <1>8 DEF Begin, Reset
  <2>4. Undisturbed'
        BY <1>0, <2>1, <2>2, <2>3
        DEF TypeOK, Undisturbed, Settled, Fitting, Live, HasRead, AfterConfig
  <2> QED
      BY <1>0, <2>3, <2>4 DEF AfterConfig
<1>9. CASE ReadDid
  <2>1. Undisturbed'
        BY <1>0, <1>9, ReadUndisturbed
        DEF ReadDid, Read, CacheNames, Undisturbed, HasRead, Reading, AfterConfig
  <2> QED
      BY <1>0, <1>9, <2>1 DEF ReadDid, Read, AfterConfig
<1>10. CASE ReadConfig
  <2>1. Undisturbed'
        BY <1>0, <1>10, ReadUndisturbed
        DEF ReadConfig, Read, CacheNames, Undisturbed, HasRead, Reading, AfterConfig
  <2> QED
      BY <1>0, <1>10, <2>1 DEF ReadConfig, Read, AfterConfig
<1>11. CASE ReadConfigKey
  <2>1. Undisturbed'
        BY <1>0, <1>11, ReadUndisturbed
        DEF ReadConfigKey, Read, CacheNames, Undisturbed, HasRead, Reading, AfterConfig
  <2> QED
      BY <1>0, <1>11, <2>1 DEF ReadConfigKey, Read, AfterConfig
<1>12. CASE ReadConfigContext
  <2>1. Undisturbed'
        BY <1>0, <1>12, ReadUndisturbed
        DEF ReadConfigContext, Read, CacheNames, Undisturbed, HasRead, Reading, AfterConfig
  <2>2. ASSUME quiet
        PROVE  /\ seen["config"].key = seen["did"].key
               /\ seen'["context"].context = "published"
    <3>1. seen["config"] = remote["config"] /\ seen["did"] = remote["did"] /\ Settled
          BY <1>0, <1>12, <2>2
          DEF ReadConfigContext, Read, Undisturbed, HasRead, CacheNames
    <3>2. seen'["context"] = remote["context"]
          BY <1>0, <1>12, <2>2, ReadUndisturbed
          DEF ReadConfigContext, Read, CacheNames, Reading, AfterConfig
    <3> QED
        BY <1>0, <3>1, <3>2 DEF Settled, Doc
  <2>3. ConfigVerdict'
        BY <1>12, <2>2 DEF ReadConfigContext, Read
  <2> QED
      BY <1>0, <1>12, <2>1, <2>3 DEF ReadConfigContext, Read
<1>13. CASE ConfigFails \/ ContextFails
       BY <1>0, <1>13 DEF ConfigFails, ContextFails, Undisturbed
<1>14. CASE ReadVc
  <2>1. Undisturbed'
        BY <1>0, <1>14, ReadUndisturbed
        DEF ReadVc, Read, CacheNames, Undisturbed, HasRead, Reading, AfterConfig
  <2> QED
      BY <1>0, <1>14, <2>1 DEF ReadVc, Read, AfterConfig
<1>15. CASE ReadKey
  <2>1. Undisturbed'
        BY <1>0, <1>15, ReadUndisturbed
        DEF ReadKey, Read, CacheNames, Undisturbed, HasRead, Reading, AfterConfig
  <2> QED
      BY <1>0, <1>15, <2>1 DEF ReadKey, Read, AfterConfig
<1>16. CASE ReadContext
  <2>1. Undisturbed'
        BY <1>0, <1>16, ReadUndisturbed
        DEF ReadContext, Read, CacheNames, Undisturbed, HasRead, Reading, AfterConfig
  <2> QED
      BY <1>0, <1>16, <2>1 DEF ReadContext, Read, AfterConfig
<1>17. CASE ReadList
  <2>1. Undisturbed'
        BY <1>0, <1>17, ReadUndisturbed
        DEF ReadList, Read, CacheNames, Undisturbed, HasRead, Reading, AfterConfig
  <2>2. \A d \in CacheNames : d # "tl" => seen'[d] = seen[d]
        BY <1>0, <1>17, ReadType DEF ReadList, CacheNames
  <2>3. VerdictOfSeen'
        BY <1>17, <2>2 DEF ReadList, Read, CacheNames
  <2> QED
      BY <1>0, <1>17, <2>1, <2>3 DEF ReadList, Read, AfterConfig
<1>18. CASE Fail
       BY <1>0, <1>18 DEF Fail, LoadFails, Reset, Undisturbed, AfterConfig
<1> HIDE DEF Rest
<1> QED
    BY <1>1, <1>2, <1>3, <1>4, <1>5, <1>6, <1>7, <1>8, <1>9, <1>10, <1>11, <1>12, <1>13,
       <1>14, <1>15, <1>16, <1>17, <1>18 DEF Next, Owner, Request

LEMMA InvFresh == Inv => FreshAfterQuiet
<1> SUFFICES ASSUME Inv, verdict # "none", quiet
             PROVE  /\ \A c \in CacheNames : seen[c] = remote[c]
                    /\ verdict = "verified" <=> signed = "published"
                    /\ didVerified <=> signed = "published"
    BY DEF FreshAfterQuiet
<1>1. \A c \in CacheNames : seen[c] = remote[c]
      BY DEF Inv, Undisturbed, VerdictOfSeen, HasRead
<1>2. seen["context"].context = "published"
      BY <1>1 DEF Inv, ContextPublished, Doc, CacheNames
<1>3. seen["vc"] = Doc(seen["did"].key, seen["tl"].list, "none")
      BY <1>1 DEF Inv, Undisturbed, Settled, Fitting, CacheNames
<1>4. didVerified <=> signed = "published"
      BY DEF Inv, ConfigVerdict
<1> QED
    BY <1>1, <1>2, <1>3, <1>4 DEF Inv, VerdictOfSeen

----------------------------------------------------------------------------
\* ResolverConfig's caches, whatever timeouts are configured: each holds documents
\* of the owner, none of them idle for longer than it is old.
THEOREM Typed == Spec => []TypeOK
BY TypeInit, TypeStep, PTL DEF Spec

\* The inductive invariant.
THEOREM Invariant == Spec => []Inv
BY InvInit, InvStep, PTL DEF Spec

\* DIDResolver.resolveDidConfig and resolveVC and TLResolver through expireAfterAccess caches: a
\* request that no cached entry and no renewal disturbs sees every document as
\* it is published, and its verdicts are those of the signatures; for all timeouts,
\* 0 included, and every number of renewals.
THEOREM Fresh_AfterQuiet == Spec => []FreshAfterQuiet
BY Invariant, InvFresh, PTL
=============================================================================
