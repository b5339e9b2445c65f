------------------------- MODULE VerificationCaches -------------------------
(***************************************************************************)
(* The three Caffeine caches of ResolverConfig and one trust list verified *)
(* through them: the DID document that holds the key, the did-configuration*)
(* with a credential that is signed with it, the VC that is signed with it *)
(* and attests the list, the JSON-LD context schema.org both are signed    *)
(* under, and the list.  The owner renews its documents at its own pace;   *)
(* the caches decide which mixture a request sees.  The service itself     *)
(* puts a stub of schema.org into the cache when it starts.                *)
(* Time passes in ticks.  Ages are counted up to one more than the timeout *)
(* and no further, since no guard tells more than that apart.              *)
(***************************************************************************)
EXTENDS Naturals

CONSTANTS Timeouts,  \* values of tcr.did.cache.timeout and tcr.tl.cache.timeout
          MaxGen     \* bound: how often the owner renews its key and its list

ASSUME TimeoutsAssumption == Timeouts \subseteq Nat /\ Timeouts # {}
ASSUME MaxGenAssumption == MaxGen \in Nat

\* didDocumentCache, three entries of docLoaderCache, and trustListCache
CacheNames == {"did", "config", "vc", "context", "tl"}
Gens == 0..MaxGen

VARIABLES
    timeout,  \* timeout[c]: the configured expireAfterAccess
    signed,   \* the context the owner signs its credentials under
    remote,   \* remote[c]: what a load of c would return; the key and list
              \* generations of the document, 0 where it has no such part
    cache,    \* cache[c]: the entry, or None
    pc,       \* the request: idle, or what it reads next
    seen,     \* the documents it has read
    overdue,  \* history: one of them was loaded longer ago than the timeout
    quiet,    \* history: no cache was touched for its timeout before the
              \* request, and since it began the owner changed nothing and
              \* schema.org and the did-configuration could be loaded
    didVerified,  \* of the last request
    verdict   \* vcVerified of the last request

vars == <<timeout, signed, remote, cache, pc, seen, overdue, quiet, didVerified, verdict>>

request == <<pc, seen, overdue, didVerified, verdict>>

Doc(k, l, x) == [key |-> k, list |-> l, context |-> x]
Docs == [key : Gens, list : Gens, context : {"none", "stub", "published"}]
None == [loaded |-> FALSE]
Entries == [loaded : {TRUE}, doc : Docs, age : Nat, idle : Nat] \cup {None}
Fresh(doc) == [loaded |-> TRUE, doc |-> doc, age |-> 0, idle |-> 0]
Blank == Doc(0, 0, "none")

TypeOK ==
    /\ timeout \in [CacheNames -> Timeouts] /\ signed \in {"stub", "published"}
    /\ remote \in [CacheNames -> Docs]
    /\ cache \in [CacheNames -> Entries]
    /\ \A c \in CacheNames : cache[c].loaded =>
          cache[c].age <= timeout[c] + 1 /\ cache[c].idle <= cache[c].age
    /\ pc \in {"idle", "did", "config", "configKey", "configContext",
               "vc", "key", "context", "tl"}
    /\ seen \in [CacheNames -> Docs]
    /\ overdue \in BOOLEAN /\ quiet \in BOOLEAN /\ didVerified \in BOOLEAN
    /\ verdict \in {"none", "verified", "unverified"}

Init ==
    /\ \E did, tl \in Timeouts :
          timeout = [c \in CacheNames |-> IF c = "tl" THEN tl ELSE did]
    /\ signed \in {"stub", "published"}
    /\ remote = [c \in CacheNames |->
                   IF c = "context" THEN Doc(0, 0, "published") ELSE Blank]
    /\ cache = [c \in CacheNames |->
                  IF c = "context" THEN Fresh(Doc(0, 0, "stub")) ELSE None]
    /\ pc = "idle" /\ quiet = FALSE /\ didVerified = FALSE /\ verdict = "none"
    /\ seen = [c \in CacheNames |-> Blank] /\ overdue = FALSE

----------------------------------------------------------------------------
\* Mutant: the entry outlives the timeout by one tick.
LiveOneMore(c) == cache[c].loaded /\ cache[c].idle <= timeout[c]

\* An entry that was not read or written for the timeout is gone; a timeout of
\* 0 keeps none.
Live(c) == cache[c].loaded /\ cache[c].idle < timeout[c]

Capped(n, limit) == IF n < limit THEN n + 1 ELSE n

Tick ==
    /\ cache' = [c \in CacheNames |->
                   IF cache[c].loaded
                   THEN [cache[c] EXCEPT !.age = Capped(@, timeout[c] + 1),
                                         !.idle = Capped(@, timeout[c])]
                   ELSE None]
    /\ UNCHANGED <<timeout, signed, remote, request, quiet>>

\* Size-bounded or explicit eviction.
Evict(c) ==
    /\ cache[c].loaded
    /\ cache' = [cache EXCEPT ![c] = None]
    /\ UNCHANGED <<timeout, signed, remote, request, quiet>>

Renewals == remote["did"].key + remote["tl"].list

\* The owner publishes documents of the next generation, one at a time: a new
\* DID document or list first, the credentials that refer to them after.
RenewKey ==
    /\ Renewals < MaxGen
    /\ remote["vc"].key = remote["did"].key /\ remote["config"].key = remote["did"].key
    /\ remote' = [remote EXCEPT !["did"].key = @ + 1]
    /\ quiet' = FALSE
    /\ UNCHANGED <<timeout, signed, cache, request>>

RenewList ==
    /\ Renewals < MaxGen /\ remote["vc"].list = remote["tl"].list
    /\ remote' = [remote EXCEPT !["tl"].list = @ + 1]
    /\ quiet' = FALSE
    /\ UNCHANGED <<timeout, signed, cache, request>>

RenewConfig ==
    /\ remote["config"].key # remote["did"].key
    /\ remote' = [remote EXCEPT !["config"].key = remote["did"].key]
    /\ quiet' = FALSE
    /\ UNCHANGED <<timeout, signed, cache, request>>

\* The VC that fits the owner's documents.
Fitting == Doc(remote["did"].key, remote["tl"].list, "none")

RenewVc ==
    /\ remote["vc"] # Fitting
    /\ remote' = [remote EXCEPT !["vc"] = Fitting]
    /\ quiet' = FALSE
    /\ UNCHANGED <<timeout, signed, cache, request>>

\* Both credentials do.
Settled == remote["vc"] = Fitting /\ remote["config"].key = remote["did"].key

----------------------------------------------------------------------------
(* One request *)

\* It has read nothing and has no verdicts.
Reset ==
    /\ seen' = [c \in CacheNames |-> Blank] /\ overdue' = FALSE
    /\ didVerified' = FALSE /\ verdict' = "none"

Begin ==
    /\ pc = "idle" /\ pc' = "did"
    /\ quiet' = (Settled /\ \A c \in CacheNames :
                  cache[c].loaded => cache[c].idle >= timeout[c])
    /\ Reset
    /\ UNCHANGED <<timeout, signed, remote, cache>>

\* Mutant: a hit makes the entry as good as one just loaded.
ReadRenewsAge(c, from, to) ==
    /\ pc = from /\ pc' = to
    /\ LET entry == IF Live(c) THEN [cache[c] EXCEPT !.age = 0]
                    ELSE Fresh(remote[c])
       IN /\ cache' = [cache EXCEPT ![c] = entry]
          /\ seen' = [seen EXCEPT ![c] = entry.doc]
          /\ overdue' = (overdue \/ entry.age > timeout[c])
    /\ UNCHANGED <<timeout, signed, remote>>

\* getIfPresent, and on a miss a load and a put; either touches the entry.
Read(c, from, to) ==
    /\ pc = from /\ pc' = to
    /\ LET entry == IF Live(c) THEN [cache[c] EXCEPT !.idle = 0]
                    ELSE Fresh(remote[c])
       IN /\ cache' = [cache EXCEPT ![c] = entry]
          /\ seen' = [seen EXCEPT ![c] = entry.doc]
          /\ overdue' = (overdue \/ entry.age > timeout[c])
    /\ UNCHANGED <<timeout, signed, remote>>

\* A load that fails ends the request: nothing is cached.
LoadFails(c, from) ==
    /\ pc = from /\ ~Live(c)
    /\ pc' = "idle" /\ Reset
    /\ UNCHANGED <<timeout, signed, remote, cache, quiet>>

\* resolveDid, and resolveDidConfig: the did-configuration, then the DID
\* document for the key of its credential, then the context to verify it.
ReadDid == Read("did", "did", "config") /\ UNCHANGED <<quiet, didVerified, verdict>>
ReadConfig == Read("config", "config", "configKey") /\ UNCHANGED <<quiet, didVerified, verdict>>
ReadConfigKey ==
    Read("did", "configKey", "configContext") /\ UNCHANGED <<quiet, didVerified, verdict>>
ReadConfigContext ==
    /\ Read("context", "configContext", "vc")
    /\ didVerified' = (/\ seen["config"].key = seen["did"].key
                       /\ seen'["context"].context = signed)
    /\ UNCHANGED <<quiet, verdict>>

\* The JsonLdError of the configuration, and the exception of the context: both
\* are caught and the configuration counts as not verified.
ConfigFails ==
    /\ \/ pc = "config" /\ ~Live("config")
       \/ pc = "configContext" /\ ~Live("context")
    /\ pc' = "vc" /\ quiet' = FALSE
    /\ UNCHANGED <<timeout, signed, remote, cache, seen, overdue, didVerified, verdict>>

\* resolveVC (the VC, then key and context) and resolveTLHash
ReadVc == Read("vc", "vc", "key") /\ UNCHANGED <<quiet, didVerified, verdict>>
ReadKey == Read("did", "key", "context") /\ UNCHANGED <<quiet, didVerified, verdict>>
ReadContext == Read("context", "context", "tl") /\ UNCHANGED <<quiet, didVerified, verdict>>

\* The exception is caught: the signature counts as not verified.
ContextFails ==
    /\ pc = "context" /\ ~Live("context")
    /\ pc' = "tl" /\ quiet' = FALSE
    /\ UNCHANGED <<timeout, signed, remote, cache, seen, overdue, didVerified, verdict>>

ReadList ==
    /\ Read("tl", "tl", "idle")
    /\ verdict' = IF /\ seen["vc"] = Doc(seen["did"].key, seen'["tl"].list, "none")
                     /\ seen["context"].context = signed
                  THEN "verified" ELSE "unverified"
    /\ UNCHANGED <<quiet, didVerified>>

Fail == \/ LoadFails("did", "did") \/ LoadFails("did", "configKey")
        \/ LoadFails("vc", "vc") \/ LoadFails("did", "key") \/ LoadFails("tl", "tl")

Owner == RenewKey \/ RenewConfig \/ RenewList \/ RenewVc

Request ==
    \/ Begin \/ ReadDid
    \/ ReadConfig \/ ReadConfigKey \/ ReadConfigContext \/ ConfigFails
    \/ ReadVc \/ ReadKey \/ ReadContext \/ ContextFails
    \/ ReadList \/ Fail

Next == Tick \/ Owner \/ Request \/ \E c \in CacheNames : Evict(c)

Spec == Init /\ [][Next]_vars

----------------------------------------------------------------------------
(* Properties *)

\* Whatever was cached before, a request that comes after the timeouts have
\* passed without any sees every document as it is, and verifies credentials
\* that are signed under schema.org as it is published, and only those: the stub
\* that stands for it from the start is gone by then.  With timeouts of 0 this is
\* every request: caching is off, and the stub is never used.
FreshAfterQuiet ==
    verdict # "none" /\ quiet =>
        /\ \A c \in CacheNames : seen[c] = remote[c]
        /\ verdict = "verified" <=> signed = "published"
        /\ didVerified <=> signed = "published"

\* install/index.md: "Time to live for cached Trust Lists", "Time to live for
\* cached DID/VC documents".  No request uses a document that was loaded longer
\* ago than the timeout of its cache.
TimeToLive == ~overdue
=============================================================================
