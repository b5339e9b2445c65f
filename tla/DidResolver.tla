----------------------------- MODULE DidResolver -----------------------------
(***************************************************************************)
(* DIDResolver.java: one request thread that resolves a DID to service     *)
(* endpoints and an origin, checks the well-known DID configuration of an  *)
(* origin, and loads and verifies a VC.  DID documents come through a      *)
(* cache that other threads fill and Caffeine empties meanwhile.  A call   *)
(* that throws is answered Threw, whatever the exception.                  *)
(***************************************************************************)
EXTENDS Naturals, Sequences, SequencesExt

CONSTANTS
    Uris,       \* URIs in documents: DIDs, controllers, service endpoints
    Dids,       \* those of them this module resolves
    Kind,       \* Kind[u]: http (and https), didWeb, noHost (one of them in whose
                \* authority java.net.URI finds no host) or opaque (any other)
    Host,       \* Host[u]: the scheme and host in u, if it is http or didWeb
    Hostless,   \* "https://null", or "http://null"
    Types,      \* service types
    Endpoints,  \* the values of serviceEndpoint and everything nested in them
    Docs,       \* Docs[d]: the DID documents that are published for d over time
    VCs,        \* the credentials at trust list endpoints
    Configs,    \* did-configuration documents
    Algs,       \* JWS algorithms
    Guess,      \* ES256K
    NoProof,    \* the suite of a credential without a proof
    ProofList,  \* the suite of one whose proof is an array
    Nil

ASSUME UrisAssumption == /\ Dids \subseteq Uris
                         /\ Kind \in [Uris -> {"http", "didWeb", "noHost", "opaque"}]
                         /\ DOMAIN Host = Uris
ASSUME AlgsAssumption == Guess \in Algs /\ {NoProof, ProofList, Nil} \cap Algs = {}

\* An endpoint is a string, a list, or a map, whose values are in entry order.
ASSUME EndpointsAssumption ==
    \A e \in Endpoints :
        \/ e.kind = "string" /\ e.of \in Uris
        \/ e.kind \in {"list", "map"} /\ e.of \in Seq(Endpoints)

\* Documents are finite: nothing is nested in itself, however deep.
ASSUME NestingAssumption ==
    \A S \in SUBSET Endpoints : S # {} =>
        \E e \in S : e.kind # "string" => ToSet(e.of) \cap S = {}

\* suite: the algorithm the type of the proof stands for, Nil when it stands
\* for none; jws: the algorithm in the header of the proof's JWS, Nil if that
\* cannot be parsed; alg and signer: what it was really signed with.
Credentials == [did : Dids, suite : Algs \cup {Nil, NoProof, ProofList},
                jws : Algs \cup {Nil}, alg : Algs, signer : Nat]
Methods == [key : Nat, alg : Algs]

\* lacks: the lists that are not in the document, for which the library
\* returns null.
Documents == [id : Uris, controllers : Seq(Uris), methods : SUBSET Methods,
              services : Seq([types : SUBSET Types, endpoint : Endpoints]),
              lacks : SUBSET {"controller", "service", "verificationMethod"}]

\* An entry of linked_dids: a JSON-LD credential or a JWT with its algorithm,
\* and whether resolveLinkedData or resolveLinkedJWT accepts it, skips it or
\* throws.  Entries of other JSON types are skipped.
Entries == [does : {"pass", "skip", "throw"}, data : Credentials \cup {Nil},
            jwt : Algs \cup {Nil}]

\* A did-configuration that cannot be loaded or is rejected, one whose members
\* have not the JSON types they are read as, and one that can be checked.
ConfigType == [kind : {"rejected", "mistyped", "good"}, linked : Seq(Entries)]

ASSUME DocsAssumption == /\ \A d \in Dids : Docs[d] \subseteq Documents
                         /\ VCs \subseteq Credentials
                         /\ Configs \subseteq ConfigType

VARIABLES
    cache,      \* didDocumentCache
    pc,         \* where the thread is
    did,        \* the DID whose document is wanted
    diDoc,      \* local: the document
    types,      \* argument of resolveDid
    found,      \* local: endpoints
    config,     \* local: the did-configuration, and the entry the loop is at
    next,
    payload,    \* local: dataProof or the VC, the credential to be verified
    alg,        \* local: the algorithm to verify it with
    result      \* of the last call, Nil while one runs

locals == <<did, diDoc, types, found, config, next, payload, alg>>
vars == <<cache, pc, locals, result>>

Threw == [kind |-> "threw"]
Resolved(es, o) == [kind |-> "resolved", endpoints |-> es, origin |-> o]
Verdict(v) == [kind |-> "verdict", verified |-> v]
NoConfig == [kind |-> "rejected", linked |-> <<>>]

TypeOK ==
    /\ DOMAIN cache = Dids /\ \A d \in Dids : cache[d] \in Docs[d] \cup {Nil}
    /\ pc \in {"idle", "getForEndpoints", "getForKeys", "endpoints", "origin", "linked", "keys"}
    /\ did \in Dids \cup {Nil}
    /\ diDoc \in Documents \cup {Nil}
    /\ types \subseteq Types
    /\ found \in Seq(Uris)
    /\ config \in ConfigType
    /\ next \in 1..(Len(config.linked) + 1)
    /\ payload \in Credentials \cup {Nil}
    /\ alg \in Algs \cup {Nil}
    /\ \/ result \in {Nil, Threw, Verdict(TRUE), Verdict(FALSE)}
       \/ /\ result.endpoints \in Seq(Uris)
          /\ result.origin \in {Nil, Hostless} \cup {Host[u] : u \in Uris}

Init ==
    /\ cache = [d \in Dids |-> Nil]
    /\ pc = "idle"
    /\ did = Nil /\ diDoc = Nil /\ types = {} /\ found = <<>>
    /\ config = NoConfig /\ next = 1 /\ payload = Nil /\ alg = Nil
    /\ result = Nil

----------------------------------------------------------------------------
(* Helpers *)

\* resolveEndpoint throws on a map without entries.
Breaks[e \in Endpoints] ==
    CASE e.kind = "string" -> FALSE
      [] e.kind = "list" -> \E i \in DOMAIN e.of : Breaks[e.of[i]]
      [] OTHER -> IF e.of = <<>> THEN TRUE ELSE Breaks[e.of[1]]

\* Otherwise it returns the strings in a list, and of a map what its first
\* entry holds.
Unbroken == {e \in Endpoints : ~Breaks[e]}
Flatten[e \in Unbroken] ==
    CASE e.kind = "string" -> <<e.of>>
      [] e.kind = "list" -> FlattenSeq([i \in DOMAIN e.of |-> Flatten[e.of[i]]])
      [] OTHER -> Flatten[e.of[1]]

\* Mutant: a service has to be of all the types asked for.
SelectedByAll(s, ts) == ts \subseteq s.types

\* Whether a service is asked for; no types ask for all.
Selected(s, ts) == ts = {} \/ ts \cap s.types # {}

\* resolveOrigin.  Where java.net.URI finds no host its null is concatenated:
\* so it is for a did:web with a path, which leaves ":" and something that is no
\* port number in the authority.  An encoded port is decoded, found and left out.
ResolveOrigin(u) ==
    CASE Kind[u] \in {"http", "didWeb"} -> Host[u]
      [] Kind[u] = "noHost" -> Hostless
      [] Kind[u] = "opaque" -> Nil

\* getAlgFromProof throws when the proof is absent or an array.
Unproven == {NoProof, ProofList}

\* Otherwise it returns the algorithm of the suite.
AlgFromProof(c) ==
    CASE c.suite \in Algs -> c.suite
      [] c.suite = Nil /\ c.jws # Nil -> c.jws
      [] OTHER -> Guess

\* Mutant: a key that fits the algorithm is good enough.
AcceptsByAlgorithm(m, c, a) ==
    c.suite \notin Unproven /\ m.alg = a /\ c.alg = a

\* A verification method verifies c when its key fits the algorithm and is the
\* one c was signed with; an exception, as when there is no proof, counts as no.
Accepts(m, c, a) ==
    c.suite \notin Unproven /\ m.alg = a /\ c.alg = a /\ m.key = c.signer

Call(to) == pc = "idle" /\ pc' = to /\ result' = Nil
Return(from, r) == pc = from /\ pc' = "idle" /\ result' = r
Goto(from, to) == pc = from /\ pc' = to /\ UNCHANGED result
AtOnce(r) == pc = "idle" /\ pc' = "idle" /\ result' = r

\* A call begins with its arguments and without anything of the one before.
Fresh(d, ts, c, p, a) ==
    /\ did' = d /\ types' = ts /\ config' = c /\ payload' = p /\ alg' = a
    /\ diDoc' = Nil /\ found' = <<>> /\ next' = 1
    /\ UNCHANGED cache

----------------------------------------------------------------------------
(* resolveDidDocument *)

Continue ==
    \/ Goto("getForEndpoints", "endpoints")
    \/ Goto("getForKeys", "keys")

CacheHit ==
    /\ Continue
    /\ cache[did] # Nil
    /\ diDoc' = cache[did]
    /\ UNCHANGED <<cache, did, types, found, config, next, payload, alg>>

\* Mutant: the document is cached under the DID it names.
LoadUnderItsId ==
    /\ Continue
    /\ cache[did] = Nil
    /\ \E x \in Docs[did] :
          /\ diDoc' = x
          /\ cache' = [d \in Dids |-> IF d = x.id THEN x ELSE cache[d]]
    /\ UNCHANGED <<did, types, found, config, next, payload, alg>>

\* The universal resolver answers with the document as it is by now.
Load ==
    /\ Continue
    /\ cache[did] = Nil
    /\ \E x \in Docs[did] : diDoc' = x /\ cache' = [cache EXCEPT ![did] = x]
    /\ UNCHANGED <<did, types, found, config, next, payload, alg>>

Getting == {"getForEndpoints", "getForKeys"}

\* It fails: a DidException, which is not cached.
LoadFails ==
    /\ \E from \in Getting : Return(from, Threw)
    /\ cache[did] = Nil
    /\ UNCHANGED <<cache, locals>>

----------------------------------------------------------------------------
(* resolveDid *)

ResolveDid(d, ts) == Call("getForEndpoints") /\ Fresh(d, ts, NoConfig, Nil, Nil)

\* There are no services, or one of those asked for has an endpoint that does
\* not resolve.
Unresolvable ==
    \/ "service" \in diDoc.lacks
    \/ \E s \in ToSet(diDoc.services) : Selected(s, types) /\ Breaks[s.endpoint]

CollectEndpoints ==
    /\ Goto("endpoints", "origin")
    /\ ~Unresolvable
    /\ found' = FlattenSeq([i \in DOMAIN diDoc.services |->
                               LET s == diDoc.services[i]
                               IN IF Selected(s, types) THEN Flatten[s.endpoint] ELSE <<>>])
    /\ UNCHANGED <<cache, did, diDoc, types, config, next, payload, alg>>

EndpointsBreak ==
    /\ Return("endpoints", Threw)
    /\ Unresolvable
    /\ UNCHANGED <<cache, locals>>

\* The candidates for the origin when the id has none: the controllers, or if
\* there are none the endpoints.  findFirst takes the first of them.
Candidates == IF diDoc.controllers # <<>> THEN diDoc.controllers ELSE found

OriginOfId ==
    /\ pc = "origin"
    /\ ResolveOrigin(diDoc.id) # Nil
    /\ Return("origin", Resolved(found, ResolveOrigin(diDoc.id)))
    /\ UNCHANGED <<cache, locals>>

OriginOfFirst ==
    /\ pc = "origin"
    /\ ResolveOrigin(diDoc.id) = Nil /\ "controller" \notin diDoc.lacks
    /\ Candidates # <<>> /\ ResolveOrigin(Candidates[1]) # Nil
    /\ Return("origin", Resolved(found, ResolveOrigin(Candidates[1])))
    /\ UNCHANGED <<cache, locals>>

\* There is no list of controllers, or findFirst throws because the first
\* candidate was mapped to null.
OriginBreaks ==
    /\ Return("origin", Threw)
    /\ ResolveOrigin(diDoc.id) = Nil
    /\ \/ "controller" \in diDoc.lacks
       \/ Candidates # <<>> /\ ResolveOrigin(Candidates[1]) = Nil
    /\ UNCHANGED <<cache, locals>>

NoOrigin ==
    /\ Return("origin", Resolved(found, Nil))
    /\ ResolveOrigin(diDoc.id) = Nil /\ "controller" \notin diDoc.lacks
    /\ Candidates = <<>>
    /\ UNCHANGED <<cache, locals>>

----------------------------------------------------------------------------
(* resolveDidConfig *)

\* The configuration at the origin is loaded; errors and a document that is
\* empty or has the wrong members are an unverified result.
RejectConfig == AtOnce(Verdict(FALSE)) /\ Fresh(Nil, {}, NoConfig, Nil, Nil)

\* getString and the casts throw on members that are absent or of other types.
MistypedConfig ==
    AtOnce(Threw) /\ Fresh(Nil, {}, [NoConfig EXCEPT !.kind = "mistyped"], Nil, Nil)

LoadConfig(c) ==
    \/ c.kind = "rejected" /\ RejectConfig
    \/ c.kind = "mistyped" /\ MistypedConfig
    \/ c.kind = "good" /\ Call("linked") /\ Fresh(Nil, {}, c, Nil, Nil)

Entry == config.linked[next]
InLoop == pc = "linked" /\ next <= Len(config.linked)

\* Mutant: the last credential that passes is verified, not the first.
LastPasses ==
    /\ InLoop /\ Goto("linked", "linked") /\ Entry.does # "throw"
    /\ next' = next + 1
    /\ payload' = IF Entry.does = "pass" /\ Entry.data # Nil THEN Entry.data ELSE payload
    /\ alg' = IF Entry.does = "pass" /\ alg = Nil THEN Entry.jwt ELSE alg
    /\ UNCHANGED <<cache, did, diDoc, types, found, config>>

\* Mutant: the loop does not get past an entry it skips.
SkipStays ==
    /\ InLoop /\ Goto("linked", "linked") /\ Entry.does # "throw"
    /\ next' = IF Entry.does = "skip" THEN next ELSE next + 1
    /\ payload' = IF Entry.does = "pass" /\ payload = Nil THEN Entry.data ELSE payload
    /\ alg' = IF Entry.does = "pass" /\ alg = Nil THEN Entry.jwt ELSE alg
    /\ UNCHANGED <<cache, did, diDoc, types, found, config>>

\* One turn of the loop: the first credential that passes becomes dataProof,
\* the algorithm of the first JWT that passes becomes alg.
LinkedDid ==
    /\ InLoop /\ Goto("linked", "linked") /\ Entry.does # "throw"
    /\ next' = next + 1
    /\ payload' = IF Entry.does = "pass" /\ payload = Nil THEN Entry.data ELSE payload
    /\ alg' = IF Entry.does = "pass" /\ alg = Nil THEN Entry.jwt ELSE alg
    /\ UNCHANGED <<cache, did, diDoc, types, found, config>>

\* One entry that is mistyped ends the check of all.
LinkedDidThrows ==
    /\ InLoop /\ Entry.does = "throw"
    /\ Return("linked", Threw)
    /\ UNCHANGED <<cache, locals>>

LoopOver == pc = "linked" /\ next > Len(config.linked)

\* JWTs alone verify nothing.
NoLinkedData ==
    /\ LoopOver /\ payload = Nil
    /\ Return("linked", Verdict(FALSE))
    /\ UNCHANGED <<cache, locals>>

LinkedData ==
    /\ LoopOver /\ payload # Nil /\ (alg = Nil => payload.suite \notin Unproven)
    /\ Goto("linked", "getForKeys")
    /\ did' = payload.did
    /\ alg' = IF alg = Nil THEN AlgFromProof(payload) ELSE alg
    /\ UNCHANGED <<cache, diDoc, types, found, config, next, payload>>

LinkedDataUnproven ==
    /\ LoopOver /\ payload # Nil /\ alg = Nil /\ payload.suite \in Unproven
    /\ Return("linked", Threw)
    /\ UNCHANGED <<cache, locals>>

----------------------------------------------------------------------------
(* resolveVC, and verifyVCSignature which it shares with resolveDidConfig *)

ResolveVC(c, d) ==
    /\ c.suite \notin Unproven
    /\ Call("getForKeys") /\ Fresh(d, {}, NoConfig, c, AlgFromProof(c))

\* The VC cannot be loaded, has no subject, or has no proof or an array of them.
ResolveVCThrows == AtOnce(Threw) /\ Fresh(Nil, {}, NoConfig, Nil, Nil)

\* Without a list of keys, and when the proof is an array, verification throws.
Unverifiable == "verificationMethod" \in diDoc.lacks \/ payload.suite = ProofList

Verify ==
    /\ pc = "keys" /\ ~Unverifiable
    /\ Return("keys", Verdict(\E m \in diDoc.methods : Accepts(m, payload, alg)))
    /\ UNCHANGED <<cache, locals>>

VerifyThrows ==
    /\ pc = "keys" /\ Unverifiable
    /\ Return("keys", Threw)
    /\ UNCHANGED <<cache, locals>>

----------------------------------------------------------------------------
(* The environment *)

\* Another request thread caches a document it loaded, perhaps long before.
OtherThreadPuts(d) ==
    /\ \E x \in Docs[d] : cache' = [cache EXCEPT ![d] = x]
    /\ UNCHANGED <<pc, locals, result>>

\* Caffeine drops the entry.
Expire(d) ==
    /\ cache[d] # Nil
    /\ cache' = [cache EXCEPT ![d] = Nil]
    /\ UNCHANGED <<pc, locals, result>>

----------------------------------------------------------------------------
Start ==
    \/ \E d \in Dids, ts \in SUBSET Types : ResolveDid(d, ts)
    \/ \E c \in Configs : LoadConfig(c)
    \/ \E c \in VCs, d \in Dids : ResolveVC(c, d)
    \/ ResolveVCThrows

Step ==
    \/ CacheHit \/ Load \/ LoadFails
    \/ CollectEndpoints \/ EndpointsBreak
    \/ OriginOfId \/ OriginOfFirst \/ OriginBreaks \/ NoOrigin
    \/ LinkedDid \/ LinkedDidThrows
    \/ NoLinkedData \/ LinkedData \/ LinkedDataUnproven
    \/ Verify \/ VerifyThrows

Next == \/ Start \/ Step
        \/ \E d \in Dids : OtherThreadPuts(d) \/ Expire(d)

Spec == Init /\ [][Next]_vars

\* A request thread that has started runs.  That its loads answer or fail is
\* assumed: neither the universal resolver's client nor the document loader's
\* is given a timeout.
FairSpec == Spec /\ WF_vars(Step)

----------------------------------------------------------------------------
(* Properties *)

Answered(k) == result # Nil /\ result.kind = k

\* What can be reached from an endpoint: the elements of a list, the first
\* value of a map.
Reaches(e, S) ==
    /\ e \in S
    /\ \A x \in S : /\ x.kind = "list" => ToSet(x.of) \subseteq S
                    /\ x.kind = "map" /\ x.of # <<>> => x.of[1] \in S
Reachable(e) == {x \in Endpoints : \A S \in SUBSET Endpoints : Reaches(e, S) => x \in S}

\* resolveDid returns every address the selected services lead to, however
\* their endpoints are nested, and none of another service.
EndpointsComplete ==
    Answered("resolved") =>
        LET services == {s \in ToSet(diDoc.services) : types = {} \/ types \cap s.types # {}}
            below == UNION {Reachable(s.endpoint) : s \in services}
        IN ToSet(result.endpoints) = {x.of : x \in {y \in below : y.kind = "string"}}

\* The verdict on a did-configuration is about the first credential that
\* passes, whatever comes before and after it; only the algorithm may be that
\* of a JWT.
Passing == {i \in DOMAIN config.linked : config.linked[i].does = "pass"}
First(S) == CHOOSE i \in S : \A j \in S : i <= j
ConfigVerdict ==
    LET data == {i \in Passing : config.linked[i].data # Nil}
        jwts == {i \in Passing : config.linked[i].jwt # Nil}
    IN Answered("verdict") /\ config.kind = "good" =>
        (result.verified <=>
            /\ data # {}
            /\ LET c == config.linked[First(data)].data
                   a == IF jwts = {} THEN AlgFromProof(c)
                        ELSE config.linked[First(jwts)].jwt
               IN did = c.did /\ \E m \in diDoc.methods : Accepts(m, c, a))

\* A credential verifies only by a key from a document of the DID in question,
\* whatever the cache went through before, and that is its signer's key and the
\* algorithm it was signed with.
VerdictJustified ==
    Answered("verdict") /\ result.verified =>
        \E x \in Docs[did] : \E m \in x.methods :
            m.key = payload.signer /\ m.alg = payload.alg

\* Every call returns.
CallReturns == pc # "idle" ~> pc = "idle"

\* rest_api: "validation of the provided DID to its Document and well-known DID
\* configuration".  The origin found for a DID names a host, so that there can
\* be a configuration at it.
OriginHasHost == Answered("resolved") => result.origin # Hostless
==============================================================================
