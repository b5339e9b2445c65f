# Verification of the Trusted Content Resolver

The Trusted Content Resolver (TCR) answers two questions over REST. `/resolve`: which trust lists do
these trust scheme pointers lead to, and what do they say about an issuer? `/validate`: is this DID
backed by its well-known configuration, and are these trust lists attested by verifiable credentials?
A pointer is a DNS name whose PTR and URI records lead to DIDs; the services of a DID document are the
addresses of VCs; a VC names a trust list and the hash of its content.

This directory holds TLA+ modules translated from the service's code
(`src/service/src/main/java/eu/xfsc/train/tcr/server`) and the Go client's, configurations for TLC, and proof modules
for TLAPS. `PROJECT.json` maps every definition to the lines it translates.

## The system

| Component | State it keeps | Operations | Talks to |
|---|---|---|---|
| `ResolutionService` with `RestExceptionHandler` | none across requests; one request builds a response | `resolveTrustList`, `validateTrustList` | all resolvers, in sequence |
| `DNSResolver` | the set `processed` of one resolution, its call stack | `resolveDomain` | DNS servers |
| `DIDResolver` | locals only | `resolveDid`, `resolveDidConfig`, `resolveVC` | universal resolver, JSON-LD document loader, two caches |
| `TLResolver` | one JAXB `Unmarshaller`; mutable `TrustListWithHash` objects in the cache | `resolveTL`, `resolveTLHash` | servers of trust lists, one cache |
| caches of `ResolverConfig` | DID documents, VCs and contexts, trust lists | Caffeine `getIfPresent`, `put`; expiry, eviction | all request threads |
| Go package (`clients/go/tcr`) | a `Configuration` all callers share; one call each | nine models with constructors, accessors, `Nullable`s and JSON; `...Execute` of two operations | its callers, the service |
| Go program (`clients/go/cmd`) | settings from arguments and files; one request | a command line | the package |
| Java, JavaScript and Python clients | none | one call per endpoint | the service |

Every request runs on a thread of Tomcat's pool. The threads share the caches, the objects in them and
the `Unmarshaller`, and nothing else; there is no lock in the code.

**What is hard.** `TLResolver` reads and writes a shared object in several steps, so that two first
verifications interfere. Entries of three caches expire independently while owners renew keys, VCs and
lists. The DNS walk recurses over a graph that may have cycles, and each query may fail. Within one
request a failure in any of a dozen calls must not disturb the rest of the answer. The Go package may be shared by goroutines,
which edit what they build requests from while calls are under way. Nothing is persisted and nothing is retried, so
crash recovery and duplicated messages do not arise.

**What makes the components correct.**

* Trust lists: no call waits for another, however long a server takes; a verified hash is the hash of the content the answer came from, and that content was
  served at the address asked for; an object can always be verified; a matching hash is accepted; the
  list returned is the one in the attested content; every call returns.
* DNS: exactly the DIDs published along the PTR records are found unless a query goes wrong; only then
  may the resolution fail; it ends whatever cycles there are, and queries no domain and follows no record twice.
* DIDs: every endpoint of the selected services is found; the verdict on a configuration concerns one
  credential and the DID that credential names; a signature verifies only by a key of that DID.
* Caches: after the timeouts have passed without requests, and always with timeouts of 0, a request sees
  documents as they are, and none is judged by the stub of `https://schema.org` the service starts with.
* Service: everything asked for is answered in its place; verdicts stay with their endpoint and DID;
  errors stand exactly where nothing was resolved.
* Go client: the settings used are the ones given and only complete requests are sent, as they were when they were
  built and to the server that was chosen; a result is the answer of a server that succeeded; a document that is
  refused changes nothing; a call whose context has ended returns.

## Modules

| Module | Models | Role |
|---|---|---|
| `TrustListData` | requests, hashes and answers of `TLResolver` | data shared by the next two |
| `TrustListVerdict` | – | what `TLResolver` promises: ask, reply, publish |
| `TrustListResolver` | `TLResolver`, `TrustListWithHash` | threads, cache, heap; implements `TrustListVerdict`; holds the inductive invariant `Inv` |
| `TrustListProofs` | – | theorems about `TrustListResolver` |
| `PointerResolution` | – | what `DNSResolver` promises for one pointer |
| `DnsResolver` | `DNSResolver.resolveDomain` | the recursion as an explicit stack; implements `PointerResolution` |
| `DnsProofs` | – | theorems about `DnsResolver` |
| `DidResolver` | `DIDResolver` | the three operations of one thread, the cache changed by others |
| `DidProofs` | – | theorems about `DidResolver`: verdicts |
| `Induction` | – | induction and recursion over well-founded sets, and what `FlattenSeq` yields; lemmas for the next |
| `EndpointProofs` | – | theorems about `DidResolver`: endpoints, types |
| `VerificationCaches` | the caches of `ResolverConfig`, `documentLoader` | one DID and one list verified through three caches in time |
| `CacheProofs` | – | theorems about `VerificationCaches` |
| `ResolutionService` | `ResolutionService`, `RestExceptionHandler` | both handlers, resolvers with any outcome |
| `ServiceProofs` | – | theorems about `ResolutionService` |
| `GoModels` | `clients/go/tcr/model_*.go` | structs, accessors and JSON of the models, as operators |
| `GoApi` | `api_trusted_content_resolver.go`, `client.go`, `configuration.go` | calls of the package, one step at a time, for any callers |
| `GoClient` | `clients/go/cmd/main.go` | one run of the program, a caller of `GoApi` |
| `GoLibrary` | the package as other programs use it, `Nullable...Request` | goroutines, callers of `GoApi`, with a shared variable |
| `GoUsers` | – | composes the package with either kind of caller |
| `GoProofs` | – | theorems about `GoUsers` |
| `MCTrustList`, `MCDns`, `MCDid`, `MCCaches`, `MCService`, `MCGoClient` | – | instances for TLC |

Definitions whose comment starts with "Mutant" are not part of the model. Each is a plausible mistake in
the definition that follows it, and the property it is paired with in `PROJECT.json` detects it.

### Trust lists

A thread's `pc` names the stretch of `resolveTLHash` or `getTrustListWithHash` it is in; each action has at
most one access to shared state. `Hit`, `Miss` are `getIfPresent`; `Fetch`, `FetchFails` are `openStream` and
`readAllBytes`; the `Parse...` and `Unmarshal...` actions are `parseContent`; `Install` is the constructor and
`put`; `CheckHash`, `Digest`, `SetHash`, `ClearContent`, `PutBack`, `Compare` are lines 77 to 93 of
`resolveTLHash` one by one. Objects are cells of `heap`; a cell nobody refers to may be reused, as the
garbage collector does. `orig`, `published` and `overlap` are history: the content an object was built
from, what an address ever served, which documents were unmarshalled at the same time.

A digest is the pair of algorithm and content, so there are no collisions. The code compares hashes as
Base58 strings or as `Multihash` objects; both are equality of such pairs. The `tlHash` field of the result is
left out, since no caller reads it. Fields of `TrustListWithHash` are plain Java fields under a data race;
threads are assumed to see one field's writes in order. Seeing the cleared content before the new hash,
which Java permits, has the same outcome as reading before the hash was set, and that is modelled.
`Unmarshaller` is documented as not thread-safe: calls that overlap may return either list, none, or throw.
A call that does not overlap gets the list of its own document. What cannot be parsed leaves `getTrustListWithHash` as
null where the exception is one it catches, and as an exception where it is not: an XML document that is no trust list
fails the cast, JSON that is `null` yields no object (`Failure`).

`TrustListResolver` instantiates `TrustListVerdict` with its own `published`, `req` and `answer`
(`Verdict == INSTANCE TrustListVerdict WITH ...`); everything else is hidden. `DnsResolver` does the same with
`PointerResolution`. The promise of `TrustListVerdict` lets a call answer null or throw at any time, since its server may
fail at any time: it says what a verdict rests on and not when there is one, which is left to `MatchIsVerified`,
`OnlyLostContentRejects` and `CallsReturn`. `NeverBlocked` says that a thread that has begun a call can take a step whatever the others do: a
server that hangs costs its own request only, and not those for the same list, as it would with a cache that loads
under a lock.

### DNS

`DnsResolver` makes the recursion of `resolveDomain(processed, domain)` a stack of frames with the targets
still to be visited, the results and the flag for errors. `fixUri` is the function `Fix`: the PTR query uses the
fixed name, the URI query the name as the record spells it, as in the code. A query may be answered, come
back with an error code (an empty answer to this code), or raise an exception. `illegal` names are those that
become too long through the prefix `fixUri` adds; they throw outside the `try`.

### DIDs

One call runs at a time; other threads put any document of a DID into the cache, and Caffeine drops
entries, at any step. The universal resolver may answer each load with another document or fail.
`serviceEndpoint` values are trees of strings, lists and maps; that they are finite is `NestingAssumption`, as a JSON
document cannot contain itself. What an entry of `linked_dids` must contain is
abstracted to one of pass, skip, throw; a configuration that is refused before the loop is `rejected` or
`mistyped`. A document may lack services, controllers or verification methods (`lacks`), which the library returns as
null and the code then fails on; a proof that is an array fails a cast (`ProofList`). A did:web with a path, whose
colon makes an authority without a host, and a URI of http or https without an authority, have no host (`noHost`) and the origin `https://null`; of
a did:web with a port the host is found. A signature is the pair of signer and algorithm, and `Accepts` is what a verifier for a key and an
algorithm finds.

### Caches

Time passes in ticks. An entry has an age and the time since its last access, both counted up to the
timeout of its cache, the age to one more. `timeout` is configured once for the caches of DID documents and of the
document loader, and once for that of trust lists. A request reads, in the order of the service, the DID document; the
did-configuration, the DID document again for the key of its credential, and the JSON-LD context it is signed under; the
VC, the DID document for its key, and the context again; and the list. It ends with `didVerified` and a verdict. The owner
renews a key or a list first and the did-configuration and the VC after. `documentLoader` puts an empty context for
`https://schema.org` into the loader's cache at start-up; it expires like any entry and is then loaded from the network
(`context` of `CacheNames`). `signed` says under which of the two the owner signs. A did-configuration or a context that
cannot be loaded is an exception the code catches (`ConfigFails`, `ContextFails`); any other load that fails ends the
request. `quiet` is history: no entry was alive when the request began, the credentials fitted the owner's documents,
nothing was renewed since, and what may be missing could be loaded. `overdue` is history: something read was loaded longer
ago than its timeout. The run identifies states that differ only in what no later step reads (`Relevant` of `MCCaches`):
entries that are no longer alive, ages, and what a request that was disturbed has seen.

### Service

A request goes through pointers, DIDs and endpoints in the order of the handlers. Each call of a resolver is
a choice between its outcomes. `confirmed` is history: what the resolvers said, about which DID or endpoint.
`failures` records at which places of which DID's list of endpoints the lambda threw. `/validate` shares the endpoint loop with `/resolve`; the two
differ in what a missing list does (line 141 tests `rtl`, so that the lambda throws) and in what a failure leaves
behind. The issuer's entry copied into the answer and the text of errors are left out.

### Go client

A JSON document is reduced to what `UnmarshalJSON` tells apart: for each field of each model whether the key is missing,
null, of a wrong type or has a value. A model (`Error` to `ValidateRequest`) is its struct, with the way each field is
held, the keys its `UnmarshalJSON` requires and the models of nested objects; `Unmarshals`, `Decoded`, `Marshalled`,
`GetOk`, `New` and `ReadInto` are the methods every model has, written once.

A call (`call[c]`) is built with a context and a request, and executed: `NoServer` and `NoRequest` are the early returns,
`Prepare` is `prepareRequest`, with the configured host and scheme over those of the server `ServerUrl` selects;
`CallFails`, `Respond`, `ReadBody` and `ReadFails` are the network; `ErrorAnswer` and `Success` are the two halves of
`...Execute` after the body has been read. `Choice` is the precedence of what a context says of one operation over what
it says in general, and `UrlFor` the server a context selects of a configuration. A context may end at any point of the call (`Cancel`); the HTTP client then gives the request up
(`Interrupted`) if `prepareRequest` has attached it.

In `GoClient` the arguments are read one by one (`SetOption`, `ReadFile`), every value is cut at its first equals sign (`Cut`;
`Piece` of a value is what is before it), blanks are filled in, and the checks of `main`
follow in their order (`Refusal` is the exit code). `Connect` makes the client and builds the call; `Report` prints or
crashes. In `GoLibrary` two goroutines share an `APIClient` and a variable. `Ask` passes the variable by value, so that
the request is a copy of the struct while its slices stay those of the caller: `lists` holds what is in them, and
`EditInPlace` changes it. A `Nullable` may hold a pointer to the variable (`Shared`) or an object of its own. Statements
on the shared variable do not overlap, which a correct Go program has to see to. Texts of errors are left out, as are the
parts of the package neither operation uses: form data, files, query parameters, cache headers.

## Runs

| Run | Instance | What it shows |
|---|---|---|
| `tl_concurrent` | 2 threads, 1 address, 2 XML lists, 3 objects, 1 algorithm | the safety of verdicts and objects under every interleaving with republication, failing servers and eviction; no call waits for another; the refinement of `TrustListVerdict`; a matching hash is rejected only by a call that found neither hash nor content |
| `tl_sequential` | 1 thread, 6 documents of different shapes, a known and an unknown algorithm | without overlap `vcVerified` means what the API says, and every call returns |
| `tl_lost_content` | 2 threads | finding: overlapping first verifications reject a matching hash |
| `tl_algo_mismatch` | 1 thread, 2 algorithms | finding: the second algorithm is never verified |
| `tl_shared_parser` | 2 threads, XML | finding: another document's list is returned as verified |
| `dns` | all PTR graphs of three domains without self-loops, and all of two domains with them, missing records, names too long to query | the walk ends and each step brings its end nearer, it loses nothing, recurses into no domain twice, and implements `PointerResolution` |
| `did` | documents with nested, mixed and broken endpoints, controllers with and without origin, three sets of keys, documents that lack members, proofs that are arrays; configurations of up to two entries | completeness of endpoints, the verdict on a configuration, origin of keys, termination |
| `did_hostless` | the same | finding: `did:web` with a path has the origin `https://null` |
| `caches` | timeouts 0 and 2, chosen separately for DIDs and lists; two renewals, of key or list; credentials signed under either context | after a quiet period requests see the current documents and verify VCs and did-configurations signed under the published context, and only those |
| `cache_ttl` | the same timeouts; one renewal | finding: the time to live is not one |
| `service` | two pointers, two DIDs, one with two endpoints, one with none, one, or the same one twice | answers are complete and in place, verdicts do not leak, errors mean what they should, every request is answered |
| `go_client` | the program: command lines of up to three arguments, answers that deviate from a complete one in one field, status or type; goroutines: two, one with six kinds of context, one with a server that never answers, three servers, one edit | settings, requests, destinations and results are as given; errors are reported; a crash has one of two known reasons; the program ends, and so does a call whose context has ended |

**Bounds.** Two threads suffice for the races of `TLResolver`, which involve one writer and one reader of an
object; three objects are what two threads and one cache entry can refer to at once, so that `Install` never
waits. The theorems below drop these bounds. Three domains give cycles, diamonds and a chain that is cut in the
middle. Configurations of two entries have every pair of entries in every order. A timeout of 2 lets an entry be
read while it is alive and still grow older than the timeout. `MaxGen` is the number of renewals: two let a key and a
list, or one of them twice, be renewed between the reads of one request, and a request tells current from stale only. In the service
run one DID may be reached by either pointer, and the endpoints of different DIDs share an address. Three arguments
are what it takes to send a request without a file, and let two files meet an argument; the checks of `UnmarshalJSON`
are made field by field, so that one deviation reaches each of them. `MaxEdits` is one edit of the shared variable,
its slice or the holder: it may come before, between and after the steps of both calls, and the holder starts empty,
with a pointer to the variable or with an object of its own, so that each edit meets each kind of holder.

**Deadlock** is checked in all runs: a thread that is idle can always start a call, and a program that has ended
stutters.

**Fairness.** `FairSpec` gives weak fairness to the steps of a request that has begun. A Tomcat thread runs. Its DNS queries end
by dnsjava's timeout (`tcr.dns.timeout`, set at lines 88 and 95 of `ResolverConfig`), so that `ResolutionEnds` assumes nothing of
the servers. Nothing else has a timeout: neither the client of the universal resolver (line 67) nor the document loader
(108 to 114) is given one, and `URL.openStream` in `TLResolver` has none. That these calls end is an assumption about
the servers, which answer or fail; the code does not enforce it, and `CallsReturn` (trust lists), `CallReturns` (DIDs) and
`RequestAnswered` (the service, which makes all of these calls) rest on it. `NeverBlocked` needs no such assumption. The
same holds of the Go program, whose HTTP client has no timeout and whose context never ends: `ProgramEnds` assumes that the
server answers or the connection fails. Of the servers of goroutines nothing is assumed; `CancelledCallsReturn` rests on
the goroutine being scheduled alone. Nothing is assumed of owners, eviction or the arrival of requests.

## Proofs

The theorems hold for all values of the constants: any sets of threads, addresses, documents and objects; any PTR graph;
any timeouts and number of renewals; configurations, requests, command lines and answers of any size. They rest on the
assumptions that the modules name and TLC evaluates on the instances: mostly that `Nil` differs from every value and that
tables are functions on the sets they are about. Further hypotheses are stated in the theorem itself.

| Module | Theorem | Statement |
|---|---|---|
| `TrustListProofs` | `TypeCorrect` | `Spec => []TypeOK` |
| | `VerifiedIsAttested` | `Spec => []VerdictSound` |
| | `AlwaysVerifiable` | `Spec => []Verifiable` |
| | `HashIsFinal` | with one algorithm, `Spec => HashStable` |
| | `OnlyOverlapRejects` | with one algorithm, `Spec => OnlyLostContentRejects` |
| | `AloneMatchIsVerified` | with one thread and one algorithm, `Spec => []MatchIsVerified` |
| | `UnsharedListIsAttested` | with one thread or no XML list, `Spec => []ListIsAttested` |
| | `KeepsPromise` | `Spec => ImplementsVerdict`, the refinement |
| `DnsProofs` | `Typed`, `Invariant` | `Spec => []TypeOK`, `Spec => []Inv` |
| | `Acyclic` | `Spec => []NoRecursion` |
| | `KeepsAll` | `Spec => []NothingLost` |
| | `ComesNearer` | `Spec => EndsNearer`, the variant of the recursion |
| | `StepsBounded` | with finitely many names, each resolution starts with `Left = Bound` and each of its steps makes `Left` smaller |
| | `DepthBounded` | with finitely many names, `Spec => [](Len(stack) <= Cardinality(Names))` |
| | `Implements` | `Spec => ImplementsPointerResolution`, the refinement |
| `DidProofs` | `Invariant` | `Spec => []Inv` |
| | `FirstDecides` | `Spec => []ConfigVerdict` |
| | `VerdictsJustified` | `Spec => []VerdictJustified` |
| `EndpointProofs` | `CollectedInvariant` | `Spec => []Collected` |
| | `TypeCorrect` | `Spec => []TypeOK` |
| | `EndpointsAllFound` | `Spec => []EndpointsComplete` |
| `CacheProofs` | `Typed`, `Invariant` | `Spec => []TypeOK`, `Spec => []Inv` |
| | `Fresh_AfterQuiet` | `Spec => []FreshAfterQuiet` |
| `ServiceProofs` | `Typed`, `Invariant` | `Spec => []TypeOK`, `Spec => []Inv` |
| | `VerdictsConfirmed` | `Spec => []VerifiedIsConfirmed` |
| | `ErrorsMeanNothing` | `Spec => []ErrorMeansNothing` |
| | `AllAccounted` | `Spec => []EndpointsAccounted` |
| | `AllAnswered` | `Spec => []EverythingAnswered` |
| `GoProofs` | `Invariant` | `Spec => []Inv` |
| | `TypeCorrect` | if `Addressed`, `Spec => []TypeOK` |
| | `ErrorsCarryModels` | `Spec => []ErrorCarriesModel` |
| | `ResultsAreAnswers` | `Spec => []ResultIsAnswer` |
| | `SentWhereChosenAlways` | `Spec => []SentWhereChosen` |
| | `SentIsAsBuilt` | `Spec => []SentAsBuilt` |
| | `RejectedLeavesNoTrace` | if `RefusedDistinct`, `Spec => []NoTraceOfRejected` |
| | `LastSettingsWin` | `Spec => []LastSettingWins` |
| | `RequestsComplete` | `Spec => []RequestComplete` |
| | `CrashesExplained` | `Spec => []CrashExplained` |

Each module proves that its invariant holds at first and that every action preserves it, mostly one lemma for an action
or for a conjunct; the theorems are consequences of the invariant, and a refinement follows from it step by step. Why
the properties are not inductive as they stand, and what the invariants add:

* **Trust lists** (`Inv` of `TrustListResolver`). That a comparison is right depends on the stored hash being of the object's
  own content (`Verifiable`), on the content a thread digested being that of the object it holds (`DigestFaithful`), on the
  object having come from the address (`Provenance`), and on a thread holding an object and arguments where the code
  dereferences them (`CallShape`). The theorems with one algorithm are false with two, which is the finding of
  `tl_algo_mismatch`: two first verifications may store hashes of different types in turn. `AloneMatchIsVerified` drops
  threads as well, so that each of the two findings is tied to its cause: with both excluded a matching hash is accepted.
  Likewise `UnsharedListIsAttested` excludes what `tl_shared_parser` exhibits and nothing else.
* **DNS.** `Control` says when there is a call to make or a frame to work on; `Calls` that each frame is of a processed
  domain, has only PTR targets of it to walk, and has an error only if a query failed; `Gathered` that what was found is
  spread over the frames. `Sound` bounds what is read by every closed set of names around the pointer; `Complete` says that
  a target of a processed domain was followed already or will be by a frame of that domain. When the stack is empty the
  last two make the processed domains the smallest closed set, which is what `PointerResolution` returns the DIDs of.
  `DnsResolver` ends a cycle by `processed` alone, so that `NoRecursion` needs the frames to be processed (`Calls`).
  `EndsNearer` orders the states of a resolution by the domains not yet processed, the PTR records still to follow, the depth
  of the stack and the control state, in this order; a record is followed once because only one frame is of its domain
  (`NoRecursion`). With finitely many names `Left` puts a number on it: N names leave `N * (2N + 2) + 1` to do when
  `resolveDomain` is called, and every step of the walk lowers it (`StepsBounded`), so that `ResolutionEnds` rests on each
  query returning and on nothing else. The frames are of different names, of which there are N (`DepthBounded`). Only these
  two theorems assume the names finite, by a hypothesis; the others hold for any set of them.
* **DIDs.** `LoopSoFar` is the loop invariant of `resolveDidConfig`: the credential kept is the first that passed, the
  algorithm that of the first JWT that did, and otherwise there was none before `next`. `KeysForConfig` carries it over the
  steps that fetch the keys, while others change the cache, and `VerdictGiven` to the result.
  `Collected` says that the endpoints kept between two steps, and those in a result, are what the services of the document
  lead to (`Wanted`). That `resolveEndpoint` yields the addresses below an endpoint is an induction over its nesting. The
  library's induction theorems have predicates as parameters, which the provers cannot instantiate; `Induction` has sets in
  their place: the set of endpoints for which a claim fails, if it is not empty, has by `NestingAssumption` an element that is
  made of none of the others (`EndpointsFounded`). `Recursion` shows in the same way that the recursive definitions of
  `Breaks`, `Flatten` and the library's `FlattenSeq` have a solution (`BreaksDefined`, `FlattenDefined`, `CanBeJoined`), without
  which nothing would follow from them, and `FlattenIsBelow` relates `Flatten` to `Reachable`, which is defined by closed sets.
* **Caches.** While nothing disturbs a request (`Undisturbed`), live entries, everything read so far and the owner's
  documents agree, whatever the timeout of each cache; `HasRead` is what has been read where. The context counts as published once its entry is gone
  (`ContextPublished`), and the two verdicts are those of the documents seen (`VerdictOfSeen`, `ConfigVerdict`).
* **Service.** `Offered` and `EndpointsSoFar` relate the endpoints left to those that were offered: an increasing map from
  the answers to the places that did not throw, extended by each step. `ErrorsSoFar` and `VerdictsSoFar` are the loop
  invariants for errors and verdicts, `PointersSoFar` and `DidsSoFar` divide what was asked for into done, in work and to do.
* **Go.** Calls, program and library have an invariant each. Every step of a call is one of eight kinds (`Moves`: built,
  cancelled, failing, sending, hearing, reading, reporting, succeeding), proved once for each action; what is proved of
  calls (`CallInv`) looks at the kind alone and not at who makes the call. `ProgramInv` has `SettingsSoFar`, which says what the
  arguments read so far make of each setting, and `Asked`, which says that the request, the configuration and the
  destination come from the settings. `LibraryInv` says what the shared variable and the holder may contain (`Objects`), that a
  request about to be sent is what its goroutine handed over (`ReadyAsBuilt`), and the same of one that was sent (`Sent`).

Two theorems about Go have hypotheses that `MCGoClient` states as an assumption, so that TLC evaluates them on the
instance. `Addressed`: where the configuration has no host, no context of a goroutine leads to a blank one, and likewise
for the scheme; a context may set a server variable to the empty string, and the code makes a request of what is left. `RefusedDistinct`: what refused
documents hold differs from everything else, without which a trace could not be told from a coincidence.

**What is not proved** and rests on TLC alone:

* liveness, which rests on fairness: `CallsReturn`, `ResolutionEnds`, `CallReturns`, `RequestAnswered`, `ProgramEnds`,
  `CancelledCallsReturn`;
* `NeverBlocked`, which is about what is `ENABLED`.

Every other property of a run that passes is the conclusion of a theorem.

## Not modelled

* Health indicators, beans built at start-up, the application class: no state that changes.
* The parsing of JSON, XML, JWT and JSON-LD, digests and signatures: libraries, modelled by their outcomes.
* The number of Tomcat's threads: a server that never answers holds one thread for each request made of it, as
  `TLResolver.java:120` has no timeout, and enough of them hold all. That is arithmetic on a pool of the framework; what
  the code contributes, that only those requests wait, is `NeverBlocked`.
* Of the Go package, the parts neither operation uses (`utils.go` apart from `IsNil`, forms, files and query parameters
  in `client.go`, `CacheExpires`, `AddDefaultHeader`), debug output, and the path of the base URI, which the program never
  uses.
* The Java client is a command line much like the Go one over blocking calls of `WebClient`; it keeps no state and
  decodes with Jackson and generated classes that are not in the repository. The JavaScript and Python clients hand their
  options to generated packages that are not in the repository either.

## Plan

The trust list resolver with its promise, DNS, DID, caches, service and the Go client are modelled, and every safety
property of the runs that the provers can reach is a theorem. What is left:

1. A composition in which the service calls the abstract promises `TrustListVerdict` and `PointerResolution` instead of
   arbitrary outcomes. It would state end to end what `vcVerified` in an answer of `/resolve` rests on, and the theorems of
   `KeepsPromise` and `Implements` would carry it down to the detailed modules.
2. Shorter proofs: `ServiceProofs` and `GoProofs` treat records field by field, which common lemmas could do once.
