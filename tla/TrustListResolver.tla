------------------------- MODULE TrustListResolver -------------------------
(***************************************************************************)
(* TLResolver.java: the request threads of the service that fetch, cache   *)
(* and verify trust lists.  All threads share one cache, the mutable       *)
(* TrustListWithHash objects it holds, and one JAXB Unmarshaller.          *)
(*                                                                         *)
(* A step of a thread is a stretch of code with at most one access to      *)
(* shared state.  A digest is the pair of its algorithm and the content    *)
(* it was computed from (no collisions); Nil is Java's null.               *)
(***************************************************************************)
EXTENDS TrustListData

CONSTANTS
    Shape,        \* Shape[c]: what parseContent makes of document c
    Objs          \* heap cells for TrustListWithHash objects

\* bad: the parser rejects it; oddXml: its root is an element of another type;
\* nullJson: its JSON value is null.
Shapes == {"xml", "badXml", "oddXml", "json", "badJson", "emptyJson", "nullJson", "other"}

ASSUME ShapeAssumption == Shape \in [Contents -> Shapes]
ASSUME ObjsAssumption == Nil \notin Objs

VARIABLES
    remote,     \* remote[u]: what the server of u answers, Nil: an IOException
    published,  \* history: published[u], everything u ever answered with
    cache,      \* trustListCache
    heap,       \* the TrustListWithHash objects; orig is history: the content
                \* the object was built from
    pc,         \* where each thread is
    req,        \* the arguments of its current or last call
    entry,      \* its local trustListHash
    doc,        \* its local content, later the content it digested
    parsed,     \* its local trustList
    overlap,    \* documents other threads unmarshalled while it unmarshalled
    answer      \* what the call returned, Nil while it runs

vars == <<remote, published, cache, heap, pc, req, entry, doc, parsed, overlap, answer>>
locals == <<entry, doc, parsed, overlap>>

TrustListWithHash == [orig : Contents \cup {Nil}, content : Contents \cup {Nil},
                      list : Contents \cup {Nil}, hash : Hashes \cup {Nil}]
Labels == {"idle", "lookup", "fetch", "parse", "parsing", "install", "resume",
           "digest", "setHash", "clear", "putBack", "compare"}

TypeOK ==
    /\ remote \in [Uris -> Contents \cup {Nil}]
    /\ published \in [Uris -> SUBSET Contents]
    /\ cache \in [Uris -> Objs \cup {Nil}]
    /\ heap \in [Objs -> TrustListWithHash]
    /\ pc \in [Threads -> Labels]
    /\ req \in [Threads -> Requests \cup {Nil}]
    /\ entry \in [Threads -> Objs \cup {Nil}]
    /\ doc \in [Threads -> Contents \cup {Nil}]
    /\ parsed \in [Threads -> Contents \cup {Nil}]
    /\ overlap \in [Threads -> SUBSET Contents]
    /\ answer \in [Threads -> Answers \cup {Nil}]

Blank == [orig |-> Nil, content |-> Nil, list |-> Nil, hash |-> Nil]

Init ==
    /\ remote \in [Uris -> Contents \cup {Nil}]
    /\ published = [u \in Uris |-> {remote[u]} \ {Nil}]
    /\ cache = [u \in Uris |-> Nil]
    /\ heap = [o \in Objs |-> Blank]
    /\ pc = [t \in Threads |-> "idle"]
    /\ req = [t \in Threads |-> Nil]
    /\ entry = [t \in Threads |-> Nil]
    /\ doc = [t \in Threads |-> Nil]
    /\ parsed = [t \in Threads |-> Nil]
    /\ overlap = [t \in Threads |-> {}]
    /\ answer = [t \in Threads |-> Nil]

----------------------------------------------------------------------------
(* Helpers *)

\* Objects some thread or the cache still refers to; the others are garbage.
Live == {entry[t] : t \in Threads} \cup {cache[u] : u \in Uris}

Uri(t) == req[t].uri
Hash(t) == req[t].hash

Goto(t, from, to) == pc[t] = from /\ pc' = [pc EXCEPT ![t] = to]

\* The call of t returns or throws from label `from`.
Finish(t, from, a) ==
    /\ Goto(t, from, "idle")
    /\ answer' = [answer EXCEPT ![t] = a]
    /\ doc' = [doc EXCEPT ![t] = Nil]

Result(t, ok) == [kind |-> "result", verified |-> ok, list |-> heap[entry[t]].list]

\* What parseContent returns for document c when nothing disturbs it.
IsXml(c) == Shape[c] \in {"xml", "badXml", "oddXml"}
Parsable(c) == Shape[c] \notin {"badXml", "oddXml", "badJson", "nullJson"}
ListOf(c) == IF Shape[c] \in {"xml", "json"} THEN c ELSE Nil

\* Otherwise it throws: the parsers' JAXBException and JsonProcessingException
\* are caught like an IOException and null is returned, the ClassCastException of
\* an odd root and the NullPointerException of a JSON null leave the call.
Failure(c) == IF Shape[c] \in {"badXml", "badJson"} THEN Null ELSE Threw

----------------------------------------------------------------------------
(* One call of resolveTL or resolveTLHash *)

Start(t) ==
    /\ Goto(t, "idle", "lookup")
    /\ req' \in {[req EXCEPT ![t] = r] : r \in Requests}
    /\ entry' = [entry EXCEPT ![t] = Nil]
    /\ answer' = [answer EXCEPT ![t] = Nil]
    /\ UNCHANGED <<remote, published, cache, heap, doc, parsed, overlap>>

Hit(t) ==
    /\ Goto(t, "lookup", "resume")
    /\ cache[Uri(t)] # Nil
    /\ entry' = [entry EXCEPT ![t] = cache[Uri(t)]]
    /\ UNCHANGED <<remote, published, cache, heap, req, doc, parsed, overlap, answer>>

\* Mutant: an address is fetched by one thread at a time.
MissWaits(t) ==
    /\ Goto(t, "lookup", "fetch")
    /\ cache[Uri(t)] = Nil
    /\ \A s \in Threads : pc[s] = "fetch" => Uri(s) # Uri(t)
    /\ UNCHANGED <<remote, published, cache, heap, req, locals, answer>>

Miss(t) ==
    /\ Goto(t, "lookup", "fetch")
    /\ cache[Uri(t)] = Nil
    /\ UNCHANGED <<remote, published, cache, heap, req, locals, answer>>

\* Mutant: a failed fetch is tried again without bound.
FetchRetries(t) ==
    /\ Goto(t, "fetch", "lookup")
    /\ remote[Uri(t)] = Nil
    /\ UNCHANGED <<remote, published, cache, heap, req, locals, answer>>

\* The IOException is caught: nothing is cached and the caller gets null.
FetchFails(t) ==
    /\ Finish(t, "fetch", Null)
    /\ remote[Uri(t)] = Nil
    /\ UNCHANGED <<remote, published, cache, heap, req, entry, parsed, overlap>>

Fetch(t) ==
    /\ Goto(t, "fetch", "parse")
    /\ remote[Uri(t)] # Nil
    /\ doc' = [doc EXCEPT ![t] = remote[Uri(t)]]
    /\ UNCHANGED <<remote, published, cache, heap, req, entry, parsed, overlap, answer>>

\* Mutant: the list is parsed from a second download, not from the content.
ParseAnew(t) ==
    /\ Goto(t, "parse", "install")
    /\ ~IsXml(doc[t]) /\ Parsable(doc[t]) /\ remote[Uri(t)] # Nil
    /\ parsed' = [parsed EXCEPT ![t] = ListOf(remote[Uri(t)])]
    /\ UNCHANGED <<remote, published, cache, heap, req, entry, doc, overlap, answer>>

\* JSON and documents of unknown type need no shared parser.
ParseLocally(t) ==
    /\ Goto(t, "parse", "install")
    /\ ~IsXml(doc[t]) /\ Parsable(doc[t])
    /\ parsed' = [parsed EXCEPT ![t] = ListOf(doc[t])]
    /\ UNCHANGED <<remote, published, cache, heap, req, entry, doc, overlap, answer>>

\* The JSON is no trust list.
ParseFails(t) ==
    /\ Finish(t, "parse", Failure(doc[t]))
    /\ ~IsXml(doc[t]) /\ ~Parsable(doc[t])
    /\ UNCHANGED <<remote, published, cache, heap, req, entry, parsed, overlap>>

\* trainListParser.unmarshal begins: it overlaps with every call under way.
Unmarshal(t) ==
    /\ Goto(t, "parse", "parsing")
    /\ IsXml(doc[t])
    /\ LET others == {s \in Threads : pc[s] = "parsing"} IN
       overlap' = [s \in Threads |->
                     IF s = t THEN {doc[r] : r \in others}
                     ELSE IF s \in others THEN overlap[s] \cup {doc[t]}
                     ELSE overlap[s]]
    /\ UNCHANGED <<remote, published, cache, heap, req, entry, doc, parsed, answer>>

\* It returns a list.  Alone it is the list of the document; the Unmarshaller
\* is not thread-safe, so overlapping calls may get each other's list or none.
Unmarshalled(t) ==
    /\ Goto(t, "parsing", "install")
    /\ \/ Parsable(doc[t]) /\ parsed' = [parsed EXCEPT ![t] = ListOf(doc[t])]
       \/ /\ overlap[t] # {}
          /\ \E l \in {ListOf(c) : c \in overlap[t]} \cup {Nil} :
                parsed' = [parsed EXCEPT ![t] = l]
    /\ overlap' = [overlap EXCEPT ![t] = {}]
    /\ UNCHANGED <<remote, published, cache, heap, req, entry, doc, answer>>

\* It throws, or what it returns is cast to the wrong class; when calls overlap
\* any exception may come of it.
UnmarshalFails(t) ==
    /\ \E a \in {Null, Threw} :
          /\ Finish(t, "parsing", a)
          /\ overlap[t] # {} \/ (~Parsable(doc[t]) /\ a = Failure(doc[t]))
    /\ overlap' = [overlap EXCEPT ![t] = {}]
    /\ UNCHANGED <<remote, published, cache, heap, req, entry, parsed>>

\* Mutant: the object is built without its content.
InstallWithoutContent(t) ==
    /\ Goto(t, "install", "resume")
    /\ \E o \in Objs \ Live :
          /\ heap' = [heap EXCEPT ![o] = [orig |-> doc[t], content |-> Nil,
                                          list |-> parsed[t], hash |-> Nil]]
          /\ cache' = [cache EXCEPT ![Uri(t)] = o]
          /\ entry' = [entry EXCEPT ![t] = o]
    /\ doc' = [doc EXCEPT ![t] = Nil]
    /\ parsed' = [parsed EXCEPT ![t] = Nil]
    /\ UNCHANGED <<remote, published, req, overlap, answer>>

\* new TrustListWithHash(content, trustList, null) and trustListCache.put
Install(t) ==
    /\ Goto(t, "install", "resume")
    /\ \E o \in Objs \ Live :
          /\ heap' = [heap EXCEPT ![o] = [orig |-> doc[t], content |-> doc[t],
                                          list |-> parsed[t], hash |-> Nil]]
          /\ cache' = [cache EXCEPT ![Uri(t)] = o]
          /\ entry' = [entry EXCEPT ![t] = o]
    /\ doc' = [doc EXCEPT ![t] = Nil]
    /\ parsed' = [parsed EXCEPT ![t] = Nil]
    /\ UNCHANGED <<remote, published, req, overlap, answer>>

\* resolveTL returns the list of the entry.
ReturnList(t) ==
    /\ pc[t] = "resume" /\ Hash(t) = ListOnly
    /\ Finish(t, "resume", Result(t, FALSE))
    /\ UNCHANGED <<remote, published, cache, heap, req, entry, parsed, overlap>>

\* Multihash.fromBase58 stands outside the try: its exception is the caller's.
DecodeFails(t) ==
    /\ Finish(t, "resume", Threw)
    /\ Hash(t) = Undecodable
    /\ UNCHANGED <<remote, published, cache, heap, req, entry, parsed, overlap>>

\* The test of getHash() decides once and for all which way the call goes.
CheckHash(t) ==
    /\ pc[t] = "resume" /\ Hash(t) \in Hashes
    /\ Goto(t, "resume", IF heap[entry[t]].hash = Nil THEN "digest" ELSE "compare")
    /\ UNCHANGED <<remote, published, cache, heap, req, locals, answer>>

\* getDigestType throws on an unknown algorithm, getContent().getBytes() on a
\* content another thread has dropped: both are caught, the hash unverified.
DigestFails(t) ==
    /\ pc[t] = "digest"
    /\ Hash(t).algo \notin Algos \/ heap[entry[t]].content = Nil
    /\ Finish(t, "digest", Result(t, FALSE))
    /\ UNCHANGED <<remote, published, cache, heap, req, entry, parsed, overlap>>

\* Mutant: the content is dropped as soon as it is read, before the hash is set.
DigestAndDrop(t) ==
    /\ Goto(t, "digest", "setHash")
    /\ Hash(t).algo \in Algos /\ heap[entry[t]].content # Nil
    /\ doc' = [doc EXCEPT ![t] = heap[entry[t]].content]
    /\ heap' = [heap EXCEPT ![entry[t]].content = Nil]
    /\ UNCHANGED <<remote, published, cache, req, entry, parsed, overlap, answer>>

Digest(t) ==
    /\ Goto(t, "digest", "setHash")
    /\ Hash(t).algo \in Algos /\ heap[entry[t]].content # Nil
    /\ doc' = [doc EXCEPT ![t] = heap[entry[t]].content]
    /\ UNCHANGED <<remote, published, cache, heap, req, entry, parsed, overlap, answer>>

\* Mutants: the hash the VC claims is stored and compared; its type only.
ClaimedHash(t) == Hash(t)
HashType(t) == Hash(t).algo

\* tlHash of the code
TlHash(t) == [algo |-> Hash(t).algo, of |-> doc[t]]

SetHash(t) ==
    /\ Goto(t, "setHash", "clear")
    /\ heap' = [heap EXCEPT ![entry[t]].hash = TlHash(t)]
    /\ UNCHANGED <<remote, published, cache, req, locals, answer>>

\* Mutant: the wrong field is cleared.
ClearHash(t) ==
    /\ Goto(t, "clear", "putBack")
    /\ heap' = [heap EXCEPT ![entry[t]].hash = Nil]
    /\ UNCHANGED <<remote, published, cache, req, locals, answer>>

ClearContent(t) ==
    /\ Goto(t, "clear", "putBack")
    /\ heap' = [heap EXCEPT ![entry[t]].content = Nil]
    /\ UNCHANGED <<remote, published, cache, req, locals, answer>>

\* Mutant: the verdict of the first computation is not recorded.
PutBackUnverified(t) ==
    /\ Finish(t, "putBack", Result(t, FALSE))
    /\ cache' = [cache EXCEPT ![Uri(t)] = entry[t]]
    /\ UNCHANGED <<remote, published, heap, req, entry, parsed, overlap>>

PutBack(t) ==
    /\ Finish(t, "putBack", Result(t, Hash(t) = TlHash(t)))
    /\ cache' = [cache EXCEPT ![Uri(t)] = entry[t]]
    /\ UNCHANGED <<remote, published, heap, req, entry, parsed, overlap>>

\* Mutant: a hash that was computed before counts as verified.
CompareTrusting(t) ==
    /\ Finish(t, "compare", Result(t, heap[entry[t]].hash # Nil))
    /\ UNCHANGED <<remote, published, cache, heap, req, entry, parsed, overlap>>

Compare(t) ==
    /\ Finish(t, "compare", Result(t, Hash(t) = heap[entry[t]].hash))
    /\ UNCHANGED <<remote, published, cache, heap, req, entry, parsed, overlap>>

----------------------------------------------------------------------------
(* The environment *)

\* The owner of a list replaces it, or its server starts to fail.
Publish(u) ==
    /\ \E c \in Contents \cup {Nil} :
          /\ remote' = [remote EXCEPT ![u] = c]
          /\ published' = [published EXCEPT ![u] = @ \cup ({c} \ {Nil})]
    /\ UNCHANGED <<cache, heap, pc, req, locals, answer>>

\* Caffeine drops the entry: expireAfterAccess or maximumSize.
Expire(u) ==
    /\ cache[u] # Nil
    /\ cache' = [cache EXCEPT ![u] = Nil]
    /\ UNCHANGED <<remote, published, heap, pc, req, locals, answer>>

----------------------------------------------------------------------------
GetTrustListWithHash(t) ==
    \/ Hit(t) \/ Miss(t) \/ Fetch(t) \/ FetchFails(t)
    \/ ParseLocally(t) \/ ParseFails(t) \/ Unmarshal(t) \/ Unmarshalled(t) \/ UnmarshalFails(t)
    \/ Install(t)

Verify(t) ==
    \/ ReturnList(t) \/ DecodeFails(t) \/ CheckHash(t)
    \/ DigestFails(t) \/ Digest(t) \/ SetHash(t) \/ ClearContent(t)
    \/ PutBack(t) \/ Compare(t)

Step(t) == GetTrustListWithHash(t) \/ Verify(t)

Next == \/ \E t \in Threads : Start(t) \/ Step(t)
        \/ \E u \in Uris : Publish(u) \/ Expire(u)

Spec == Init /\ [][Next]_vars

\* A request thread that has started is scheduled until its call ends.
FairSpec == Spec /\ \A t \in Threads : WF_vars(Step(t))

----------------------------------------------------------------------------
(* Properties *)

Answered(t) == answer[t] # Nil /\ answer[t].kind = "result"
Verified(t) == Answered(t) /\ answer[t].verified

\* The VC attests, under an algorithm the service knows, the content the
\* entry was built from.
Attested(t) == Hash(t) \in Hashes /\ Hash(t).algo \in Algos
               /\ Hash(t).of = heap[entry[t]].orig

\* A verified hash is the hash of the content the answer came from, and that
\* content was served at the address asked for: no interleaving of fetches,
\* evictions, put-backs and shared objects verifies anything else.
VerdictSound ==
    \A t \in Threads : Verified(t) =>
        Attested(t) /\ Hash(t).of \in published[Uri(t)]

\* An object that has been filled can always be verified: it holds its content
\* or a hash of it, also between the two setters of resolveTLHash.
Verifiable ==
    \A o \in Objs : LET e == heap[o] IN e.orig # Nil =>
        /\ e.content \in {e.orig, Nil}
        /\ e.hash # Nil => e.hash.of = e.orig /\ e.hash.algo \in Algos
        /\ e.content = Nil => e.hash # Nil

\* openapi, vcVerified: "VC hash matches Trust List content".  A hash that
\* matches the content the answer came from is reported as verified.
MatchIsVerified ==
    \A t \in Threads : Answered(t) /\ Attested(t) => answer[t].verified

\* The list returned with a verified hash is the one in the attested content.
ListIsAttested ==
    \A t \in Threads : Verified(t) => answer[t].list \in {Hash(t).of, Nil}

\* Once an object carries a hash no thread that holds the object sees it change.
HashStable ==
    [][\A t \in Threads :
          entry[t] # Nil /\ heap[entry[t]].hash # Nil =>
              heap'[entry[t]].hash = heap[entry[t]].hash]_vars

\* The only call that rejects a matching hash is one that saw no hash and then
\* found the content gone; in particular no call that finds the hash set does.
OnlyLostContentRejects ==
    [][\A t \in Threads :
          (pc[t] # "idle" /\ Answered(t)' /\ Attested(t) /\ ~Verified(t)') =>
          pc[t] = "digest" /\ heap[entry[t]].content = Nil]_vars

\* Every call returns, provided its thread runs and servers answer or fail.
CallsReturn == \A t \in Threads : pc[t] = "lookup" ~> pc[t] = "idle"

\* No call waits for another one: a thread whose server never answers, and
\* the code sets no timeout, keeps itself but nobody who asks for the same list.
\* (How many threads there are to keep is a matter of the servlet container.)
NeverBlocked == \A t \in Threads : pc[t] # "idle" => ENABLED Step(t)

\* TLResolver implements its promise: the state callers see is its state.
Verdict == INSTANCE TrustListVerdict
           WITH published <- published, req <- req, answer <- answer
ImplementsVerdict == Verdict!Spec
----------------------------------------------------------------------------
(* The inductive invariant behind VerdictSound, Verifiable and the          *)
(* refinement.                                                              *)

Holding == {"resume", "digest", "setHash", "clear", "putBack", "compare"}
SomewherePublished == UNION {published[u] : u \in Uris}

\* A thread inside a call has its arguments and no answer yet; after the lookup
\* it holds an object, and a content while it works on one.
CallShape ==
    \A t \in Threads :
        /\ pc[t] = "idle" => req[t] = Nil \/ answer[t] # Nil
        /\ pc[t] # "idle" => req[t] # Nil /\ answer[t] = Nil
        /\ answer[t] # Nil \/ entry[t] # Nil => req[t] # Nil
        /\ pc[t] \in Holding => entry[t] # Nil
        /\ Answered(t) => entry[t] # Nil
        /\ pc[t] \in {"parse", "parsing", "install", "setHash", "clear", "putBack"} =>
              doc[t] # Nil
        /\ pc[t] \in {"digest", "setHash", "clear", "putBack", "compare"} =>
              Hash(t) \in Hashes
        /\ pc[t] \in {"setHash", "clear", "putBack"} => Hash(t).algo \in Algos

\* What a thread or the cache refers to was built from a content published at
\* the address it is used for.
Provenance ==
    /\ \A t \in Threads :
          /\ entry[t] # Nil => heap[entry[t]].orig \in published[Uri(t)]
          /\ pc[t] \in {"parse", "parsing", "install"} => doc[t] \in published[Uri(t)]
    /\ \A u \in Uris : cache[u] # Nil => heap[cache[u]].orig \in published[u]
    /\ \A u \in Uris : remote[u] # Nil => remote[u] \in published[u]

\* Between the digest and the verdict a thread works on the content of the
\* object it holds, and once the object has a hash it keeps one.
DigestFaithful ==
    \A t \in Threads :
        /\ pc[t] \in {"setHash", "clear", "putBack"} => doc[t] = heap[entry[t]].orig
        /\ pc[t] \in {"clear", "putBack", "compare"} => heap[entry[t]].hash # Nil

\* Every list, wherever it is kept, comes from a published document.
ListsPublished ==
    /\ \A o \in Objs : heap[o].list \in SomewherePublished \cup {Nil}
    /\ \A t \in Threads :
          /\ parsed[t] \in SomewherePublished \cup {Nil}
          /\ overlap[t] \subseteq SomewherePublished
          /\ Answered(t) => answer[t].list \in SomewherePublished \cup {Nil}

Inv == /\ TypeOK /\ CallShape /\ Verifiable /\ Provenance
       /\ DigestFaithful /\ ListsPublished /\ VerdictSound
=============================================================================
