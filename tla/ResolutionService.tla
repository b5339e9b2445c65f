------------------------- MODULE ResolutionService -------------------------
(***************************************************************************)
(* ResolutionService: the handlers of /resolve and /validate.  One request *)
(* is followed from its receipt to its HTTP status; the resolvers it calls *)
(* may return anything they can return, or throw, at every call.  What the *)
(* failure of one call does to the rest of the answer is the point here.   *)
(***************************************************************************)
EXTENDS Naturals, Sequences

CONSTANTS
    Dids,      \* DIDs pointers may lead to
    PtrLists,  \* the lists of trust scheme pointers of /resolve requests
    EpLists,   \* EpLists[d]: lists of endpoints of d's DID documents, and of
               \* /validate requests for d
    Nil

Elements(lists) == UNION {{l[i] : i \in 1..Len(l)} : l \in lists}
AllEpLists == UNION {EpLists[d] : d \in Dids}
Pointers == Elements(PtrLists)
Endpoints == Elements(AllEpLists)

VARIABLES
    op,         \* resolve or validate
    asked,      \* the pointers or endpoints of the request
    pc,
    ptrs,       \* the pointers still to be resolved
    rePtrs,     \* result.trustSchemePointers
    resolved,   \* the set of DIDs the pointers led to
    todo,       \* those the forEach has still to visit
    eps,        \* endpoints of the current DID still to be visited
    reDid,      \* the ResolvedDid, or the ValidateResponse, being built
    results,    \* result.resolvedResults, or the one ValidateResponse
    signed,     \* vcRes.verified of the current endpoint
    status,     \* HTTP status of the response, Nil before it is sent
    confirmed,  \* history: what the resolvers confirmed, of which DID or endpoint
    failures    \* history: by DID, the places of endpoints whose processing threw

request == <<op, asked>>
pointers == <<ptrs, rePtrs, resolved>>
answer == <<results, status>>
history == <<confirmed, failures>>
vars == <<request, pc, pointers, todo, eps, reDid, answer, signed, history>>

\* A ResolvedTrustList; the issuer's entry it may carry is left out.
Items == [ep : Endpoints, vcVerified : BOOLEAN]

\* error: an Error is set; doc: resolvedDoc is set, its endpoints kept in order;
\* offered is history, the endpoints there were to resolve.
ResolvedDid == [did : Dids, didVerified : BOOLEAN, endpoints : Seq(Items),
                error : BOOLEAN, doc : BOOLEAN, offered : AllEpLists \cup {<<>>}]
ResolvedPointer == [pointer : Pointers, dids : SUBSET Dids, error : BOOLEAN]

ASSUME ListsAssumption == /\ PtrLists \subseteq Seq(Pointers)
                          /\ EpLists \in [Dids -> SUBSET Seq(Endpoints)]
ASSUME NilAssumption == Nil \notin ResolvedDid \cup {200, 500, 510}

Facts == [what : {"origin", "signature", "hash"}, did : Dids, ep : Endpoints \cup {Nil}]

\* RestExceptionHandler: a DidException, any other RuntimeException
StatusOf == [did |-> 510, runtime |-> 500]

TypeOK ==
    /\ op \in {"resolve", "validate"}
    /\ asked \in PtrLists \cup AllEpLists \cup {<<>>}
    /\ pc \in {"idle", "pointers", "dids", "did", "config", "endpoints", "tl"}
    /\ ptrs \in Seq(Pointers)
    /\ rePtrs \in Seq(ResolvedPointer)
    /\ resolved \in SUBSET Dids /\ todo \in SUBSET Dids
    /\ eps \in Seq(Endpoints)
    /\ reDid \in ResolvedDid \cup {Nil}
    /\ results \in Seq(ResolvedDid)
    /\ signed \in BOOLEAN
    /\ status \in {Nil, 200, 500, 510}
    /\ confirmed \in SUBSET Facts
    /\ failures \in SUBSET (Dids \X Nat)

Init ==
    /\ op = "resolve" /\ asked = <<>> /\ pc = "idle"
    /\ ptrs = <<>> /\ rePtrs = <<>> /\ resolved = {} /\ todo = {} /\ eps = <<>>
    /\ reDid = Nil /\ results = <<>> /\ signed = FALSE /\ status = Nil
    /\ confirmed = {} /\ failures = {}

\* Mutant: the list of endpoints is not there until the first is added.
BlankNoList(d, l) == [did |-> d, didVerified |-> FALSE, endpoints |-> Nil,
                      error |-> FALSE, doc |-> FALSE, offered |-> l]

Blank(d, l) == [did |-> d, didVerified |-> FALSE, endpoints |-> <<>>,
                error |-> FALSE, doc |-> FALSE, offered |-> l]

Fact(w, e) == [what |-> w, did |-> reDid.did, ep |-> e]
Confirm(yes, fact) == confirmed' = IF yes THEN confirmed \cup {fact} ELSE confirmed

\* The place of the endpoint that is visited among those there were to resolve.
Place == Len(reDid.offered) - Len(eps) + 1

Receive(o, l) ==
    /\ pc = "idle"
    /\ op' = o /\ asked' = l
    /\ rePtrs' = <<>> /\ resolved' = {} /\ todo' = {}
    /\ results' = <<>> /\ status' = Nil /\ signed' = FALSE
    /\ confirmed' = {} /\ failures' = {}

----------------------------------------------------------------------------
(* The pointers of /resolve *)

ReceiveResolve(l) ==
    /\ Receive("resolve", l)
    /\ pc' = "pointers" /\ ptrs' = l /\ eps' = <<>> /\ reDid' = Nil

AddPointer(ds, failed) ==
    /\ pc = "pointers" /\ ptrs # <<>>
    /\ ptrs' = Tail(ptrs)
    /\ rePtrs' = Append(rePtrs, [pointer |-> Head(ptrs), dids |-> ds, error |-> failed])
    /\ resolved' = resolved \cup ds
    /\ UNCHANGED <<request, pc, todo, eps, reDid, answer, signed, history>>

ResolvePointer(ds) == AddPointer(ds, FALSE)

\* Mutant: the first pointer that fails ends the loop.
PointerEndsLoop ==
    /\ pc = "pointers" /\ ptrs # <<>>
    /\ ptrs' = <<>>
    /\ rePtrs' = Append(rePtrs, [pointer |-> Head(ptrs), dids |-> {}, error |-> TRUE])
    /\ UNCHANGED <<request, pc, resolved, todo, eps, reDid, answer, signed, history>>

\* resolveDomain throws: a dns_error stands in the place of the DIDs.
PointerFails == AddPointer({}, TRUE)

PointersDone ==
    /\ pc = "pointers" /\ ptrs = <<>>
    /\ pc' = "dids" /\ todo' = resolved
    /\ UNCHANGED <<request, pointers, eps, reDid, answer, signed, history>>

----------------------------------------------------------------------------
(* The DIDs of /resolve, the DID of /validate *)

\* The forEach over a HashSet visits the DIDs in any order.
NextDid(d) ==
    /\ pc = "dids" /\ d \in todo
    /\ pc' = "did" /\ todo' = todo \ {d} /\ reDid' = Blank(d, <<>>)
    /\ UNCHANGED <<request, pointers, eps, answer, signed, history>>

ReceiveValidate(d, l) ==
    /\ Receive("validate", l)
    /\ pc' = "did" /\ ptrs' = <<>> /\ eps' = l /\ reDid' = Blank(d, l)

\* resolveDid returns endpoints, which only /resolve uses, and perhaps an origin.
ResolveDid(origin, l) ==
    /\ pc = "did"
    /\ pc' = IF origin THEN "config" ELSE "endpoints"
    /\ \/ /\ op = "resolve" /\ l \in EpLists[reDid.did]
          /\ eps' = l /\ reDid' = [reDid EXCEPT !.offered = l]
       \/ op = "validate" /\ UNCHANGED <<eps, reDid>>
    /\ UNCHANGED <<request, pointers, todo, answer, signed, history>>

\* resolveDidConfig answers for the origin of the DID.
DidConfig(verified) ==
    /\ pc = "config" /\ pc' = "endpoints"
    /\ reDid' = [reDid EXCEPT !.didVerified = verified]
    /\ Confirm(verified, Fact("origin", Nil))
    /\ UNCHANGED <<request, pointers, todo, eps, answer, signed, failures>>

\* Either of them throws.  /resolve notes the error and goes on with the next
\* DID; for /validate RestExceptionHandler answers.
ResolveDidThrows ==
    /\ op = "resolve" /\ pc \in {"did", "config"}
    /\ pc' = "dids" /\ eps' = <<>> /\ reDid' = Nil
    /\ results' = Append(results, [reDid EXCEPT !.error = TRUE])
    /\ UNCHANGED <<request, pointers, todo, status, signed, history>>

ValidateDidThrows(kind) ==
    /\ op = "validate" /\ pc \in {"did", "config"}
    /\ pc' = "idle" /\ eps' = <<>> /\ reDid' = Nil
    /\ status' = StatusOf[kind]
    /\ UNCHANGED <<request, pointers, todo, results, signed, history>>

----------------------------------------------------------------------------
(* The endpoints of a DID, in order *)

\* Mutant: an endpoint that failed is tried again.
EndpointRetried ==
    /\ pc' = "endpoints"
    /\ reDid' = [reDid EXCEPT !.error = (op = "resolve")]
    /\ UNCHANGED <<eps, failures>>

\* Mutant: the item is added before the trust list is looked into.
EndpointThrowsLate ==
    /\ pc' = "endpoints" /\ eps' = Tail(eps)
    /\ reDid' = [reDid EXCEPT !.endpoints =
                    Append(@, [ep |-> Head(eps), vcVerified |-> FALSE])]
    /\ failures' = failures \cup {<<reDid.did, Place>>}

\* The lambda throws.  /resolve notes the error; /validate logs it, and the
\* endpoint is missing from its answer.
EndpointThrows ==
    /\ pc' = "endpoints" /\ eps' = Tail(eps)
    /\ reDid' = [reDid EXCEPT !.error = (op = "resolve")]
    /\ failures' = failures \cup {<<reDid.did, Place>>}

AddItem(verified) ==
    /\ pc' = "endpoints" /\ eps' = Tail(eps)
    /\ reDid' = [reDid EXCEPT !.endpoints =
                    Append(@, [ep |-> Head(eps), vcVerified |-> verified])]
    /\ UNCHANGED failures

\* resolveVC
VcThrows ==
    /\ pc = "endpoints" /\ eps # <<>>
    /\ EndpointThrows
    /\ UNCHANGED <<request, pointers, todo, answer, signed, confirmed>>

\* Mutant: the verdict of an earlier endpoint is kept.
ResolveVcSticky(verified) ==
    /\ pc = "endpoints" /\ eps # <<>>
    /\ pc' = "tl" /\ signed' = (signed \/ verified)
    /\ Confirm(verified, Fact("signature", Head(eps)))
    /\ UNCHANGED <<request, pointers, todo, eps, reDid, answer, failures>>

ResolveVc(verified) ==
    /\ pc = "endpoints" /\ eps # <<>>
    /\ pc' = "tl" /\ signed' = verified
    /\ Confirm(verified, Fact("signature", Head(eps)))
    /\ UNCHANGED <<request, pointers, todo, eps, reDid, answer, failures>>

\* resolveTLHash throws (the VC has no usable hash), or answers with a list
\* findIssuerProvider cannot read, null included.
TlThrows(hashOk) ==
    /\ pc = "tl"
    /\ EndpointThrows
    /\ Confirm(hashOk, Fact("hash", Head(eps)))
    /\ UNCHANGED <<request, pointers, todo, answer, signed>>

\* It returns null: the list could not be had.  /resolve reports the endpoint
\* unverified; /validate tests the wrong variable, and the lambda throws.
TlMissing ==
    /\ pc = "tl"
    /\ \/ op = "resolve" /\ AddItem(FALSE)
       \/ op = "validate" /\ EndpointThrows
    /\ UNCHANGED <<request, pointers, todo, answer, signed, confirmed>>

\* It returns a list, in which findIssuerProvider finds the issuer or does not.
TlAnswers(hashOk) ==
    /\ pc = "tl"
    /\ AddItem(signed /\ hashOk)
    /\ Confirm(hashOk, Fact("hash", Head(eps)))
    /\ UNCHANGED <<request, pointers, todo, answer, signed>>

\* Mutant: the error of one endpoint stays although another was resolved.
EndpointsDoneKeepingError ==
    /\ pc = "endpoints" /\ eps = <<>>
    /\ results' = Append(results, [reDid EXCEPT !.doc = TRUE])
    /\ reDid' = Nil
    /\ \/ op = "resolve" /\ pc' = "dids" /\ UNCHANGED status
       \/ op = "validate" /\ pc' = "idle" /\ status' = 200
    /\ UNCHANGED <<request, pointers, todo, eps, signed, history>>

\* The loop is over: an endpoint that was resolved clears the error.
EndpointsDone ==
    /\ pc = "endpoints" /\ eps = <<>>
    /\ results' = Append(results, [reDid EXCEPT !.doc = TRUE,
                                                !.error = @ /\ reDid.endpoints = <<>>])
    /\ reDid' = Nil
    /\ \/ op = "resolve" /\ pc' = "dids" /\ UNCHANGED status
       \/ op = "validate" /\ pc' = "idle" /\ status' = 200
    /\ UNCHANGED <<request, pointers, todo, eps, signed, history>>

RespondResolve ==
    /\ pc = "dids" /\ todo = {}
    /\ pc' = "idle" /\ status' = 200
    /\ UNCHANGED <<request, pointers, todo, eps, reDid, results, signed, history>>

----------------------------------------------------------------------------
Step ==
    \/ \E ds \in SUBSET Dids : ResolvePointer(ds)
    \/ PointerFails \/ PointersDone
    \/ \E d \in Dids : NextDid(d)
    \/ \E o \in BOOLEAN, l \in AllEpLists : ResolveDid(o, l)
    \/ \E v \in BOOLEAN : DidConfig(v)
    \/ ResolveDidThrows \/ \E k \in DOMAIN StatusOf : ValidateDidThrows(k)
    \/ VcThrows \/ \E v \in BOOLEAN : ResolveVc(v)
    \/ TlMissing \/ \E h \in BOOLEAN : TlThrows(h) \/ TlAnswers(h)
    \/ EndpointsDone \/ RespondResolve

Next == \/ \E l \in PtrLists : ReceiveResolve(l)
        \/ \E d \in Dids : \E l \in EpLists[d] : ReceiveValidate(d, l)
        \/ Step

Spec == Init /\ [][Next]_vars

\* A request thread that has started runs; the calls it makes return or throw.
FairSpec == Spec /\ WF_vars(Step)

----------------------------------------------------------------------------
(* Properties *)

Set(seq) == {seq[i] : i \in 1..Len(seq)}
Confirmed(w, d, e) == [what |-> w, did |-> d, ep |-> e] \in confirmed

\* No verdict of one endpoint or DID reaches the answer for another: vcVerified
\* rests on the signature and the hash of that endpoint under that DID,
\* didVerified on the origin of that DID.
VerifiedIsConfirmed ==
    \A r \in Set(results) :
        /\ r.didVerified => Confirmed("origin", r.did, Nil)
        /\ \A i \in Set(r.endpoints) : i.vcVerified =>
              Confirmed("signature", r.did, i.ep) /\ Confirmed("hash", r.did, i.ep)

\* /resolve is answered 200 whatever fails; the answer has every pointer of the
\* request in its place, and each DID they led to exactly once.
EverythingAnswered ==
    op = "resolve" /\ status # Nil =>
        /\ status = 200
        /\ asked = [i \in 1..Len(rePtrs) |-> rePtrs[i].pointer]
        /\ {r.did : r \in Set(results)} = UNION {p.dids : p \in Set(rePtrs)}
        /\ \A i, j \in 1..Len(results) : results[i].did = results[j].did => i = j

\* An answer about a DID has the endpoints whose processing did not throw, all
\* of them, in the order of the DID document or of the request.
EndpointsAccounted ==
    \A r \in Set(results) : r.doc =>
        \E at \in [1..Len(r.endpoints) -> 1..Len(r.offered)] :
           /\ \A i, j \in DOMAIN at : i < j => at[i] < at[j]
           /\ \A i \in DOMAIN at : r.endpoints[i].ep = r.offered[at[i]]
           /\ \A k \in 1..Len(r.offered) :
                 <<r.did, k>> \notin failures <=> \E i \in DOMAIN at : at[i] = k

\* In a /resolve answer an error stands with no endpoint, and where no endpoint
\* stands although some were offered there is an error.
ErrorMeansNothing ==
    op = "resolve" => \A r \in Set(results) :
        r.error <=> ~r.doc \/ (r.endpoints = <<>> /\ r.offered # <<>>)

\* Every request is answered.
RequestAnswered == pc # "idle" ~> status # Nil
=============================================================================
