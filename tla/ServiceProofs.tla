---------------------------- MODULE ServiceProofs ----------------------------
(***************************************************************************)
(* Proofs about ResolutionService, for any number of pointers, DIDs and    *)
(* endpoints, and whatever the resolvers answer: each verdict rests on     *)
(* what was confirmed of the DID and the endpoint it stands at, and no     *)
(* failure of one call loses or changes the answer for another.            *)
(***************************************************************************)
EXTENDS ResolutionService, SequenceTheorems, TLAPS

USE ListsAssumption, NilAssumption

\* The control states in which a ResolvedDid, or a ValidateResponse, is built.
Building == {"did", "config", "endpoints", "tl"}

\* What the control state says of the other variables.
Control ==
    /\ pc \in Building <=> reDid # Nil
    /\ pc = "tl" => eps # <<>>
    /\ pc \in {"idle", "dids", "pointers"} => eps = <<>>
    /\ op = "validate" => pc \notin {"dids", "pointers"} /\ (pc # "idle" => results = <<>>)
    /\ status # Nil => pc = "idle"

----------------------------------------------------------------------------
(* The endpoints of the DID in work *)

\* How many of them have been visited.
Visited == Place - 1

\* Those that are left are the rest of those that were offered; nothing has been
\* found before the first is visited.
Offered ==
    pc \in Building =>
        /\ ~reDid.doc
        /\ Len(eps) <= Len(reDid.offered)
        /\ \A k \in 1..Len(eps) : eps[k] = reDid.offered[Visited + k]
        /\ pc \in {"did", "config"} =>
              Visited = 0 /\ reDid.endpoints = <<>> /\ ~reDid.error

\* at says where the endpoints of answer r stand among the first n of its offered
\* ones: in order, and at all places that did not throw.
Accounts(at, r, n) ==
    /\ \A i, j \in 1..Len(r.endpoints) : i < j => at[i] < at[j]
    /\ \A i \in 1..Len(r.endpoints) : r.endpoints[i].ep = r.offered[at[i]]
    /\ \A k \in 1..n :
          <<r.did, k>> \notin failures <=> \E i \in 1..Len(r.endpoints) : at[i] = k
Accounted(r, n) == \E at \in [1..Len(r.endpoints) -> 1..n] : Accounts(at, r, n)

\* The DIDs whose answers are complete.
Done == {results[i].did : i \in 1..Len(results)}

EndpointsSoFar ==
    /\ pc \in Building => reDid.did \notin Done /\ Accounted(reDid, Visited)
    /\ \A r \in Set(results) : r.doc => Accounted(r, Len(r.offered))
    /\ \A f \in failures :
          \/ f[1] \in Done
          \/ pc \in Building /\ f[1] = reDid.did /\ f[2] \in 1..Visited

\* An error stands for the endpoints that failed as long as none was resolved.
ErrorsSoFar ==
    op = "resolve" =>
        /\ pc \in {"endpoints", "tl"} /\ reDid.endpoints = <<>> =>
              (reDid.error <=> Visited > 0)
        /\ \A r \in Set(results) :
              r.error <=> ~r.doc \/ (r.endpoints = <<>> /\ r.offered # <<>>)

----------------------------------------------------------------------------
(* Verdicts *)

\* What the answer r says was verified has been confirmed.
Backed(r) ==
    /\ r.didVerified => Confirmed("origin", r.did, Nil)
    /\ \A i \in 1..Len(r.endpoints) : r.endpoints[i].vcVerified =>
          /\ Confirmed("signature", r.did, r.endpoints[i].ep)
          /\ Confirmed("hash", r.did, r.endpoints[i].ep)

VerdictsSoFar ==
    /\ \A i \in 1..Len(results) : Backed(results[i])
    /\ pc \in Building => Backed(reDid)
    /\ pc = "tl" /\ signed => Confirmed("signature", reDid.did, Head(eps))

----------------------------------------------------------------------------
(* Pointers and DIDs of /resolve *)

\* The pointers that were resolved and those that are left are those asked for,
\* in order.
PointersSoFar ==
    op = "resolve" =>
        /\ Len(asked) = Len(rePtrs) + Len(ptrs)
        /\ \A i \in 1..Len(rePtrs) : asked[i] = rePtrs[i].pointer
        /\ \A k \in 1..Len(ptrs) : asked[Len(rePtrs) + k] = ptrs[k]
        /\ resolved = UNION {rePtrs[i].dids : i \in 1..Len(rePtrs)}
        /\ pc # "pointers" => ptrs = <<>>

\* The DIDs they led to are done, in work or to do, and each only one of these.
DidsSoFar ==
    op = "resolve" =>
        /\ \A i, j \in 1..Len(results) : results[i].did = results[j].did => i = j
        /\ pc = "pointers" => results = <<>> /\ todo = {}
        /\ pc \in {"dids", "idle"} => resolved = Done \cup todo
        /\ pc \in Building => resolved = Done \cup todo \cup {reDid.did}
        /\ Done \cap todo = {} /\ (pc \in Building => reDid.did \notin todo)
        /\ status # Nil => status = 200
        /\ pc = "idle" => todo = {}

Inv == /\ TypeOK /\ Control /\ Offered /\ EndpointsSoFar /\ ErrorsSoFar
       /\ VerdictsSoFar /\ PointersSoFar /\ DidsSoFar

----------------------------------------------------------------------------
(* Sequences and records *)

LEMMA TailFacts ==
    ASSUME NEW T, NEW s \in Seq(T), s # <<>>
    PROVE  /\ Tail(s) \in Seq(T) /\ Len(s) \in Nat /\ Len(Tail(s)) = Len(s) - 1
           /\ Head(s) = s[1] /\ s[1] \in T /\ 1 \in 1..Len(s)
           /\ \A k \in 1..Len(Tail(s)) : k + 1 \in 1..Len(s) /\ Tail(s)[k] = s[k + 1]
OBVIOUS

LEMMA AppendFacts ==
    ASSUME NEW T, NEW s \in Seq(T), NEW e \in T
    PROVE  /\ Append(s, e) \in Seq(T) /\ Len(s) \in Nat
           /\ Len(Append(s, e)) = Len(s) + 1
           /\ \A i \in 1..Len(s) : Append(s, e)[i] = s[i]
           /\ Append(s, e)[Len(s) + 1] = e
OBVIOUS

LEMMA EpListsAreSeqs ==
    /\ AllEpLists \subseteq Seq(Endpoints)
    /\ \A d \in Dids : EpLists[d] \subseteq AllEpLists
BY DEF AllEpLists

LEMMA DidFields ==
    ASSUME NEW r \in ResolvedDid
    PROVE  /\ r.did \in Dids /\ r.didVerified \in BOOLEAN /\ r.endpoints \in Seq(Items)
           /\ r.error \in BOOLEAN /\ r.doc \in BOOLEAN
           /\ r.offered \in Seq(Endpoints) /\ Len(r.offered) \in Nat
           /\ r # Nil
<1>1. r.offered \in AllEpLists \cup {<<>>}
      BY DEF ResolvedDid
<1>2. <<>> \in Seq(Endpoints)
      OBVIOUS
<1>3. r.offered \in Seq(Endpoints)
      BY <1>1, <1>2, EpListsAreSeqs
<1>4. Len(r.offered) \in Nat
      BY <1>3
<1> QED
    BY <1>3, <1>4 DEF ResolvedDid

LEMMA BlankDid ==
    ASSUME NEW d \in Dids, NEW l \in AllEpLists \cup {<<>>}
    PROVE  /\ Blank(d, l) \in ResolvedDid /\ Blank(d, l).did = d
           /\ Blank(d, l).didVerified = FALSE /\ Blank(d, l).endpoints = <<>>
           /\ Blank(d, l).error = FALSE /\ Blank(d, l).doc = FALSE
           /\ Blank(d, l).offered = l
<1>1. <<>> \in Seq(Items)
      OBVIOUS
<1> QED
    BY <1>1 DEF Blank, ResolvedDid

\* The steps that change an answer change one or two parts of it.
LEMMA WithOffered ==
    ASSUME NEW r \in ResolvedDid, NEW l \in AllEpLists
    PROVE  [r EXCEPT !.offered = l] \in ResolvedDid
BY DEF ResolvedDid

LEMMA WithVerified ==
    ASSUME NEW r \in ResolvedDid, NEW b \in BOOLEAN
    PROVE  [r EXCEPT !.didVerified = b] \in ResolvedDid
BY DEF ResolvedDid

LEMMA WithError ==
    ASSUME NEW r \in ResolvedDid, NEW b \in BOOLEAN
    PROVE  [r EXCEPT !.error = b] \in ResolvedDid
BY DEF ResolvedDid

LEMMA WithItem ==
    ASSUME NEW r \in ResolvedDid, NEW i \in Items
    PROVE  [r EXCEPT !.endpoints = Append(@, i)] \in ResolvedDid
<1>1. Append(r.endpoints, i) \in Seq(Items)
      BY DidFields
<1> QED
    BY <1>1 DEF ResolvedDid

LEMMA Completed ==
    ASSUME NEW r \in ResolvedDid
    PROVE  [r EXCEPT !.doc = TRUE, !.error = @ /\ r.endpoints = <<>>] \in ResolvedDid
<1>1. (r.error /\ r.endpoints = <<>>) \in BOOLEAN
      OBVIOUS
<1> QED
    BY <1>1 DEF ResolvedDid

----------------------------------------------------------------------------
(* What there is to an endpoint's step, whichever call made it *)

\* Its processing threw.
Thrown ==
    /\ pc \in {"endpoints", "tl"} /\ eps # <<>>
    /\ EndpointThrows
    /\ confirmed \subseteq confirmed' /\ confirmed' \in SUBSET Facts
    /\ UNCHANGED <<request, pointers, todo, answer, signed>>

\* It was added to the answer, verified if both its signature and its hash are.
Added(verified) ==
    /\ pc = "tl" /\ eps # <<>>
    /\ AddItem(verified)
    /\ confirmed \subseteq confirmed' /\ confirmed' \in SUBSET Facts
    /\ verified => signed /\ Fact("hash", Head(eps)) \in confirmed'
    /\ UNCHANGED <<request, pointers, todo, answer, signed>>

LEMMA FactTypes ==
    ASSUME TypeOK, reDid # Nil
    PROVE  /\ Fact("origin", Nil) \in Facts
           /\ eps # <<>> => /\ Fact("hash", Head(eps)) \in Facts
                            /\ Fact("signature", Head(eps)) \in Facts
<1>1. reDid.did \in Dids
      BY DidFields DEF TypeOK
<1>2. eps # <<>> => Head(eps) \in Endpoints
      BY TailFacts DEF TypeOK
<1> QED
    BY <1>1, <1>2 DEF Fact, Facts

LEMMA ConfirmFacts ==
    ASSUME TypeOK, NEW yes \in BOOLEAN, NEW fact \in Facts, Confirm(yes, fact)
    PROVE  /\ confirmed \subseteq confirmed' /\ confirmed' \in SUBSET Facts
           /\ yes => fact \in confirmed'
BY DEF Confirm, TypeOK

\* Every step of an endpoint's processing but ResolveVc is one of the two.
LEMMA EndpointSteps ==
    ASSUME TypeOK, Control,
           \/ VcThrows \/ TlMissing
           \/ \E h \in BOOLEAN : TlThrows(h) \/ TlAnswers(h)
    PROVE  Thrown \/ \E v \in BOOLEAN : Added(v)
<1>1. CASE VcThrows
  <2>1. confirmed' = confirmed /\ confirmed \in SUBSET Facts
        BY <1>1 DEF VcThrows, TypeOK
  <2> QED
      BY <1>1, <2>1 DEF VcThrows, Thrown
<1>2. CASE TlMissing
  <2>1. confirmed' = confirmed /\ confirmed \in SUBSET Facts
        BY <1>2 DEF TlMissing, TypeOK
  <2>2. pc = "tl" /\ eps # <<>>
        BY <1>2 DEF TlMissing, Control
  <2>3. CASE op = "resolve" /\ AddItem(FALSE)
        BY <1>2, <2>1, <2>2, <2>3 DEF TlMissing, Added
  <2>4. CASE op = "validate" /\ EndpointThrows
        BY <1>2, <2>1, <2>2, <2>4 DEF TlMissing, Thrown
  <2> QED
      BY <1>2, <2>3, <2>4 DEF TlMissing
<1>3. ASSUME NEW h \in BOOLEAN, TlThrows(h)
      PROVE  Thrown
  <2>1. pc = "tl" /\ eps # <<>> /\ reDid # Nil
        BY <1>3 DEF TlThrows, Control, Building
  <2>2. confirmed \subseteq confirmed' /\ confirmed' \in SUBSET Facts
        BY <1>3, <2>1, FactTypes, ConfirmFacts DEF TlThrows
  <2> QED
      BY <1>3, <2>1, <2>2 DEF TlThrows, Thrown
<1>4. ASSUME NEW h \in BOOLEAN, TlAnswers(h)
      PROVE  Added(signed /\ h) /\ (signed /\ h) \in BOOLEAN
  <2>1. pc = "tl" /\ eps # <<>> /\ reDid # Nil
        BY <1>4 DEF TlAnswers, Control, Building
  <2>2. /\ confirmed \subseteq confirmed' /\ confirmed' \in SUBSET Facts
        /\ h => Fact("hash", Head(eps)) \in confirmed'
        BY <1>4, <2>1, FactTypes, ConfirmFacts DEF TlAnswers
  <2> QED
      BY <1>4, <2>1, <2>2 DEF TlAnswers, Added
<1> QED
    BY <1>1, <1>2, <1>3, <1>4

\* The steps of Next, those of an endpoint's processing put together.
LEMMA NextSteps ==
    ASSUME TypeOK, Control, [Next]_vars
    PROVE  \/ UNCHANGED vars
           \/ \E l \in PtrLists : ReceiveResolve(l)
           \/ \E d \in Dids : \E l \in EpLists[d] : ReceiveValidate(d, l)
           \/ \E ds \in SUBSET Dids, failed \in BOOLEAN : AddPointer(ds, failed)
           \/ PointersDone
           \/ \E d \in Dids : NextDid(d)
           \/ \E o \in BOOLEAN, l \in AllEpLists : ResolveDid(o, l)
           \/ \E v \in BOOLEAN : DidConfig(v)
           \/ ResolveDidThrows
           \/ \E k \in DOMAIN StatusOf : ValidateDidThrows(k)
           \/ \E v \in BOOLEAN : ResolveVc(v)
           \/ Thrown
           \/ \E v \in BOOLEAN : Added(v)
           \/ EndpointsDone
           \/ RespondResolve
<1>1. (\E ds \in SUBSET Dids : ResolvePointer(ds)) \/ PointerFails =>
          \E ds \in SUBSET Dids, failed \in BOOLEAN : AddPointer(ds, failed)
      BY DEF ResolvePointer, PointerFails
<1> QED
    BY <1>1, EndpointSteps DEF Next, Step

LEMMA TypeInit == Init => TypeOK /\ Control /\ Offered
<1> SUFFICES ASSUME Init
             PROVE  TypeOK /\ Control /\ Offered
    OBVIOUS
<1>1. Control /\ Offered
      BY DEF Init, Control, Offered, Building
<1>2. /\ ptrs \in Seq(Pointers) /\ rePtrs \in Seq(ResolvedPointer)
      /\ eps \in Seq(Endpoints) /\ results \in Seq(ResolvedDid)
      BY DEF Init
<1> QED
    BY <1>1, <1>2 DEF Init, TypeOK

LEMMA OfferedPlace ==
    ASSUME TypeOK, Control, Offered, pc \in Building
    PROVE  /\ reDid \in ResolvedDid
           /\ Len(eps) \in Nat /\ Len(reDid.offered) \in Nat
           /\ Visited \in Nat /\ Place \in Nat /\ Place = Visited + 1
           /\ Visited = Len(reDid.offered) - Len(eps)
           /\ eps # <<>> => Place \in 1..Len(reDid.offered) /\ Head(eps) = reDid.offered[Place]
<1>1. reDid \in ResolvedDid /\ eps \in Seq(Endpoints)
      BY DEF TypeOK, Control
<1>2. Len(eps) \in Nat /\ Len(reDid.offered) \in Nat
      BY <1>1, DidFields
<1>3. Len(eps) <= Len(reDid.offered)
      BY DEF Offered
<1>4. CASE eps # <<>>
  <2>1. Head(eps) = eps[1] /\ 1 \in 1..Len(eps)
        BY <1>1, <1>4, TailFacts
  <2>2. eps[1] = reDid.offered[Visited + 1]
        BY <2>1 DEF Offered
  <2> QED
      BY <1>1, <1>2, <1>3, <2>1, <2>2 DEF Place, Visited
<1> QED
    BY <1>1, <1>2, <1>3, <1>4 DEF Place, Visited

LEMMA TypeStep ==
    ASSUME TypeOK, Control, Offered, [Next]_vars
    PROVE  TypeOK' /\ Control'
<1> USE DEF TypeOK, Control, request, pointers, answer, history, Building
<1>1. CASE UNCHANGED vars
      BY <1>1 DEF vars
<1>2. ASSUME NEW l \in PtrLists, ReceiveResolve(l)
      PROVE  TypeOK' /\ Control'
  <2>1. l \in Seq(Pointers) /\ rePtrs' \in Seq(ResolvedPointer)
        /\ eps' \in Seq(Endpoints) /\ results' \in Seq(ResolvedDid)
        BY <1>2 DEF ReceiveResolve, Receive
  <2> QED
      BY <1>2, <2>1 DEF ReceiveResolve, Receive
<1>3. ASSUME NEW d \in Dids, NEW l \in EpLists[d], ReceiveValidate(d, l)
      PROVE  TypeOK' /\ Control'
  <2>1. l \in Seq(Endpoints) /\ l \in AllEpLists
        BY EpListsAreSeqs
  <2>2. Blank(d, l) \in ResolvedDid /\ Blank(d, l) # Nil
        BY <2>1, BlankDid, DidFields
  <2>3. rePtrs' \in Seq(ResolvedPointer) /\ ptrs' \in Seq(Pointers)
        /\ results' \in Seq(ResolvedDid)
        BY <1>3 DEF ReceiveValidate, Receive
  <2> QED
      BY <1>3, <2>1, <2>2, <2>3 DEF ReceiveValidate, Receive
<1>4. ASSUME NEW ds \in SUBSET Dids, NEW failed \in BOOLEAN, AddPointer(ds, failed)
      PROVE  TypeOK' /\ Control'
  <2>1. Tail(ptrs) \in Seq(Pointers) /\ Head(ptrs) \in Pointers
        BY <1>4, TailFacts DEF AddPointer
  <2>2. [pointer |-> Head(ptrs), dids |-> ds, error |-> failed] \in ResolvedPointer
        BY <2>1 DEF ResolvedPointer
  <2>3. rePtrs' \in Seq(ResolvedPointer)
        BY <1>4, <2>2, AppendFacts DEF AddPointer
  <2> QED
      BY <1>4, <2>1, <2>3 DEF AddPointer
<1>5. CASE PointersDone
      BY <1>5 DEF PointersDone
<1>6. ASSUME NEW d \in Dids, NextDid(d)
      PROVE  TypeOK' /\ Control'
  <2>1. Blank(d, <<>>) \in ResolvedDid /\ Blank(d, <<>>) # Nil
        BY BlankDid, DidFields
  <2> QED
      BY <1>6, <2>1 DEF NextDid
<1>7. ASSUME NEW o \in BOOLEAN, NEW l \in AllEpLists, ResolveDid(o, l)
      PROVE  TypeOK' /\ Control'
  <2>1. reDid \in ResolvedDid
        BY <1>7 DEF ResolveDid
  <2>2. [reDid EXCEPT !.offered = l] \in ResolvedDid
        BY <2>1, WithOffered
  <2>3. l \in Seq(Endpoints)
        BY EpListsAreSeqs
  <2>4. \/ eps' = l /\ reDid' = [reDid EXCEPT !.offered = l]
        \/ eps' = eps /\ reDid' = reDid
        BY <1>7 DEF ResolveDid
  <2>5. eps' \in Seq(Endpoints) /\ reDid' \in ResolvedDid
    <3>1. eps' \in Seq(Endpoints)
          BY <2>3, <2>4
    <3>2. reDid' \in ResolvedDid
          BY <2>1, <2>2, <2>4
    <3> QED
        BY <3>1, <3>2
  <2>6. reDid' # Nil
        BY <2>5, DidFields
  <2> QED
      BY <1>7, <2>5, <2>6 DEF ResolveDid
<1>8. ASSUME NEW v \in BOOLEAN, DidConfig(v)
      PROVE  TypeOK' /\ Control'
  <2>1. reDid \in ResolvedDid /\ reDid # Nil
        BY <1>8 DEF DidConfig
  <2>2. reDid' \in ResolvedDid
        BY <1>8, <2>1, WithVerified DEF DidConfig
  <2>3. reDid' # Nil
        BY <2>2, DidFields
  <2>4. confirmed' \in SUBSET Facts
        BY <1>8, <2>1, FactTypes, ConfirmFacts DEF DidConfig
  <2> QED
      BY <1>8, <2>2, <2>3, <2>4 DEF DidConfig
<1>9. CASE ResolveDidThrows
  <2>1. reDid \in ResolvedDid
        BY <1>9 DEF ResolveDidThrows
  <2>2. [reDid EXCEPT !.error = TRUE] \in ResolvedDid
        BY <2>1, WithError
  <2>3. results' \in Seq(ResolvedDid) /\ eps' \in Seq(Endpoints)
        BY <1>9, <2>2, AppendFacts DEF ResolveDidThrows
  <2> QED
      BY <1>9, <2>3 DEF ResolveDidThrows
<1>10. ASSUME NEW k \in DOMAIN StatusOf, ValidateDidThrows(k)
       PROVE  TypeOK' /\ Control'
  <2>1. StatusOf[k] \in {500, 510} /\ eps' \in Seq(Endpoints)
        BY <1>10 DEF StatusOf, ValidateDidThrows
  <2> QED
      BY <1>10, <2>1 DEF ValidateDidThrows
<1>11. ASSUME NEW v \in BOOLEAN, ResolveVc(v)
       PROVE  TypeOK' /\ Control'
  <2>1. reDid # Nil /\ eps # <<>>
        BY <1>11 DEF ResolveVc
  <2>2. confirmed' \in SUBSET Facts
        BY <1>11, <2>1, FactTypes, ConfirmFacts DEF ResolveVc
  <2> QED
      BY <1>11, <2>1, <2>2 DEF ResolveVc
<1>12. CASE Thrown
  <2>1. reDid \in ResolvedDid /\ reDid.did \in Dids
        BY <1>12, DidFields DEF Thrown
  <2>2. (op = "resolve") \in BOOLEAN
        OBVIOUS
  <2>3. reDid' \in ResolvedDid
        BY <1>12, <2>1, <2>2, WithError DEF Thrown, EndpointThrows
  <2>4. reDid' # Nil
        BY <2>3, DidFields
  <2>5. Tail(eps) \in Seq(Endpoints)
        BY <1>12, TailFacts DEF Thrown
  <2>6. Place \in Nat
        BY <1>12, OfferedPlace DEF Thrown
  <2>7. failures' \in SUBSET (Dids \X Nat)
        BY <1>12, <2>1, <2>6 DEF Thrown, EndpointThrows
  <2> QED
      BY <1>12, <2>3, <2>4, <2>5, <2>7 DEF Thrown, EndpointThrows
<1>13. ASSUME NEW v \in BOOLEAN, Added(v)
       PROVE  TypeOK' /\ Control'
  <2>1. reDid \in ResolvedDid /\ reDid.endpoints \in Seq(Items)
        BY <1>13, DidFields DEF Added
  <2>2. Tail(eps) \in Seq(Endpoints) /\ Head(eps) \in Endpoints
        BY <1>13, TailFacts DEF Added
  <2>3. [ep |-> Head(eps), vcVerified |-> v] \in Items
        BY <2>2 DEF Items
  <2>4. reDid' \in ResolvedDid
        BY <1>13, <2>1, <2>3, WithItem DEF Added, AddItem
  <2>5. reDid' # Nil
        BY <2>4, DidFields
  <2>6. /\ pc = "tl" /\ pc' = "endpoints" /\ eps' = Tail(eps) /\ op' = op /\ asked' = asked
        /\ ptrs' = ptrs /\ rePtrs' = rePtrs /\ resolved' = resolved /\ todo' = todo
        /\ results' = results /\ signed' = signed /\ status' = status
        /\ confirmed' \in SUBSET Facts /\ failures' = failures
        BY <1>13 DEF Added, AddItem
  <2>7. TypeOK'
        BY <2>2, <2>4, <2>6
  <2>8. Control'
        BY <2>5, <2>6
  <2> QED
      BY <2>7, <2>8
<1>14. CASE EndpointsDone
  <2>1. reDid \in ResolvedDid /\ reDid.error \in BOOLEAN
        BY <1>14, DidFields DEF EndpointsDone
  <2>2. results' \in Seq(ResolvedDid)
    <3>1. [reDid EXCEPT !.doc = TRUE, !.error = @ /\ reDid.endpoints = <<>>] \in ResolvedDid
          BY <2>1, Completed
    <3>2. results \in Seq(ResolvedDid)
          OBVIOUS
    <3> QED
        BY <1>14, <3>1, <3>2, AppendFacts DEF EndpointsDone
  <2>3. /\ pc = "endpoints" /\ eps = <<>> /\ reDid' = Nil /\ op' = op /\ asked' = asked
        /\ ptrs' = ptrs /\ rePtrs' = rePtrs /\ resolved' = resolved /\ todo' = todo
        /\ eps' = eps /\ signed' = signed /\ confirmed' = confirmed /\ failures' = failures
        /\ \/ op = "resolve" /\ pc' = "dids" /\ status' = status
           \/ op = "validate" /\ pc' = "idle" /\ status' = 200
        BY <1>14 DEF EndpointsDone
  <2>4. TypeOK'
        BY <2>2, <2>3
  <2>5. Control'
        BY <2>3
  <2> QED
      BY <2>4, <2>5
<1>15. CASE RespondResolve
      BY <1>15 DEF RespondResolve
<1> HIDE DEF TypeOK, Control
<1> QED
    BY ONLY TypeOK, Control, [Next]_vars, NextSteps, <1>1, <1>2, <1>3, <1>4, <1>5, <1>6, <1>7, <1>8, <1>9, <1>10,
       <1>11, <1>12, <1>13, <1>14, <1>15

LEMMA OfferedStep ==
    ASSUME TypeOK, Control, Offered, [Next]_vars
    PROVE  Offered'
<1> USE DEF request, pointers, answer, history, Building
<1>1. CASE UNCHANGED vars
      BY <1>1 DEF vars, Offered, Visited, Place
<1>2. ASSUME NEW l \in PtrLists, ReceiveResolve(l)
      PROVE  Offered'
      BY <1>2 DEF ReceiveResolve, Offered
<1>3. ASSUME NEW d \in Dids, NEW l \in EpLists[d], ReceiveValidate(d, l)
      PROVE  Offered'
  <2>1. l \in Seq(Endpoints) /\ l \in AllEpLists
        BY EpListsAreSeqs
  <2>2. /\ Blank(d, l).offered = l /\ Blank(d, l).endpoints = <<>>
        /\ Blank(d, l).doc = FALSE /\ Blank(d, l).error = FALSE
        BY DEF Blank
  <2>3. reDid' = Blank(d, l) /\ eps' = l /\ Len(l) \in Nat
        BY <1>3, <2>1 DEF ReceiveValidate
  <2>4. Visited' = 0
        BY <2>2, <2>3 DEF Visited, Place
  <2> QED
      BY <2>2, <2>3, <2>4 DEF Offered
<1>4. ASSUME NEW ds \in SUBSET Dids, NEW failed \in BOOLEAN, AddPointer(ds, failed)
      PROVE  Offered'
      BY <1>4 DEF AddPointer, Offered
<1>5. CASE PointersDone
      BY <1>5 DEF PointersDone, Offered
<1>6. ASSUME NEW d \in Dids, NextDid(d)
      PROVE  Offered'
  <2>1. /\ Blank(d, <<>>).offered = <<>> /\ Blank(d, <<>>).endpoints = <<>>
        /\ Blank(d, <<>>).doc = FALSE /\ Blank(d, <<>>).error = FALSE
        BY DEF Blank
  <2>2. reDid' = Blank(d, <<>>) /\ eps' = <<>>
        BY <1>6 DEF NextDid, Control
  <2>3. Visited' = 0 /\ Len(eps') = 0
        BY <2>1, <2>2 DEF Visited, Place
  <2> QED
      BY <2>1, <2>2, <2>3 DEF Offered
<1>7. ASSUME NEW o \in BOOLEAN, NEW l \in AllEpLists, ResolveDid(o, l)
      PROVE  Offered'
  <2>1. CASE op = "validate" /\ UNCHANGED <<eps, reDid>>
        BY <1>7, <2>1 DEF ResolveDid, Offered, Visited, Place
  <2>2. CASE eps' = l /\ reDid' = [reDid EXCEPT !.offered = l]
    <3>1. reDid \in ResolvedDid /\ Len(l) \in Nat
          BY <1>7, EpListsAreSeqs DEF ResolveDid, Control, TypeOK
    <3>2. /\ reDid'.offered = l /\ reDid'.doc = reDid.doc
          /\ reDid'.endpoints = reDid.endpoints /\ reDid'.error = reDid.error
          BY <2>2, <3>1 DEF ResolvedDid
    <3>3. Visited' = 0
          BY <2>2, <3>1, <3>2 DEF Visited, Place
    <3> QED
        BY <1>7, <2>2, <3>1, <3>2, <3>3 DEF ResolveDid, Offered
  <2> QED
      BY <1>7, <2>1, <2>2 DEF ResolveDid
<1>8. ASSUME NEW v \in BOOLEAN, DidConfig(v)
      PROVE  Offered'
  <2>1. reDid \in ResolvedDid
        BY <1>8 DEF DidConfig, Control, TypeOK
  <2>2. /\ reDid'.offered = reDid.offered /\ reDid'.doc = reDid.doc
        /\ reDid'.endpoints = reDid.endpoints /\ reDid'.error = reDid.error
        BY <1>8, <2>1 DEF DidConfig, ResolvedDid
  <2>3. Visited' = Visited /\ eps' = eps
        BY <1>8, <2>2 DEF DidConfig, Visited, Place
  <2> QED
      BY <1>8, <2>2, <2>3 DEF DidConfig, Offered
<1>9. CASE ResolveDidThrows
      BY <1>9 DEF ResolveDidThrows, Offered
<1>10. ASSUME NEW k \in DOMAIN StatusOf, ValidateDidThrows(k)
       PROVE  Offered'
       BY <1>10 DEF ValidateDidThrows, Offered
<1>11. ASSUME NEW v \in BOOLEAN, ResolveVc(v)
       PROVE  Offered'
       BY <1>11 DEF ResolveVc, Offered, Visited, Place
<1>12. ASSUME pc \in {"endpoints", "tl"}, eps # <<>>, eps' = Tail(eps), reDid' # Nil,
              reDid'.offered = reDid.offered, reDid'.doc = reDid.doc, pc' = "endpoints"
       PROVE  Offered'
  <2>1. /\ Len(eps) \in Nat /\ Len(reDid.offered) \in Nat /\ Visited \in Nat
        /\ Visited = Len(reDid.offered) - Len(eps)
        BY <1>12, OfferedPlace
  <2>2. /\ Len(eps') = Len(eps) - 1
        /\ \A k \in 1..Len(eps') : k + 1 \in 1..Len(eps) /\ eps'[k] = eps[k + 1]
        BY <1>12, TailFacts DEF TypeOK
  <2>3. Visited' = Visited + 1
        BY <1>12, <2>1, <2>2 DEF Visited, Place
  <2>4. ASSUME NEW k \in 1..Len(eps')
        PROVE  eps'[k] = reDid'.offered[Visited' + k]
    <3>1. eps'[k] = reDid.offered[Visited + (k + 1)]
          BY <1>12, <2>2 DEF Offered
    <3>2. k \in Nat
          BY <2>1, <2>2
    <3>3. \A x, y \in Nat : x + (y + 1) = (x + 1) + y
          OBVIOUS
    <3>4. Visited + (k + 1) = (Visited + 1) + k
          BY ONLY <2>1, <3>2, <3>3
    <3> QED
        BY <1>12, <2>3, <3>1, <3>4
  <2> QED
      BY <1>12, <2>1, <2>2, <2>4 DEF Offered
<1>13. CASE Thrown
  <2>1. reDid \in ResolvedDid
        BY <1>13, OfferedPlace DEF Thrown
  <2>2. reDid'.offered = reDid.offered /\ reDid'.doc = reDid.doc
        BY <1>13, <2>1 DEF Thrown, EndpointThrows, ResolvedDid
  <2>3. reDid' # Nil
        BY <1>13, TypeStep DEF Control, Thrown, EndpointThrows
  <2> QED
      BY <1>12, <1>13, <2>2, <2>3 DEF Thrown, EndpointThrows
<1>14. ASSUME NEW v \in BOOLEAN, Added(v)
       PROVE  Offered'
  <2>1. reDid \in ResolvedDid
        BY <1>14, OfferedPlace DEF Added
  <2>2. reDid'.offered = reDid.offered /\ reDid'.doc = reDid.doc
        BY <1>14, <2>1 DEF Added, AddItem, ResolvedDid
  <2>3. reDid' # Nil
        BY <1>14, TypeStep DEF Control, Added, AddItem
  <2> QED
      BY <1>12, <1>14, <2>2, <2>3 DEF Added, AddItem
<1>15. CASE EndpointsDone
       BY <1>15 DEF EndpointsDone, Offered
<1>16. CASE RespondResolve
       BY <1>16 DEF RespondResolve, Offered
<1> QED
    BY ONLY TypeOK, Control, [Next]_vars, NextSteps, <1>1, <1>2, <1>3, <1>4, <1>5, <1>6,
       <1>7, <1>8, <1>9, <1>10, <1>11, <1>13, <1>14, <1>15, <1>16

----------------------------------------------------------------------------
(* What each step makes of the answer in work, and of those that are complete *)

LEMMA ResolveDidFields ==
    ASSUME TypeOK, Control, NEW o \in BOOLEAN, NEW l \in AllEpLists, ResolveDid(o, l)
    PROVE  /\ reDid'.did = reDid.did /\ reDid'.didVerified = reDid.didVerified
           /\ reDid'.endpoints = reDid.endpoints /\ reDid'.error = reDid.error
<1>1. reDid \in ResolvedDid
      BY DEF ResolveDid, TypeOK, Control, Building
<1>2. reDid' = reDid \/ reDid' = [reDid EXCEPT !.offered = l]
      BY DEF ResolveDid
<1> QED
    BY <1>1, <1>2 DEF ResolvedDid

LEMMA DidConfigFields ==
    ASSUME TypeOK, Control, NEW v \in BOOLEAN, DidConfig(v)
    PROVE  /\ reDid'.did = reDid.did /\ reDid'.didVerified = v
           /\ reDid'.endpoints = reDid.endpoints /\ reDid'.error = reDid.error
           /\ reDid'.offered = reDid.offered /\ eps' = eps
           /\ confirmed \subseteq confirmed' /\ (v => Fact("origin", Nil) \in confirmed')
<1>1. reDid \in ResolvedDid /\ reDid # Nil
      BY DEF DidConfig, TypeOK, Control, Building
<1>2. confirmed \subseteq confirmed' /\ (v => Fact("origin", Nil) \in confirmed')
      BY <1>1, FactTypes, ConfirmFacts DEF DidConfig
<1> QED
    BY <1>1, <1>2 DEF DidConfig, ResolvedDid

LEMMA ResolveVcFields ==
    ASSUME TypeOK, Control, NEW v \in BOOLEAN, ResolveVc(v)
    PROVE  /\ confirmed \subseteq confirmed'
           /\ v => Fact("signature", Head(eps)) \in confirmed'
<1>1. reDid # Nil /\ eps # <<>>
      BY DEF ResolveVc, Control, Building
<1> QED
    BY <1>1, FactTypes, ConfirmFacts DEF ResolveVc

LEMMA ThrownFields ==
    ASSUME TypeOK, Control, Offered, Thrown
    PROVE  /\ reDid'.did = reDid.did /\ reDid'.didVerified = reDid.didVerified
           /\ reDid'.endpoints = reDid.endpoints /\ reDid'.offered = reDid.offered
           /\ reDid'.error <=> op = "resolve"
           /\ Visited' = Visited + 1 /\ Place = Visited + 1 /\ Visited \in Nat
<1>1. /\ reDid \in ResolvedDid /\ Place = Visited + 1 /\ Visited \in Nat
      /\ Visited = Len(reDid.offered) - Len(eps)
      /\ Len(eps) \in Nat /\ Len(reDid.offered) \in Nat
      BY OfferedPlace DEF Thrown, Building
<1>2. /\ reDid'.did = reDid.did /\ reDid'.didVerified = reDid.didVerified
      /\ reDid'.endpoints = reDid.endpoints /\ reDid'.offered = reDid.offered
      /\ reDid'.error = (op = "resolve")
      BY <1>1 DEF Thrown, EndpointThrows, ResolvedDid
<1>3. Len(eps') = Len(eps) - 1
      BY TailFacts DEF Thrown, EndpointThrows, TypeOK
<1>4. Visited' = Visited + 1
      BY <1>1, <1>2, <1>3 DEF Visited, Place
<1> QED
    BY <1>1, <1>2, <1>4

LEMMA AddedFields ==
    ASSUME TypeOK, Control, Offered, NEW v \in BOOLEAN, Added(v)
    PROVE  /\ reDid'.did = reDid.did /\ reDid'.didVerified = reDid.didVerified
           /\ reDid'.error = reDid.error /\ reDid'.offered = reDid.offered
           /\ Len(reDid.endpoints) \in Nat
           /\ Len(reDid'.endpoints) = Len(reDid.endpoints) + 1
           /\ \A i \in 1..Len(reDid.endpoints) : reDid'.endpoints[i] = reDid.endpoints[i]
           /\ reDid'.endpoints[Len(reDid.endpoints) + 1].ep = Head(eps)
           /\ reDid'.endpoints[Len(reDid.endpoints) + 1].vcVerified = v
           /\ Visited' = Visited + 1 /\ Place = Visited + 1 /\ Visited \in Nat
           /\ Head(eps) = reDid.offered[Place] /\ Place \in 1..Len(reDid.offered)
<1>1. /\ reDid \in ResolvedDid /\ Place = Visited + 1 /\ Visited \in Nat
      /\ Visited = Len(reDid.offered) - Len(eps)
      /\ Len(eps) \in Nat /\ Len(reDid.offered) \in Nat
      /\ Head(eps) = reDid.offered[Place] /\ Place \in 1..Len(reDid.offered)
      BY OfferedPlace DEF Added, Building
<1> DEFINE item == [ep |-> Head(eps), vcVerified |-> v]
<1>2. reDid' = [reDid EXCEPT !.endpoints = Append(@, item)]
      BY DEF Added, AddItem
<1>3. item.ep = Head(eps) /\ item.vcVerified = v /\ item \in Items
  <2>1. Head(eps) \in Endpoints
        BY TailFacts DEF Added, TypeOK
  <2> QED
      BY <2>1 DEF Items
<1> HIDE DEF item
<1>4. /\ reDid'.did = reDid.did /\ reDid'.didVerified = reDid.didVerified
      /\ reDid'.error = reDid.error /\ reDid'.offered = reDid.offered
      /\ reDid'.endpoints = Append(reDid.endpoints, item)
      BY <1>1, <1>2 DEF ResolvedDid
<1>5. reDid.endpoints \in Seq(Items)
      BY <1>1 DEF ResolvedDid
<1>6. /\ Len(reDid.endpoints) \in Nat
      /\ Len(reDid'.endpoints) = Len(reDid.endpoints) + 1
      /\ \A i \in 1..Len(reDid.endpoints) : reDid'.endpoints[i] = reDid.endpoints[i]
      /\ reDid'.endpoints[Len(reDid.endpoints) + 1] = item
      BY <1>3, <1>4, <1>5, AppendFacts
<1>7. Len(eps') = Len(eps) - 1
      BY TailFacts DEF Added, AddItem, TypeOK
<1>8. Visited' = Visited + 1
      BY <1>1, <1>4, <1>7 DEF Visited, Place
<1> QED
    BY <1>1, <1>3, <1>4, <1>6, <1>8

\* The answer that a step completes.
Completes == results'[Len(results) + 1]

Grown ==
    /\ Len(results) \in Nat /\ Len(results') = Len(results) + 1
    /\ \A i \in 1..Len(results) : results'[i] = results[i]
    /\ Completes.did = reDid.did /\ Completes.didVerified = reDid.didVerified
    /\ Completes.endpoints = reDid.endpoints /\ Completes.offered = reDid.offered

LEMMA GrownSet ==
    ASSUME Grown
    PROVE  /\ Set(results') = Set(results) \cup {Completes}
           /\ Done' = Done \cup {reDid.did}
<1>1. \A i \in 1..Len(results') : i \in 1..Len(results) \/ i = Len(results) + 1
      BY DEF Grown
<1>2. Len(results) + 1 \in 1..Len(results') /\ 1..Len(results) \subseteq 1..Len(results')
      BY DEF Grown
<1>3. Set(results') = Set(results) \cup {Completes}
      BY <1>1, <1>2 DEF Set, Grown, Completes
<1>4. Done' = Done \cup {reDid.did}
      BY <1>1, <1>2 DEF Done, Grown, Completes
<1> QED
    BY <1>3, <1>4

LEMMA DidThrowsGrows ==
    ASSUME TypeOK, Control, Offered, ResolveDidThrows
    PROVE  Grown /\ Completes.error /\ ~Completes.doc
<1> DEFINE x == [reDid EXCEPT !.error = TRUE]
<1>1. reDid \in ResolvedDid /\ ~reDid.doc
      BY DEF ResolveDidThrows, TypeOK, Control, Offered, Building
<1>2. /\ x \in ResolvedDid /\ x.error = TRUE /\ ~x.doc
      /\ x.did = reDid.did /\ x.didVerified = reDid.didVerified
      /\ x.endpoints = reDid.endpoints /\ x.offered = reDid.offered
      BY <1>1 DEF ResolvedDid
<1>3. results' = Append(results, x) /\ results \in Seq(ResolvedDid)
      BY DEF ResolveDidThrows, TypeOK
<1> HIDE DEF x
<1>4. /\ Len(results) \in Nat /\ Len(results') = Len(results) + 1
      /\ \A i \in 1..Len(results) : results'[i] = results[i]
      /\ Completes = x
      BY <1>2, <1>3, AppendFacts DEF Completes
<1> QED
    BY <1>2, <1>4 DEF Grown

LEMMA DoneGrows ==
    ASSUME TypeOK, Control, Offered, EndpointsDone
    PROVE  /\ Grown /\ Completes.doc /\ Visited = Len(reDid.offered)
           /\ Completes.error <=> reDid.error /\ reDid.endpoints = <<>>
<1> DEFINE x == [reDid EXCEPT !.doc = TRUE, !.error = @ /\ reDid.endpoints = <<>>]
<1>1. reDid \in ResolvedDid
      BY DEF EndpointsDone, TypeOK, Control, Building
<1>2. /\ x \in ResolvedDid /\ x.doc = TRUE
      /\ x.error = (reDid.error /\ reDid.endpoints = <<>>)
      /\ x.did = reDid.did /\ x.didVerified = reDid.didVerified
      /\ x.endpoints = reDid.endpoints /\ x.offered = reDid.offered
      BY <1>1, Completed DEF ResolvedDid
<1>3. results' = Append(results, x) /\ results \in Seq(ResolvedDid)
      BY DEF EndpointsDone, TypeOK
<1>4. Visited = Len(reDid.offered)
  <2>1. Len(eps) = 0 /\ Visited = Len(reDid.offered) - Len(eps) /\ Len(reDid.offered) \in Nat
        BY OfferedPlace DEF EndpointsDone, Building
  <2> QED
      BY <2>1
<1> HIDE DEF x
<1>5. /\ Len(results) \in Nat /\ Len(results') = Len(results) + 1
      /\ \A i \in 1..Len(results) : results'[i] = results[i]
      /\ Completes = x
      BY <1>2, <1>3, AppendFacts DEF Completes
<1> QED
    BY <1>2, <1>4, <1>5 DEF Grown

----------------------------------------------------------------------------
LEMMA ErrorsStep ==
    ASSUME TypeOK, Control, Offered, ErrorsSoFar, [Next]_vars
    PROVE  ErrorsSoFar'
<1> USE DEF request, pointers, answer, history, ErrorsSoFar
<1>1. CASE UNCHANGED vars
      BY <1>1 DEF vars, Visited, Place
<1>2. ASSUME NEW l \in PtrLists, ReceiveResolve(l)
      PROVE  ErrorsSoFar'
      BY <1>2 DEF ReceiveResolve, Receive, Set
<1>3. ASSUME NEW d \in Dids, NEW l \in EpLists[d], ReceiveValidate(d, l)
      PROVE  ErrorsSoFar'
      BY <1>3 DEF ReceiveValidate, Receive
<1>4. ASSUME NEW ds \in SUBSET Dids, NEW failed \in BOOLEAN, AddPointer(ds, failed)
      PROVE  ErrorsSoFar'
      BY <1>4 DEF AddPointer
<1>5. CASE PointersDone
      BY <1>5 DEF PointersDone
<1>6. ASSUME NEW d \in Dids, NextDid(d)
      PROVE  ErrorsSoFar'
      BY <1>6 DEF NextDid
<1>7. ASSUME NEW o \in BOOLEAN, NEW l \in AllEpLists, ResolveDid(o, l)
      PROVE  ErrorsSoFar'
  <2>1. op' = op /\ results' = results
        BY <1>7 DEF ResolveDid
  <2>2. ASSUME op = "resolve"
        PROVE  ~reDid'.error /\ ~(Visited' > 0)
    <3>1. reDid' = [reDid EXCEPT !.offered = l] /\ eps' = l /\ reDid \in ResolvedDid
          BY <1>7, <2>2 DEF ResolveDid, TypeOK, Control, Building
    <3>2. Len(l) \in Nat /\ reDid'.offered = l
          BY <3>1, EpListsAreSeqs DEF ResolvedDid
    <3>3. Visited' = 0
          BY <3>1, <3>2 DEF Visited, Place
    <3>4. ~reDid'.error
          BY <1>7, ResolveDidFields DEF Offered, ResolveDid, Building
    <3> QED
        BY <3>3, <3>4
  <2> QED
      BY <2>1, <2>2
<1>8. ASSUME NEW v \in BOOLEAN, DidConfig(v)
      PROVE  ErrorsSoFar'
  <2>1. op' = op /\ results' = results /\ pc = "config"
        BY <1>8 DEF DidConfig
  <2>2. ~reDid'.error /\ Visited' = 0
        BY <1>8, <2>1, DidConfigFields DEF Offered, Building, Visited, Place
  <2> QED
      BY <2>1, <2>2
<1>9. CASE ResolveDidThrows
  <2>1. op' = op /\ pc' = "dids"
        BY <1>9 DEF ResolveDidThrows
  <2>2. Set(results') = Set(results) \cup {Completes} /\ Completes.error /\ ~Completes.doc
        BY <1>9, DidThrowsGrows, GrownSet
  <2> QED
      BY <2>1, <2>2
<1>10. ASSUME NEW k \in DOMAIN StatusOf, ValidateDidThrows(k)
       PROVE  ErrorsSoFar'
       BY <1>10 DEF ValidateDidThrows
<1>11. ASSUME NEW v \in BOOLEAN, ResolveVc(v)
       PROVE  ErrorsSoFar'
       BY <1>11 DEF ResolveVc, Visited, Place
<1>12. CASE Thrown
  <2>1. op' = op /\ results' = results
        BY <1>12 DEF Thrown
  <2>2. /\ reDid'.error <=> op = "resolve"
        /\ Visited' > 0
        BY <1>12, ThrownFields
  <2> QED
      BY <2>1, <2>2
<1>13. ASSUME NEW v \in BOOLEAN, Added(v)
       PROVE  ErrorsSoFar'
  <2>1. op' = op /\ results' = results
        BY <1>13 DEF Added
  <2>2. Len(reDid'.endpoints) > 0
        BY <1>13, AddedFields
  <2>3. reDid'.endpoints # <<>>
        BY <2>2
  <2> QED
      BY <2>1, <2>3
<1>14. CASE EndpointsDone
  <2>1. op' = op /\ pc' \notin {"endpoints", "tl"} /\ pc = "endpoints"
        BY <1>14 DEF EndpointsDone
  <2>2. /\ Set(results') = Set(results) \cup {Completes}
        /\ Completes.doc /\ Completes.endpoints = reDid.endpoints
        /\ Completes.offered = reDid.offered /\ Visited = Len(reDid.offered)
        /\ Completes.error <=> reDid.error /\ reDid.endpoints = <<>>
        BY <1>14, DoneGrows, GrownSet DEF Grown
  <2>3. reDid.offered # <<>> <=> Visited > 0
    <3>1. reDid.offered \in Seq(Endpoints)
          BY <2>1, OfferedPlace, DidFields DEF Building
    <3> QED
        BY <2>2, <3>1
  <2> QED
      BY <2>1, <2>2, <2>3
<1>15. CASE RespondResolve
       BY <1>15 DEF RespondResolve
<1> HIDE DEF ErrorsSoFar
<1> QED
    BY ONLY TypeOK, Control, [Next]_vars, NextSteps, <1>1, <1>2, <1>3, <1>4, <1>5, <1>6,
       <1>7, <1>8, <1>9, <1>10, <1>11, <1>12, <1>13, <1>14, <1>15

----------------------------------------------------------------------------
\* An answer that says no more than one before it is as well backed: what is
\* confirmed stays confirmed to the end of the request.
LEMMA ResultsStayBacked ==
    ASSUME VerdictsSoFar, confirmed \subseteq confirmed', results' = results
    PROVE  \A i \in 1..Len(results') : Backed(results[i])'
<1> SUFFICES ASSUME NEW i \in 1..Len(results)
             PROVE  Backed(results[i])'
    OBVIOUS
<1>1. Backed(results[i])
      BY DEF VerdictsSoFar
<1> QED
    BY <1>1 DEF Backed, Confirmed

LEMMA AnswerStaysBacked ==
    ASSUME VerdictsSoFar, pc \in Building, confirmed \subseteq confirmed',
           reDid'.did = reDid.did, reDid'.didVerified = reDid.didVerified,
           reDid'.endpoints = reDid.endpoints
    PROVE  Backed(reDid)'
<1>1. Backed(reDid)
      BY DEF VerdictsSoFar
<1> QED
    BY <1>1 DEF Backed, Confirmed

LEMMA CompletedBacked ==
    ASSUME VerdictsSoFar, pc \in Building, confirmed \subseteq confirmed', Grown
    PROVE  \A i \in 1..Len(results') : Backed(results[i])'
<1> SUFFICES ASSUME NEW i \in 1..Len(results')
             PROVE  Backed(results[i])'
    OBVIOUS
<1>1. CASE i \in 1..Len(results)
  <2>1. Backed(results[i]) /\ results'[i] = results[i]
        BY <1>1 DEF VerdictsSoFar, Grown
  <2> QED
      BY <2>1 DEF Backed, Confirmed
<1>2. CASE i = Len(results) + 1
  <2>1. Backed(reDid)
        BY DEF VerdictsSoFar
  <2>2. /\ results'[i].did = reDid.did /\ results'[i].didVerified = reDid.didVerified
        /\ results'[i].endpoints = reDid.endpoints
        BY <1>2 DEF Grown, Completes
  <2> QED
      BY <2>1, <2>2 DEF Backed, Confirmed
<1> QED
    BY <1>1, <1>2 DEF Grown

LEMMA VerdictsStep ==
    ASSUME TypeOK, Control, Offered, VerdictsSoFar, [Next]_vars
    PROVE  VerdictsSoFar'
<1> USE DEF request, pointers, answer, history
<1>1. CASE UNCHANGED vars
      BY <1>1 DEF vars, VerdictsSoFar, Backed, Confirmed
<1>2. ASSUME NEW l \in PtrLists, ReceiveResolve(l)
      PROVE  VerdictsSoFar'
      BY <1>2 DEF ReceiveResolve, Receive, VerdictsSoFar, Building
<1>3. ASSUME NEW d \in Dids, NEW l \in EpLists[d], ReceiveValidate(d, l)
      PROVE  VerdictsSoFar'
  <2>1. results' = <<>> /\ pc' = "did" /\ ~reDid'.didVerified /\ reDid'.endpoints = <<>>
        BY <1>3 DEF ReceiveValidate, Receive, Blank
  <2> QED
      BY <2>1 DEF VerdictsSoFar, Backed
<1>4. ASSUME NEW ds \in SUBSET Dids, NEW failed \in BOOLEAN, AddPointer(ds, failed)
      PROVE  VerdictsSoFar'
  <2>1. results' = results /\ confirmed' = confirmed /\ pc' = "pointers"
        BY <1>4 DEF AddPointer
  <2> QED
      BY <2>1, ResultsStayBacked DEF VerdictsSoFar, Building
<1>5. CASE PointersDone
  <2>1. results' = results /\ confirmed' = confirmed /\ pc' = "dids"
        BY <1>5 DEF PointersDone
  <2> QED
      BY <2>1, ResultsStayBacked DEF VerdictsSoFar, Building
<1>6. ASSUME NEW d \in Dids, NextDid(d)
      PROVE  VerdictsSoFar'
  <2>1. /\ results' = results /\ confirmed' = confirmed /\ pc' = "did"
        /\ ~reDid'.didVerified /\ reDid'.endpoints = <<>>
        BY <1>6 DEF NextDid, Blank
  <2>2. Backed(reDid)'
        BY <2>1 DEF Backed
  <2> QED
      BY <2>1, <2>2, ResultsStayBacked DEF VerdictsSoFar
<1>7. ASSUME NEW o \in BOOLEAN, NEW l \in AllEpLists, ResolveDid(o, l)
      PROVE  VerdictsSoFar'
  <2>1. results' = results /\ confirmed' = confirmed /\ pc = "did" /\ pc' # "tl"
        BY <1>7 DEF ResolveDid
  <2>2. Backed(reDid)'
        BY <1>7, <2>1, ResolveDidFields, AnswerStaysBacked DEF Building
  <2> QED
      BY <2>1, <2>2, ResultsStayBacked DEF VerdictsSoFar
<1>8. ASSUME NEW v \in BOOLEAN, DidConfig(v)
      PROVE  VerdictsSoFar'
  <2>1. results' = results /\ pc = "config" /\ pc' # "tl"
        BY <1>8 DEF DidConfig
  <2>2. /\ reDid'.did = reDid.did /\ reDid'.didVerified = v
        /\ reDid'.endpoints = reDid.endpoints /\ reDid.endpoints = <<>>
        /\ confirmed \subseteq confirmed' /\ (v => Fact("origin", Nil) \in confirmed')
        BY <1>8, <2>1, DidConfigFields DEF Offered, Building
  <2>3. Backed(reDid)'
        BY <2>2 DEF Backed, Confirmed, Fact
  <2> QED
      BY <2>1, <2>2, <2>3, ResultsStayBacked DEF VerdictsSoFar
<1>9. CASE ResolveDidThrows
  <2>1. confirmed' = confirmed /\ pc \in Building /\ pc' = "dids"
        BY <1>9 DEF ResolveDidThrows, Building
  <2> QED
      BY <1>9, <2>1, DidThrowsGrows, CompletedBacked DEF VerdictsSoFar, Building
<1>10. ASSUME NEW k \in DOMAIN StatusOf, ValidateDidThrows(k)
       PROVE  VerdictsSoFar'
  <2>1. results' = results /\ confirmed' = confirmed /\ pc' = "idle"
        BY <1>10 DEF ValidateDidThrows
  <2> QED
      BY <2>1, ResultsStayBacked DEF VerdictsSoFar, Building
<1>11. ASSUME NEW v \in BOOLEAN, ResolveVc(v)
       PROVE  VerdictsSoFar'
  <2>1. /\ results' = results /\ reDid' = reDid /\ eps' = eps /\ pc \in Building
        /\ signed' = v
        BY <1>11 DEF ResolveVc, Building
  <2>2. /\ confirmed \subseteq confirmed'
        /\ v => Fact("signature", Head(eps)) \in confirmed'
        BY <1>11, ResolveVcFields
  <2>3. Backed(reDid)'
        BY <2>1, <2>2, AnswerStaysBacked
  <2>4. signed' => Confirmed("signature", reDid.did, Head(eps))'
        BY <2>1, <2>2 DEF Confirmed, Fact
  <2> QED
      BY <2>1, <2>2, <2>3, <2>4, ResultsStayBacked DEF VerdictsSoFar
<1>12. CASE Thrown
  <2>1. /\ results' = results /\ confirmed \subseteq confirmed' /\ pc \in Building
        /\ pc' = "endpoints"
        BY <1>12 DEF Thrown, EndpointThrows, Building
  <2>2. Backed(reDid)'
        BY <1>12, <2>1, ThrownFields, AnswerStaysBacked
  <2> QED
      BY <2>1, <2>2, ResultsStayBacked DEF VerdictsSoFar
<1>13. ASSUME NEW v \in BOOLEAN, Added(v)
       PROVE  VerdictsSoFar'
  <2>1. /\ results' = results /\ confirmed \subseteq confirmed' /\ pc = "tl"
        /\ pc' = "endpoints"
        BY <1>13 DEF Added, AddItem
  <2> DEFINE n == Len(reDid.endpoints)
  <2>2. /\ reDid'.did = reDid.did /\ reDid'.didVerified = reDid.didVerified
        /\ n \in Nat /\ Len(reDid'.endpoints) = n + 1
        /\ \A i \in 1..n : reDid'.endpoints[i] = reDid.endpoints[i]
        /\ reDid'.endpoints[n + 1].ep = Head(eps)
        /\ reDid'.endpoints[n + 1].vcVerified = v
        BY <1>13, AddedFields
  <2>3. Backed(reDid) /\ (signed => Confirmed("signature", reDid.did, Head(eps)))
        BY <2>1 DEF VerdictsSoFar, Building
  <2>4. v => signed /\ Fact("hash", Head(eps)) \in confirmed'
        BY <1>13 DEF Added
  <2> HIDE DEF n
  <2>5. ASSUME NEW i \in 1..Len(reDid'.endpoints), reDid'.endpoints[i].vcVerified
        PROVE  /\ Confirmed("signature", reDid.did, reDid.endpoints[i].ep)'
               /\ Confirmed("hash", reDid.did, reDid.endpoints[i].ep)'
    <3>1. CASE i \in 1..n
      <4>1. reDid'.endpoints[i] = reDid.endpoints[i]
            BY <2>2, <3>1
      <4> QED
          BY <2>1, <2>2, <2>3, <2>5, <3>1, <4>1 DEF Backed, Confirmed, n
    <3>2. CASE i = n + 1
          BY <2>1, <2>2, <2>3, <2>4, <2>5, <3>2 DEF Confirmed, Fact
    <3> QED
        BY <2>2, <3>1, <3>2
  <2>6. Backed(reDid)'
        BY <2>1, <2>2, <2>3, <2>5 DEF Backed, Confirmed
  <2> QED
      BY <2>1, <2>6, ResultsStayBacked DEF VerdictsSoFar
<1>14. CASE EndpointsDone
  <2>1. confirmed' = confirmed /\ pc \in Building /\ pc' \notin Building
        BY <1>14 DEF EndpointsDone, Building
  <2> QED
      BY <1>14, <2>1, DoneGrows, CompletedBacked DEF VerdictsSoFar, Building
<1>15. CASE RespondResolve
  <2>1. results' = results /\ confirmed' = confirmed /\ pc' = "idle"
        BY <1>15 DEF RespondResolve
  <2> QED
      BY <2>1, ResultsStayBacked DEF VerdictsSoFar, Building
<1> QED
    BY ONLY TypeOK, Control, [Next]_vars, NextSteps, <1>1, <1>2, <1>3, <1>4, <1>5, <1>6,
       <1>7, <1>8, <1>9, <1>10, <1>11, <1>12, <1>13, <1>14, <1>15

----------------------------------------------------------------------------
LEMMA PointersStep ==
    ASSUME TypeOK, Control, Offered, PointersSoFar, [Next]_vars
    PROVE  PointersSoFar'
<1> USE DEF request, pointers, answer, history
<1>1. CASE UNCHANGED vars
      BY <1>1 DEF vars, PointersSoFar
<1>2. ASSUME NEW l \in PtrLists, ReceiveResolve(l)
      PROVE  PointersSoFar'
  <2>1. /\ asked' = l /\ ptrs' = l /\ rePtrs' = <<>> /\ resolved' = {}
        /\ Len(l) \in Nat /\ Len(rePtrs') = 0
        BY <1>2 DEF ReceiveResolve, Receive
  <2>2. pc' = "pointers"
        BY <1>2 DEF ReceiveResolve
  <2> QED
      BY <2>1, <2>2 DEF PointersSoFar
<1>3. ASSUME NEW d \in Dids, NEW l \in EpLists[d], ReceiveValidate(d, l)
      PROVE  PointersSoFar'
      BY <1>3 DEF ReceiveValidate, Receive, PointersSoFar
<1>4. ASSUME NEW ds \in SUBSET Dids, NEW failed \in BOOLEAN, AddPointer(ds, failed)
      PROVE  PointersSoFar'
  <2> SUFFICES ASSUME op = "resolve"
               PROVE  PointersSoFar'
      BY <1>4 DEF AddPointer, PointersSoFar
  <2> DEFINE n == Len(rePtrs)
             x == [pointer |-> Head(ptrs), dids |-> ds, error |-> failed]
  <2>1. /\ Head(ptrs) = ptrs[1] /\ 1 \in 1..Len(ptrs) /\ Head(ptrs) \in Pointers
        /\ Len(ptrs) \in Nat /\ Len(ptrs') = Len(ptrs) - 1
        /\ \A k \in 1..Len(ptrs') : k + 1 \in 1..Len(ptrs) /\ ptrs'[k] = ptrs[k + 1]
        BY <1>4, TailFacts DEF AddPointer, TypeOK
  <2>2. x \in ResolvedPointer /\ x.pointer = ptrs[1] /\ x.dids = ds
        BY <2>1 DEF ResolvedPointer
  <2>3. rePtrs' = Append(rePtrs, x) /\ rePtrs \in Seq(ResolvedPointer)
        BY <1>4 DEF AddPointer, TypeOK
  <2> HIDE DEF x
  <2>4. /\ n \in Nat /\ Len(rePtrs') = n + 1
        /\ \A i \in 1..n : rePtrs'[i] = rePtrs[i]
        /\ rePtrs'[n + 1] = x
        BY <2>2, <2>3, AppendFacts
  <2> HIDE DEF n
  <2>5. /\ asked' = asked /\ op' = op /\ resolved' = resolved \cup ds
        /\ pc = "pointers" /\ pc' = "pointers"
        BY <1>4 DEF AddPointer
  <2>6. /\ Len(asked) = n + Len(ptrs)
        /\ \A i \in 1..n : asked[i] = rePtrs[i].pointer
        /\ \A k \in 1..Len(ptrs) : asked[n + k] = ptrs[k]
        /\ resolved = UNION {rePtrs[i].dids : i \in 1..n}
        BY DEF PointersSoFar, n
  <2>7. Len(asked') = Len(rePtrs') + Len(ptrs')
        BY <2>1, <2>4, <2>5, <2>6
  <2>8. \A i \in 1..Len(rePtrs') : asked'[i] = rePtrs'[i].pointer
    <3>1. asked[n + 1] = ptrs[1]
          BY <2>1, <2>6
    <3>2. \A i \in 1..(n + 1) : i \in 1..n \/ i = n + 1
          BY <2>4
    <3> QED
        BY <2>2, <2>4, <2>5, <2>6, <3>1, <3>2
  <2>9. \A k \in 1..Len(ptrs') : asked'[Len(rePtrs') + k] = ptrs'[k]
    <3> SUFFICES ASSUME NEW k \in 1..Len(ptrs')
                 PROVE  asked'[Len(rePtrs') + k] = ptrs'[k]
        OBVIOUS
    <3>1. k \in Nat
          BY <2>1
    <3>2. \A x1, y1 \in Nat : (x1 + 1) + y1 = x1 + (y1 + 1)
          OBVIOUS
    <3>3. (n + 1) + k = n + (k + 1)
          BY <2>4, <3>1, <3>2
    <3>4. asked[n + (k + 1)] = ptrs[k + 1]
          BY <2>1, <2>6
    <3> QED
        BY <2>1, <2>4, <2>5, <3>3, <3>4
  <2>10. resolved' = UNION {rePtrs'[i].dids : i \in 1..Len(rePtrs')}
    <3>1. \A i \in 1..(n + 1) : i \in 1..n \/ i = n + 1
          BY <2>4
    <3>2. 1..n \subseteq 1..(n + 1) /\ n + 1 \in 1..(n + 1)
          BY <2>4
    <3>3. {rePtrs'[i].dids : i \in 1..Len(rePtrs')} = {rePtrs[i].dids : i \in 1..n} \cup {ds}
          BY <2>2, <2>4, <3>1, <3>2
    <3> DEFINE before == {rePtrs[i].dids : i \in 1..n}
    <3>4. /\ {rePtrs'[i].dids : i \in 1..Len(rePtrs')} = before \cup {ds}
          /\ resolved' = (UNION before) \cup ds
          BY <2>5, <2>6, <3>3
    <3> HIDE DEF before
    <3>5. UNION (before \cup {ds}) = (UNION before) \cup ds
          OBVIOUS
    <3> QED
        BY ONLY <3>4, <3>5
  <2> QED
      BY <2>5, <2>7, <2>8, <2>9, <2>10 DEF PointersSoFar
<1>5. CASE PointersDone
      BY <1>5 DEF PointersDone, PointersSoFar
<1>6. ASSUME NEW d \in Dids, NextDid(d)
      PROVE  PointersSoFar'
      BY <1>6 DEF NextDid, PointersSoFar
<1>7. ASSUME NEW o \in BOOLEAN, NEW l \in AllEpLists, ResolveDid(o, l)
      PROVE  PointersSoFar'
      BY <1>7 DEF ResolveDid, PointersSoFar
<1>8. ASSUME NEW v \in BOOLEAN, DidConfig(v)
      PROVE  PointersSoFar'
      BY <1>8 DEF DidConfig, PointersSoFar
<1>9. CASE ResolveDidThrows
      BY <1>9 DEF ResolveDidThrows, PointersSoFar
<1>10. ASSUME NEW k \in DOMAIN StatusOf, ValidateDidThrows(k)
       PROVE  PointersSoFar'
       BY <1>10 DEF ValidateDidThrows, PointersSoFar
<1>11. ASSUME NEW v \in BOOLEAN, ResolveVc(v)
       PROVE  PointersSoFar'
       BY <1>11 DEF ResolveVc, PointersSoFar
<1>12. CASE Thrown
       BY <1>12 DEF Thrown, EndpointThrows, PointersSoFar
<1>13. ASSUME NEW v \in BOOLEAN, Added(v)
       PROVE  PointersSoFar'
       BY <1>13 DEF Added, AddItem, PointersSoFar
<1>14. CASE EndpointsDone
       BY <1>14 DEF EndpointsDone, PointersSoFar
<1>15. CASE RespondResolve
       BY <1>15 DEF RespondResolve, PointersSoFar
<1> QED
    BY ONLY TypeOK, Control, [Next]_vars, NextSteps, <1>1, <1>2, <1>3, <1>4, <1>5, <1>6,
       <1>7, <1>8, <1>9, <1>10, <1>11, <1>12, <1>13, <1>14, <1>15

----------------------------------------------------------------------------
LEMMA DidsStep ==
    ASSUME TypeOK, Control, Offered, EndpointsSoFar, DidsSoFar, [Next]_vars
    PROVE  DidsSoFar'
<1> USE DEF request, pointers, answer, history, Building, DidsSoFar
<1>1. CASE UNCHANGED vars
      BY <1>1 DEF vars, Done
<1>2. ASSUME NEW l \in PtrLists, ReceiveResolve(l)
      PROVE  DidsSoFar'
      BY <1>2 DEF ReceiveResolve, Receive
<1>3. ASSUME NEW d \in Dids, NEW l \in EpLists[d], ReceiveValidate(d, l)
      PROVE  DidsSoFar'
      BY <1>3 DEF ReceiveValidate, Receive
<1>4. ASSUME NEW ds \in SUBSET Dids, NEW failed \in BOOLEAN, AddPointer(ds, failed)
      PROVE  DidsSoFar'
      BY <1>4 DEF AddPointer
<1>5. CASE PointersDone
  <2>1. op = "resolve" => Done = {} /\ Done' = {}
        BY <1>5 DEF PointersDone, Done
  <2> QED
      BY <1>5, <2>1 DEF PointersDone
<1>6. ASSUME NEW d \in Dids, NextDid(d)
      PROVE  DidsSoFar'
  <2>1. reDid'.did = d /\ Done' = Done
        BY <1>6 DEF NextDid, Blank, Done
  <2> QED
      BY <1>6, <2>1 DEF NextDid
<1>7. ASSUME NEW o \in BOOLEAN, NEW l \in AllEpLists, ResolveDid(o, l)
      PROVE  DidsSoFar'
  <2>1. reDid'.did = reDid.did /\ Done' = Done
        BY <1>7, ResolveDidFields DEF ResolveDid, Done
  <2> QED
      BY <1>7, <2>1 DEF ResolveDid
<1>8. ASSUME NEW v \in BOOLEAN, DidConfig(v)
      PROVE  DidsSoFar'
  <2>1. reDid'.did = reDid.did /\ Done' = Done
        BY <1>8, DidConfigFields DEF DidConfig, Done
  <2> QED
      BY <1>8, <2>1 DEF DidConfig
<1>9. ASSUME Grown, pc \in Building, reDid.did \notin Done, op = "resolve"
      PROVE  \A i, j \in 1..Len(results') : results'[i].did = results'[j].did => i = j
  <2>1. \A i \in 1..Len(results') : i \in 1..Len(results) \/ i = Len(results) + 1
        BY <1>9 DEF Grown
  <2>2. \A i \in 1..Len(results) : results'[i] = results[i] /\ results[i].did # reDid.did
        BY <1>9 DEF Grown, Done
  <2>3. results'[Len(results) + 1].did = reDid.did
        BY <1>9 DEF Grown, Completes
  <2> QED
      BY <1>9, <2>1, <2>2, <2>3
<1>10. CASE ResolveDidThrows
  <2>1. Grown /\ pc \in Building /\ Done' = Done \cup {reDid.did}
        BY <1>10, DidThrowsGrows, GrownSet DEF ResolveDidThrows
  <2>2. reDid.did \notin Done
        BY <2>1 DEF EndpointsSoFar
  <2> QED
      BY <1>9, <1>10, <2>1, <2>2 DEF ResolveDidThrows
<1>11. ASSUME NEW k \in DOMAIN StatusOf, ValidateDidThrows(k)
       PROVE  DidsSoFar'
       BY <1>11 DEF ValidateDidThrows
<1>12. ASSUME NEW v \in BOOLEAN, ResolveVc(v)
       PROVE  DidsSoFar'
       BY <1>12 DEF ResolveVc, Done
<1>13. CASE Thrown
  <2>1. reDid'.did = reDid.did /\ Done' = Done
        BY <1>13, ThrownFields DEF Thrown, Done
  <2> QED
      BY <1>13, <2>1 DEF Thrown, EndpointThrows
<1>14. ASSUME NEW v \in BOOLEAN, Added(v)
       PROVE  DidsSoFar'
  <2>1. reDid'.did = reDid.did /\ Done' = Done
        BY <1>14, AddedFields DEF Added, Done
  <2> QED
      BY <1>14, <2>1 DEF Added, AddItem
<1>15. CASE EndpointsDone
  <2>1. Grown /\ pc \in Building /\ Done' = Done \cup {reDid.did}
        BY <1>15, DoneGrows, GrownSet DEF EndpointsDone
  <2>2. reDid.did \notin Done
        BY <2>1 DEF EndpointsSoFar
  <2>3. op = "resolve" => pc' = "dids" /\ status' = status
        BY <1>15 DEF EndpointsDone
  <2>4. op' = op /\ todo' = todo /\ resolved' = resolved
        BY <1>15 DEF EndpointsDone
  <2> QED
      BY <1>9, <2>1, <2>2, <2>3, <2>4 DEF Control
<1>16. CASE RespondResolve
       BY <1>16 DEF RespondResolve, Done
<1> HIDE DEF DidsSoFar
<1> QED
    BY ONLY TypeOK, Control, [Next]_vars, NextSteps, <1>1, <1>2, <1>3, <1>4, <1>5, <1>6,
       <1>7, <1>8, <1>10, <1>11, <1>12, <1>13, <1>14, <1>15, <1>16

----------------------------------------------------------------------------
\* Accounted(x, n), with the failures there are after the step.
AccountedNext(x, n) ==
    \E at \in [1..Len(x.endpoints) -> 1..n] :
       /\ \A i, j \in 1..Len(x.endpoints) : i < j => at[i] < at[j]
       /\ \A i \in 1..Len(x.endpoints) : x.endpoints[i].ep = x.offered[at[i]]
       /\ \A k \in 1..n :
             <<x.did, k>> \notin failures' <=> \E i \in 1..Len(x.endpoints) : at[i] = k

\* An account of an answer is one of any answer with the same parts, as long as no
\* failure is added for its DID.
LEMMA AccountKept ==
    ASSUME NEW r, NEW n \in Nat, Accounted(r, n),
           NEW x, x.did = r.did, x.endpoints = r.endpoints, x.offered = r.offered,
           \A k \in 1..n : <<r.did, k>> \in failures' <=> <<r.did, k>> \in failures
    PROVE  AccountedNext(x, n)
<1> USE DEF AccountedNext
<1>1. PICK at \in [1..Len(r.endpoints) -> 1..n] : Accounts(at, r, n)
      BY DEF Accounted
<1>2. at \in [1..Len(x.endpoints) -> 1..n]
      BY <1>1
<1>3. /\ \A i, j \in 1..Len(x.endpoints) : i < j => at[i] < at[j]
      /\ \A i \in 1..Len(x.endpoints) : x.endpoints[i].ep = x.offered[at[i]]
      BY <1>1 DEF Accounts
<1>4. \A k \in 1..n : <<x.did, k>> \notin failures' <=> \E i \in 1..Len(x.endpoints) : at[i] = k
      BY <1>1 DEF Accounts
<1> WITNESS at \in [1..Len(x.endpoints) -> 1..n]
<1> QED
    BY <1>3, <1>4

\* Nothing was visited, and nothing found.
LEMMA AccountedNone ==
    ASSUME NEW x, x.endpoints = <<>>, NEW n, n = 0
    PROVE  AccountedNext(x, n)
<1> USE DEF AccountedNext
<1>1. 1..Len(x.endpoints) = {} /\ 1..n = {}
      OBVIOUS
<1>2. [i \in 1..Len(x.endpoints) |-> i] \in [1..Len(x.endpoints) -> 1..n]
      BY <1>1
<1> WITNESS [i \in 1..Len(x.endpoints) |-> i] \in [1..Len(x.endpoints) -> 1..n]
<1> QED
    BY <1>1

\* One more was visited, and its processing threw.
LEMMA AccountedThrown ==
    ASSUME TypeOK, Control, Offered, EndpointsSoFar, Thrown
    PROVE  Accounted(reDid, Visited)'
<1>1. /\ reDid'.did = reDid.did /\ reDid'.endpoints = reDid.endpoints
      /\ reDid'.offered = reDid.offered
      /\ Visited' = Visited + 1 /\ Place = Visited + 1 /\ Visited \in Nat
      BY ThrownFields
<1>2. failures' = failures \cup {<<reDid.did, Visited + 1>>}
      BY <1>1 DEF Thrown, EndpointThrows
<1>3. PICK at \in [1..Len(reDid.endpoints) -> 1..Visited] : Accounts(at, reDid, Visited)
      BY DEF EndpointsSoFar, Accounted, Thrown, Building
<1> DEFINE m == Len(reDid.endpoints)
<1>4. at \in [1..m -> 1..(Visited + 1)]
  <2>1. 1..Visited \subseteq 1..(Visited + 1)
        BY <1>1
  <2> QED
      BY <1>3, <2>1
<1>5. ASSUME NEW k \in 1..(Visited + 1)
      PROVE  <<reDid.did, k>> \notin failures' <=> \E i \in 1..m : at[i] = k
  <2>1. CASE k \in 1..Visited
    <3>1. k # Visited + 1
          BY <1>1, <2>1
    <3>2. <<reDid.did, k>> \in failures' <=> <<reDid.did, k>> \in failures
          BY <1>2, <3>1
    <3> QED
        BY <1>3, <2>1, <3>2 DEF Accounts
  <2>2. CASE k = Visited + 1
    <3>1. \A i \in 1..m : at[i] # k
          BY <1>1, <1>3, <2>2
    <3> QED
        BY <1>2, <2>2, <3>1
  <2> QED
      BY <1>1, <2>1, <2>2
<1>6. /\ \A i, j \in 1..m : i < j => at[i] < at[j]
      /\ \A i \in 1..m : reDid.endpoints[i].ep = reDid.offered[at[i]]
      BY <1>3 DEF Accounts
<1>7. /\ at \in [1..Len(reDid'.endpoints) -> 1..Visited']
      /\ \A i, j \in 1..Len(reDid'.endpoints) : i < j => at[i] < at[j]
      /\ \A i \in 1..Len(reDid'.endpoints) : reDid'.endpoints[i].ep = reDid'.offered[at[i]]
      /\ \A k \in 1..Visited' :
            <<reDid'.did, k>> \notin failures' <=> \E i \in 1..Len(reDid'.endpoints) : at[i] = k
  <2>1. at \in [1..Len(reDid'.endpoints) -> 1..Visited']
        BY ONLY <1>1, <1>4
  <2>2. /\ \A i, j \in 1..Len(reDid'.endpoints) : i < j => at[i] < at[j]
        /\ \A i \in 1..Len(reDid'.endpoints) : reDid'.endpoints[i].ep = reDid'.offered[at[i]]
        BY ONLY <1>1, <1>6
  <2>3. \A k \in 1..Visited' :
            <<reDid'.did, k>> \notin failures' <=> \E i \in 1..Len(reDid'.endpoints) : at[i] = k
        BY ONLY <1>1, <1>5
  <2> QED
      BY ONLY <2>1, <2>2, <2>3
<1> SUFFICES \E f \in [1..Len(reDid'.endpoints) -> 1..Visited'] :
                /\ \A i, j \in 1..Len(reDid'.endpoints) : i < j => f[i] < f[j]
                /\ \A i \in 1..Len(reDid'.endpoints) : reDid'.endpoints[i].ep = reDid'.offered[f[i]]
                /\ \A k \in 1..Visited' :
                      <<reDid'.did, k>> \notin failures' <=>
                          \E i \in 1..Len(reDid'.endpoints) : f[i] = k
    BY DEF Accounted, Accounts
<1> at \in [1..Len(reDid'.endpoints) -> 1..Visited']
    BY <1>7
<1> WITNESS at \in [1..Len(reDid'.endpoints) -> 1..Visited']
<1> QED
    BY <1>7

\* One more was visited, and added to the answer.
LEMMA AccountedAdded ==
    ASSUME TypeOK, Control, Offered, EndpointsSoFar, NEW v \in BOOLEAN, Added(v)
    PROVE  Accounted(reDid, Visited)'
<1> DEFINE m == Len(reDid.endpoints)
<1>1. /\ reDid'.did = reDid.did /\ reDid'.offered = reDid.offered
      /\ m \in Nat /\ Len(reDid'.endpoints) = m + 1
      /\ \A i \in 1..m : reDid'.endpoints[i] = reDid.endpoints[i]
      /\ reDid'.endpoints[m + 1].ep = reDid.offered[Visited + 1]
      /\ Visited' = Visited + 1 /\ Visited \in Nat
      BY AddedFields
<1>2. failures' = failures
      BY DEF Added, AddItem
<1>3. PICK old \in [1..m -> 1..Visited] : Accounts(old, reDid, Visited)
      BY DEF EndpointsSoFar, Accounted, Added, Building
<1>4. <<reDid.did, Visited + 1>> \notin failures
  <2>1. pc \in Building
        BY DEF Added, Building
  <2>2. reDid.did \notin Done
        BY <2>1 DEF EndpointsSoFar
  <2>3. Visited + 1 \notin 1..Visited
        BY <1>1
  <2>4. \A f \in failures : f[1] = reDid.did => f[2] \in 1..Visited
        BY <2>2 DEF EndpointsSoFar
  <2> QED
      BY <2>3, <2>4
<1> HIDE DEF m
<1> DEFINE at == [i \in 1..(m + 1) |-> IF i \in 1..m THEN old[i] ELSE Visited + 1]
<1>5. /\ \A i \in 1..m : i \in 1..(m + 1) /\ at[i] = old[i] /\ old[i] \in 1..Visited
      /\ m + 1 \in 1..(m + 1) /\ m + 1 \notin 1..m /\ at[m + 1] = Visited + 1
      /\ \A i \in 1..(m + 1) : i \in 1..m \/ i = m + 1
      BY <1>1, <1>3
<1>6. at \in [1..(m + 1) -> 1..(Visited + 1)]
  <2>1. \A i \in 1..(m + 1) : at[i] \in 1..(Visited + 1)
        BY <1>1, <1>5
  <2> QED
      BY <2>1
<1> HIDE DEF at
<1>7. ASSUME NEW i \in 1..(m + 1), NEW j \in 1..(m + 1), i < j
      PROVE  at[i] < at[j]
  <2>1. i \in 1..m
        BY <1>1, <1>5, <1>7
  <2>2. CASE j \in 1..m
        BY <1>3, <1>5, <1>7, <2>1, <2>2 DEF Accounts, m
  <2>3. CASE j = m + 1
        BY <1>1, <1>5, <2>1, <2>3
  <2> QED
      BY <1>5, <2>2, <2>3
<1>8. ASSUME NEW i \in 1..(m + 1)
      PROVE  reDid'.endpoints[i].ep = reDid'.offered[at[i]]
  <2>1. CASE i \in 1..m
    <3>1. reDid.endpoints[i].ep = reDid.offered[old[i]]
          BY <1>3, <2>1 DEF Accounts, m
    <3>2. reDid'.endpoints[i] = reDid.endpoints[i] /\ at[i] = old[i]
          BY <1>1, <1>5, <2>1
    <3>3. reDid'.offered = reDid.offered
          BY <1>1
    <3> QED
        BY <3>1, <3>2, <3>3
  <2>2. CASE i = m + 1
        BY <1>1, <1>5, <2>2
  <2> QED
      BY <1>5, <2>1, <2>2
<1>9. ASSUME NEW k \in 1..(Visited + 1)
      PROVE  <<reDid.did, k>> \notin failures <=> \E i \in 1..(m + 1) : at[i] = k
  <2>1. CASE k \in 1..Visited
    <3>1. <<reDid.did, k>> \notin failures <=> \E i \in 1..m : old[i] = k
          BY <1>3, <2>1 DEF Accounts, m
    <3>2. k # Visited + 1
          BY <1>1, <2>1
    <3> QED
        BY <1>5, <3>1, <3>2
  <2>2. CASE k = Visited + 1
        BY <1>4, <1>5, <2>2
  <2> QED
      BY <1>1, <2>1, <2>2
<1>10. /\ at \in [1..Len(reDid'.endpoints) -> 1..Visited']
       /\ \A i, j \in 1..Len(reDid'.endpoints) : i < j => at[i] < at[j]
       /\ \A i \in 1..Len(reDid'.endpoints) : reDid'.endpoints[i].ep = reDid'.offered[at[i]]
       /\ \A k \in 1..Visited' :
             <<reDid'.did, k>> \notin failures' <=> \E i \in 1..Len(reDid'.endpoints) : at[i] = k
       BY <1>1, <1>2, <1>6, <1>7, <1>8, <1>9
<1> SUFFICES \E f \in [1..Len(reDid'.endpoints) -> 1..Visited'] :
                /\ \A i, j \in 1..Len(reDid'.endpoints) : i < j => f[i] < f[j]
                /\ \A i \in 1..Len(reDid'.endpoints) : reDid'.endpoints[i].ep = reDid'.offered[f[i]]
                /\ \A k \in 1..Visited' :
                      <<reDid'.did, k>> \notin failures' <=>
                          \E i \in 1..Len(reDid'.endpoints) : f[i] = k
    BY DEF Accounted, Accounts
<1> at \in [1..Len(reDid'.endpoints) -> 1..Visited']
    BY <1>10
<1> WITNESS at \in [1..Len(reDid'.endpoints) -> 1..Visited']
<1> QED
    BY <1>10

\* Answers that are complete keep their account while no failure is added for
\* their DIDs.
LEMMA ResultsStayAccounted ==
    ASSUME TypeOK, EndpointsSoFar, NEW r \in Set(results), r.doc,
           \A k \in Nat : <<r.did, k>> \in failures' <=> <<r.did, k>> \in failures
    PROVE  Accounted(r, Len(r.offered))'
<1>1. Accounted(r, Len(r.offered)) /\ Len(r.offered) \in Nat
  <2>1. r \in ResolvedDid
        BY DEF TypeOK, Set
  <2> QED
      BY <2>1, DidFields DEF EndpointsSoFar
<1>2. \A k \in 1..Len(r.offered) : <<r.did, k>> \in failures' <=> <<r.did, k>> \in failures
      BY <1>1
<1>3. AccountedNext(r, Len(r.offered))
      BY <1>1, <1>2, AccountKept
<1> QED
    BY ONLY <1>3 DEF Accounted, Accounts, AccountedNext

LEMMA CompleteStayAccounted ==
    ASSUME TypeOK, EndpointsSoFar, failures \subseteq failures',
           \A f \in failures' \ failures : f[1] \notin Done
    PROVE  \A r \in Set(results) : r.doc => AccountedNext(r, Len(r.offered))
<1> SUFFICES ASSUME NEW r \in Set(results), r.doc
             PROVE  AccountedNext(r, Len(r.offered))
    OBVIOUS
<1>1. r.did \in Done
      BY DEF Set, Done
<1>2. \A k \in Nat : <<r.did, k>> \in failures' <=> <<r.did, k>> \in failures
      BY <1>1
<1>3. Accounted(r, Len(r.offered))'
      BY <1>2, ResultsStayAccounted
<1> QED
    BY ONLY <1>3 DEF Accounted, Accounts, AccountedNext

\* What is to be shown of a step.
LEMMA EndpointsNext ==
    ASSUME pc' \in Building => reDid'.did \notin Done' /\ AccountedNext(reDid', Visited'),
           \A r \in Set(results') : r.doc => AccountedNext(r, Len(r.offered)),
           \A f \in failures' :
              \/ f[1] \in Done'
              \/ pc' \in Building /\ f[1] = reDid'.did /\ f[2] \in 1..Visited'
    PROVE  EndpointsSoFar'
<1>1. pc' \in Building => Accounted(reDid, Visited)'
      BY DEF Accounted, Accounts, AccountedNext
<1>2. ASSUME NEW r \in Set(results'), r.doc
      PROVE  Accounted(r, Len(r.offered))'
  <2>1. AccountedNext(r, Len(r.offered))
        BY <1>2
  <2> QED
      BY ONLY <2>1 DEF Accounted, Accounts, AccountedNext
<1>3. (\A r \in Set(results) : r.doc => Accounted(r, Len(r.offered)))'
      BY <1>2
<1> QED
    BY <1>1, <1>3 DEF EndpointsSoFar

LEMMA EndpointsStep ==
    ASSUME TypeOK, Control, Offered, EndpointsSoFar, DidsSoFar, [Next]_vars
    PROVE  EndpointsSoFar'
<1> USE DEF request, pointers, answer, history
<1>2. ASSUME results' = <<>>, failures' = {},
             pc' \in Building => reDid'.endpoints = <<>> /\ Visited' = 0
      PROVE  EndpointsSoFar'
  <2>1. Done' = {} /\ Set(results') = {}
        BY <1>2 DEF Done, Set
  <2>2. pc' \in Building => AccountedNext(reDid', Visited')
        BY <1>2, AccountedNone
  <2> QED
      BY <1>2, <2>1, <2>2, EndpointsNext
<1>3. ASSUME NEW l \in PtrLists, ReceiveResolve(l)
      PROVE  EndpointsSoFar'
      BY <1>2, <1>3 DEF ReceiveResolve, Receive, Building
<1>4. ASSUME NEW d \in Dids, NEW l \in EpLists[d], ReceiveValidate(d, l)
      PROVE  EndpointsSoFar'
  <2>1. pc' = "did" /\ results' = <<>> /\ failures' = {}
        BY <1>4 DEF ReceiveValidate, Receive
  <2>2. reDid'.endpoints = <<>> /\ Visited' = 0
        BY <2>1, OfferedStep DEF Offered, Building
  <2> QED
      BY <1>2, <2>1, <2>2
\* Steps that leave the complete answers and the failures alone.
<1>5. ASSUME results' = results, failures' = failures,
             pc' \in Building =>
                /\ reDid'.did \notin Done /\ AccountedNext(reDid', Visited')
                /\ pc \in Building => reDid'.did = reDid.did /\ Visited <= Visited'
                /\ Visited' \in Nat,
             pc \in Building => pc' \in Building /\ Visited \in Nat
      PROVE  EndpointsSoFar'
  <2>1. Done' = Done /\ Set(results') = Set(results)
        BY <1>5 DEF Done, Set
  <2>2. \A r \in Set(results') : r.doc => AccountedNext(r, Len(r.offered))
        BY <1>5, <2>1, CompleteStayAccounted
  <2>3. ASSUME NEW f \in failures'
        PROVE  \/ f[1] \in Done'
               \/ pc' \in Building /\ f[1] = reDid'.did /\ f[2] \in 1..Visited'
        BY <1>5, <2>1, <2>3 DEF EndpointsSoFar
  <2> QED
      BY <1>5, <2>1, <2>2, <2>3, EndpointsNext
<1>1. CASE UNCHANGED vars
  <2>1. /\ results' = results /\ failures' = failures /\ pc' = pc
        /\ reDid' = reDid /\ eps' = eps
        BY <1>1 DEF vars
  <2>2. pc \in Building => Visited' = Visited /\ Visited \in Nat
        BY <2>1, OfferedPlace DEF Visited, Place
  <2>3. pc \in Building => Accounted(reDid, Visited)
        BY DEF EndpointsSoFar
  <2>4. pc \in Building => AccountedNext(reDid', Visited')
        BY ONLY <2>1, <2>2, <2>3 DEF Accounted, Accounts, AccountedNext
  <2> QED
      BY <1>5, <2>1, <2>2, <2>4 DEF EndpointsSoFar
<1>6. ASSUME NEW ds \in SUBSET Dids, NEW failed \in BOOLEAN, AddPointer(ds, failed)
      PROVE  EndpointsSoFar'
      BY <1>5, <1>6 DEF AddPointer, Building
<1>7. CASE PointersDone
      BY <1>5, <1>7 DEF PointersDone, Building
<1>8. ASSUME NEW d \in Dids, NextDid(d)
      PROVE  EndpointsSoFar'
  <2>1. /\ results' = results /\ failures' = failures /\ pc = "dids" /\ pc' = "did"
        /\ d \in todo /\ reDid' = Blank(d, <<>>)
        BY <1>8 DEF NextDid
  <2>2. reDid'.endpoints = <<>> /\ Visited' = 0
        BY <2>1, OfferedStep DEF Offered, Building
  <2>3. reDid'.did = d
        BY <2>1 DEF Blank
  <2>4. d \notin Done
    <3>1. op = "resolve"
          BY <2>1 DEF TypeOK, Control
    <3> QED
        BY <2>1, <3>1 DEF DidsSoFar
  <2>5. AccountedNext(reDid', Visited')
        BY <2>2, AccountedNone
  <2> QED
      BY <1>5, <2>1, <2>2, <2>3, <2>4, <2>5 DEF Building
<1>9. ASSUME NEW o \in BOOLEAN, NEW l \in AllEpLists, ResolveDid(o, l)
      PROVE  EndpointsSoFar'
  <2>1. /\ results' = results /\ failures' = failures /\ pc = "did"
        /\ pc' \in {"config", "endpoints"}
        BY <1>9 DEF ResolveDid
  <2>2. Visited = 0 /\ reDid.endpoints = <<>> /\ reDid.did \notin Done /\ reDid \in ResolvedDid
        BY <2>1 DEF Offered, EndpointsSoFar, Building, TypeOK, Control
  <2>3. reDid'.did = reDid.did /\ reDid'.endpoints = <<>>
        BY <1>9, <2>2, ResolveDidFields
  <2>4. Visited' = 0
    <3>1. CASE UNCHANGED <<eps, reDid>>
          BY <2>2, <3>1 DEF Visited, Place
    <3>2. CASE eps' = l /\ reDid' = [reDid EXCEPT !.offered = l]
      <4>1. reDid'.offered = l /\ Len(l) \in Nat
            BY <2>2, <3>2, EpListsAreSeqs DEF ResolvedDid
      <4> QED
          BY <3>2, <4>1 DEF Visited, Place
    <3> QED
        BY <1>9, <3>1, <3>2 DEF ResolveDid
  <2>5. AccountedNext(reDid', Visited')
        BY <2>3, <2>4, AccountedNone
  <2> QED
      BY <1>5, <2>1, <2>2, <2>3, <2>4, <2>5 DEF Building
<1>10. ASSUME NEW v \in BOOLEAN, DidConfig(v)
       PROVE  EndpointsSoFar'
  <2>1. /\ results' = results /\ failures' = failures /\ pc = "config"
        /\ pc' = "endpoints"
        BY <1>10 DEF DidConfig
  <2>2. Visited = 0 /\ reDid.endpoints = <<>> /\ reDid.did \notin Done
        BY <2>1 DEF Offered, EndpointsSoFar, Building
  <2>3. /\ reDid'.did = reDid.did /\ reDid'.endpoints = <<>>
        /\ reDid'.offered = reDid.offered /\ eps' = eps
        BY <1>10, <2>2, DidConfigFields
  <2>4. Visited' = 0
        BY <2>2, <2>3 DEF Visited, Place
  <2>5. AccountedNext(reDid', Visited')
        BY <2>3, <2>4, AccountedNone
  <2> QED
      BY <1>5, <2>1, <2>2, <2>3, <2>4, <2>5 DEF Building
\* Steps that complete an answer.
<1>11. ASSUME Grown, failures' = failures, pc \in Building, pc' \notin Building,
              Completes.doc => AccountedNext(Completes, Len(Completes.offered))
       PROVE  EndpointsSoFar'
  <2>1. Set(results') = Set(results) \cup {Completes} /\ Done' = Done \cup {reDid.did}
        BY <1>11, GrownSet
  <2>2. \A r \in Set(results) : r.doc => AccountedNext(r, Len(r.offered))
        BY <1>11, CompleteStayAccounted
  <2>3. \A f \in failures' : f[1] \in Done'
        BY <1>11, <2>1 DEF EndpointsSoFar
  <2> QED
      BY <1>11, <2>1, <2>2, <2>3, EndpointsNext
<1>12. CASE ResolveDidThrows
  <2>1. failures' = failures /\ pc \in Building /\ pc' \notin Building
        BY <1>12 DEF ResolveDidThrows, Building
  <2>2. Grown /\ ~Completes.doc
        BY <1>12, DidThrowsGrows
  <2> QED
      BY <1>11, <2>1, <2>2
<1>13. CASE EndpointsDone
  <2>1. failures' = failures /\ pc \in Building /\ pc' \notin Building
        BY <1>13 DEF EndpointsDone, Building
  <2>2. Grown /\ Visited = Len(reDid.offered)
        BY <1>13, DoneGrows
  <2>3. /\ Completes.did = reDid.did /\ Completes.endpoints = reDid.endpoints
        /\ Completes.offered = reDid.offered
        BY <2>2 DEF Grown
  <2>4. Accounted(reDid, Visited) /\ Visited \in Nat
        BY <2>1, OfferedPlace DEF EndpointsSoFar
  <2>5. \A k \in 1..Visited : <<reDid.did, k>> \in failures' <=> <<reDid.did, k>> \in failures
        BY <2>1
  <2>6. AccountedNext(Completes, Visited)
        BY ONLY <2>3, <2>4, <2>5, AccountKept
  <2>7. Visited = Len(Completes.offered)
        BY <2>2, <2>3
  <2> QED
      BY <1>11, <2>1, <2>2, <2>6, <2>7
<1>14. ASSUME NEW k \in DOMAIN StatusOf, ValidateDidThrows(k)
       PROVE  EndpointsSoFar'
  <2>1. /\ results' = results /\ failures' = failures /\ op = "validate"
        /\ pc \in {"did", "config"} /\ pc' = "idle"
        BY <1>14 DEF ValidateDidThrows
  <2>2. results = <<>>
        BY <2>1 DEF Control
  <2>3. failures = {}
    <3>1. Done = {} /\ Visited = 0
          BY <2>1, <2>2 DEF Done, Offered, Building
    <3>2. 1..Visited = {}
          BY <3>1
    <3> QED
        BY <3>1, <3>2 DEF EndpointsSoFar
  <2> QED
      BY <1>2, <2>1, <2>2, <2>3 DEF Building
<1>15. ASSUME NEW v \in BOOLEAN, ResolveVc(v)
       PROVE  EndpointsSoFar'
  <2>1. /\ results' = results /\ failures' = failures /\ pc \in Building
        /\ pc' \in Building /\ reDid' = reDid /\ eps' = eps
        BY <1>15 DEF ResolveVc, Building
  <2>2. Visited' = Visited /\ Visited \in Nat
        BY <2>1, OfferedPlace DEF Visited, Place
  <2>3. Accounted(reDid, Visited)
        BY <2>1 DEF EndpointsSoFar
  <2>4. AccountedNext(reDid', Visited')
        BY ONLY <2>1, <2>2, <2>3 DEF Accounted, Accounts, AccountedNext
  <2> QED
      BY <1>5, <2>1, <2>2, <2>4 DEF EndpointsSoFar
<1>16. CASE Thrown
  <2>1. results' = results /\ pc \in Building /\ pc' \in Building
        BY <1>16 DEF Thrown, EndpointThrows, Building
  <2>2. /\ reDid'.did = reDid.did /\ Visited' = Visited + 1
        /\ Place = Visited + 1 /\ Visited \in Nat
        BY <1>16, ThrownFields
  <2>3. failures' = failures \cup {<<reDid.did, Visited + 1>>}
        BY <1>16, <2>2 DEF Thrown, EndpointThrows
  <2>4. AccountedNext(reDid', Visited')
    <3>1. Accounted(reDid, Visited)'
          BY <1>16, AccountedThrown
    <3> QED
        BY ONLY <3>1 DEF Accounted, Accounts, AccountedNext
  <2>5. Done' = Done /\ Set(results') = Set(results) /\ reDid.did \notin Done
        BY <2>1 DEF Done, Set, EndpointsSoFar
  <2>6. \A r \in Set(results') : r.doc => AccountedNext(r, Len(r.offered))
    <3>1. failures \subseteq failures' /\ \A f \in failures' \ failures : f[1] \notin Done
          BY <2>3, <2>5
    <3> QED
        BY <2>5, <3>1, CompleteStayAccounted
  <2>7. ASSUME NEW f \in failures'
        PROVE  \/ f[1] \in Done'
               \/ pc' \in Building /\ f[1] = reDid'.did /\ f[2] \in 1..Visited'
    <3>1. Visited + 1 \in 1..Visited' /\ 1..Visited \subseteq 1..Visited'
          BY <2>2
    <3>2. CASE f \in failures
          BY <2>1, <2>2, <2>5, <3>1, <3>2 DEF EndpointsSoFar
    <3>3. CASE f = <<reDid.did, Visited + 1>>
          BY <2>1, <2>2, <3>1, <3>3
    <3> QED
        BY <2>3, <3>2, <3>3
  <2> QED
      BY <2>1, <2>2, <2>4, <2>5, <2>6, <2>7, EndpointsNext
<1>17. ASSUME NEW v \in BOOLEAN, Added(v)
       PROVE  EndpointsSoFar'
  <2>1. results' = results /\ failures' = failures /\ pc \in Building /\ pc' \in Building
        BY <1>17 DEF Added, AddItem, Building
  <2>2. reDid'.did = reDid.did /\ Visited' = Visited + 1 /\ Visited \in Nat
        BY <1>17, AddedFields
  <2>3. AccountedNext(reDid', Visited')
    <3>1. Accounted(reDid, Visited)'
          BY <1>17, AccountedAdded
    <3> QED
        BY ONLY <3>1 DEF Accounted, Accounts, AccountedNext
  <2> QED
      BY <1>5, <2>1, <2>2, <2>3 DEF EndpointsSoFar
<1>18. CASE RespondResolve
       BY <1>5, <1>18 DEF RespondResolve, Building
<1> QED
    BY ONLY TypeOK, Control, [Next]_vars, NextSteps, <1>1, <1>3, <1>4, <1>6, <1>7, <1>8,
       <1>9, <1>10, <1>12, <1>13, <1>14, <1>15, <1>16, <1>17, <1>18

----------------------------------------------------------------------------
(* The theorems *)

LEMMA InvInit == Init => Inv
<1> SUFFICES ASSUME Init
             PROVE  Inv
    OBVIOUS
<1>1. TypeOK /\ Control /\ Offered
      BY TypeInit
<1>2. /\ results = <<>> /\ Set(results) = {} /\ Done = {} /\ failures = {}
      /\ pc = "idle" /\ pc \notin Building
      BY DEF Init, Set, Done, Building
<1>3. EndpointsSoFar /\ ErrorsSoFar /\ VerdictsSoFar
      BY <1>2 DEF EndpointsSoFar, ErrorsSoFar, VerdictsSoFar
<1>4. PointersSoFar
      BY DEF Init, PointersSoFar
<1>5. DidsSoFar
      BY <1>2 DEF Init, DidsSoFar
<1> QED
    BY <1>1, <1>3, <1>4, <1>5 DEF Inv

LEMMA InvStep == Inv /\ [Next]_vars => Inv'
BY TypeStep, OfferedStep, EndpointsStep, ErrorsStep, VerdictsStep, PointersStep, DidsStep
   DEF Inv

\* Inv is an invariant of the service, whatever it is asked and whatever the
\* resolvers answer.
THEOREM Invariant == Spec => []Inv
BY InvInit, InvStep, PTL DEF Spec

\* Every variable keeps its type: no answer of a resolver makes an answer of the
\* service that is not one.
THEOREM Typed == Spec => []TypeOK
<1>1. Inv => TypeOK
      BY DEF Inv
<1> QED
    BY <1>1, Invariant, PTL

\* No verdict of one endpoint or DID reaches the answer for another, although
\* vcRes, tlRes and reDid live on from one endpoint, or DID, to the next.
THEOREM VerdictsConfirmed == Spec => []VerifiedIsConfirmed
<1>1. Inv => VerifiedIsConfirmed
  <2> SUFFICES ASSUME Inv, NEW r \in Set(results)
               PROVE  /\ r.didVerified => Confirmed("origin", r.did, Nil)
                      /\ \A i \in Set(r.endpoints) : i.vcVerified =>
                            /\ Confirmed("signature", r.did, i.ep)
                            /\ Confirmed("hash", r.did, i.ep)
      BY DEF VerifiedIsConfirmed
  <2>1. Backed(r)
        BY DEF Inv, VerdictsSoFar, Set
  <2> QED
      BY <2>1 DEF Backed, Set
<1> QED
    BY <1>1, Invariant, PTL

\* In a /resolve answer an error stands exactly where nothing else does: the error
\* of one endpoint does not outlive another that was resolved, and is not lost.
THEOREM ErrorsMeanNothing == Spec => []ErrorMeansNothing
<1>1. Inv => ErrorMeansNothing
      BY DEF Inv, ErrorsSoFar, ErrorMeansNothing
<1> QED
    BY <1>1, Invariant, PTL

\* The answer about a DID has the endpoints that did not throw, all of them, in
\* order: what one endpoint's failure does ends with that endpoint.
THEOREM AllAccounted == Spec => []EndpointsAccounted
<1>1. Inv => EndpointsAccounted
  <2> SUFFICES ASSUME Inv, NEW r \in Set(results), r.doc
               PROVE  \E at \in [1..Len(r.endpoints) -> 1..Len(r.offered)] :
                         /\ \A i, j \in DOMAIN at : i < j => at[i] < at[j]
                         /\ \A i \in DOMAIN at : r.endpoints[i].ep = r.offered[at[i]]
                         /\ \A k \in 1..Len(r.offered) :
                               <<r.did, k>> \notin failures <=> \E i \in DOMAIN at : at[i] = k
      BY DEF EndpointsAccounted
  <2>1. PICK f \in [1..Len(r.endpoints) -> 1..Len(r.offered)] : Accounts(f, r, Len(r.offered))
        BY DEF Inv, EndpointsSoFar, Accounted
  <2>2. DOMAIN f = 1..Len(r.endpoints)
        BY <2>1
  <2> WITNESS f \in [1..Len(r.endpoints) -> 1..Len(r.offered)]
  <2> QED
      BY <2>1, <2>2 DEF Accounts
<1> QED
    BY <1>1, Invariant, PTL

\* /resolve answers 200 whatever fails, with every pointer in its place and every
\* DID they led to exactly once.
THEOREM AllAnswered == Spec => []EverythingAnswered
<1>1. Inv => EverythingAnswered
  <2> SUFFICES ASSUME Inv, op = "resolve", status # Nil
               PROVE  /\ status = 200
                      /\ asked = [i \in 1..Len(rePtrs) |-> rePtrs[i].pointer]
                      /\ {r.did : r \in Set(results)} = UNION {p.dids : p \in Set(rePtrs)}
                      /\ \A i, j \in 1..Len(results) : results[i].did = results[j].did => i = j
      BY DEF EverythingAnswered
  <2>1. pc = "idle"
        BY DEF Inv, Control
  <2>2. /\ status = 200 /\ todo = {} /\ resolved = Done \cup todo
        /\ \A i, j \in 1..Len(results) : results[i].did = results[j].did => i = j
    <3>1. DidsSoFar
          BY DEF Inv
    <3> QED
        BY <2>1, <3>1 DEF DidsSoFar
  <2>3. /\ Len(asked) = Len(rePtrs) + Len(ptrs) /\ ptrs = <<>>
        /\ \A i \in 1..Len(rePtrs) : asked[i] = rePtrs[i].pointer
        /\ resolved = UNION {rePtrs[i].dids : i \in 1..Len(rePtrs)}
        BY <2>1 DEF Inv, PointersSoFar
  <2>4. asked = [i \in 1..Len(rePtrs) |-> rePtrs[i].pointer]
    <3>1. asked \in Seq(Pointers) \/ asked \in Seq(Endpoints)
      <4>1. asked \in PtrLists \cup AllEpLists \cup {<<>>}
            BY DEF Inv, TypeOK
      <4>2. <<>> \in Seq(Endpoints)
            OBVIOUS
      <4>3. PtrLists \subseteq Seq(Pointers) /\ AllEpLists \subseteq Seq(Endpoints)
            BY EpListsAreSeqs
      <4> QED
          BY ONLY <4>1, <4>2, <4>3
    <3>2. rePtrs \in Seq(ResolvedPointer)
          BY DEF Inv, TypeOK
    <3>3. Len(asked) = Len(rePtrs)
          BY <2>3, <3>2
    <3>4. asked = [i \in 1..Len(asked) |-> asked[i]]
          BY <3>1
    <3> QED
        BY <2>3, <3>3, <3>4
  <2>5. {r.did : r \in Set(results)} = Done
        BY DEF Set, Done
  <2>6. {p.dids : p \in Set(rePtrs)} = {rePtrs[i].dids : i \in 1..Len(rePtrs)}
        BY DEF Set
  <2>7. Done = resolved
        BY <2>2
  <2>8. {r.did : r \in Set(results)} = UNION {p.dids : p \in Set(rePtrs)}
        BY ONLY <2>3, <2>5, <2>6, <2>7
  <2> QED
      BY <2>2, <2>4, <2>8
<1> QED
    BY <1>1, Invariant, PTL
=============================================================================
