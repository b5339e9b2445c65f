--------------------------- MODULE TrustListProofs ---------------------------
(***************************************************************************)
(* Proofs about TrustListResolver, for any number of threads, addresses,   *)
(* documents and algorithms.                                               *)
(***************************************************************************)
EXTENDS TrustListResolver, TLAPS

USE NilAssumption, ShapeAssumption, ObjsAssumption

LEMMA TypeInit == Init => TypeOK
BY DEF Init, TypeOK, Blank, TrustListWithHash, Labels

\* The answer a thread that holds an object gives.
LEMMA ResultType ==
    ASSUME TypeOK, NEW t \in Threads, entry[t] # Nil, NEW ok \in BOOLEAN
    PROVE  /\ Result(t, ok) \in Results
           /\ Result(t, ok) \in Answers
           /\ Result(t, ok) # Nil
           /\ Result(t, ok).verified = ok
           /\ Result(t, ok).list = heap[entry[t]].list
<1>1. Result(t, ok) \in Results
      BY DEF Result, Results, TypeOK, TrustListWithHash
<1> QED
    BY <1>1 DEF Result, Answers

LEMMA TypeStep == TypeOK /\ CallShape /\ [Next]_vars => TypeOK' /\ CallShape'
<1> SUFFICES ASSUME TypeOK, CallShape, [Next]_vars
             PROVE  TypeOK' /\ CallShape'
    OBVIOUS
<1> USE DEF TypeOK, CallShape, Labels, Holding, Goto, Finish, locals, Uri, Hash,
            Answered, Requests
<1>1. CASE UNCHANGED vars
      BY <1>1 DEF vars
<1>2. ASSUME NEW t \in Threads, Start(t)
      PROVE  TypeOK' /\ CallShape'
      BY <1>2 DEF Start
<1>3. ASSUME NEW t \in Threads, Hit(t)
      PROVE  TypeOK' /\ CallShape'
      BY <1>3 DEF Hit
<1>4. ASSUME NEW t \in Threads, Miss(t)
      PROVE  TypeOK' /\ CallShape'
      BY <1>4 DEF Miss
<1>5. ASSUME NEW t \in Threads, Fetch(t)
      PROVE  TypeOK' /\ CallShape'
      BY <1>5 DEF Fetch
<1>6. ASSUME NEW t \in Threads, FetchFails(t)
      PROVE  TypeOK' /\ CallShape'
      BY <1>6 DEF FetchFails, Null, Threw, Answers
<1>7. ASSUME NEW t \in Threads, ParseLocally(t)
      PROVE  TypeOK' /\ CallShape'
      BY <1>7 DEF ParseLocally, ListOf
<1>8. ASSUME NEW t \in Threads, ParseFails(t)
      PROVE  TypeOK' /\ CallShape'
      BY <1>8 DEF ParseFails, Failure, Null, Threw, Answers
<1>9. ASSUME NEW t \in Threads, Unmarshal(t)
      PROVE  TypeOK' /\ CallShape'
  <2>1. \A s \in Threads : pc[s] = "parsing" \/ s = t => doc[s] \in Contents
        BY <1>9 DEF Unmarshal
  <2>2. overlap' \in [Threads -> SUBSET Contents]
        BY <1>9, <2>1 DEF Unmarshal
  <2> QED
      BY <1>9, <2>2 DEF Unmarshal
<1>10. ASSUME NEW t \in Threads, Unmarshalled(t)
      PROVE  TypeOK' /\ CallShape'
      BY <1>10 DEF Unmarshalled, ListOf
<1>11. ASSUME NEW t \in Threads, UnmarshalFails(t)
      PROVE  TypeOK' /\ CallShape'
      BY <1>11 DEF UnmarshalFails, Failure, Null, Threw, Answers
<1>12. ASSUME NEW t \in Threads, Install(t)
      PROVE  TypeOK' /\ CallShape'
      BY <1>12 DEF Install, TrustListWithHash
<1>13. ASSUME NEW t \in Threads, ReturnList(t)
      PROVE  TypeOK' /\ CallShape'
      BY <1>13, ResultType DEF ReturnList
<1>14. ASSUME NEW t \in Threads, DecodeFails(t)
      PROVE  TypeOK' /\ CallShape'
      BY <1>14 DEF DecodeFails, Null, Threw, Answers
<1>15. ASSUME NEW t \in Threads, CheckHash(t)
      PROVE  TypeOK' /\ CallShape'
      BY <1>15 DEF CheckHash
<1>16. ASSUME NEW t \in Threads, DigestFails(t)
      PROVE  TypeOK' /\ CallShape'
      BY <1>16, ResultType DEF DigestFails
<1>17. ASSUME NEW t \in Threads, Digest(t)
      PROVE  TypeOK' /\ CallShape'
      BY <1>17 DEF Digest, Hashes, TrustListWithHash
<1>18. ASSUME NEW t \in Threads, SetHash(t)
      PROVE  TypeOK' /\ CallShape'
  <2>1. entry[t] \in Objs /\ heap[entry[t]] \in TrustListWithHash
        BY <1>18 DEF SetHash
  <2>2. TlHash(t) \in Hashes
        BY <1>18 DEF SetHash, TlHash, Hashes
  <2>3. [heap[entry[t]] EXCEPT !.hash = TlHash(t)] \in TrustListWithHash
        BY <2>1, <2>2 DEF TrustListWithHash
  <2>4. heap' \in [Objs -> TrustListWithHash]
        BY <1>18, <2>1, <2>3 DEF SetHash
  <2> QED
      BY <1>18, <2>4 DEF SetHash
<1>19. ASSUME NEW t \in Threads, ClearContent(t)
      PROVE  TypeOK' /\ CallShape'
  <2>1. entry[t] \in Objs /\ heap[entry[t]] \in TrustListWithHash
        BY <1>19 DEF ClearContent
  <2>2. [heap[entry[t]] EXCEPT !.content = Nil] \in TrustListWithHash
        BY <2>1 DEF TrustListWithHash
  <2>3. heap' \in [Objs -> TrustListWithHash]
        BY <1>19, <2>1, <2>2 DEF ClearContent
  <2> QED
      BY <1>19, <2>3 DEF ClearContent
<1>20. ASSUME NEW t \in Threads, PutBack(t)
      PROVE  TypeOK' /\ CallShape'
      BY <1>20, ResultType DEF PutBack
<1>21. ASSUME NEW t \in Threads, Compare(t)
      PROVE  TypeOK' /\ CallShape'
      BY <1>21, ResultType DEF Compare
<1>22. ASSUME NEW u \in Uris, Publish(u)
      PROVE  TypeOK' /\ CallShape'
      BY <1>22 DEF Publish
<1>23. ASSUME NEW u \in Uris, Expire(u)
      PROVE  TypeOK' /\ CallShape'
      BY <1>23 DEF Expire
<1> QED
    BY <1>1, <1>2, <1>3, <1>4, <1>5, <1>6, <1>7, <1>8, <1>9, <1>10, <1>11, <1>12, <1>13, <1>14, <1>15, <1>16, <1>17, <1>18, <1>19, <1>20, <1>21, <1>22, <1>23
    DEF Next, Step, GetTrustListWithHash, Verify

LEMMA InvInit == Init => Inv
BY TypeInit DEF Init, Inv, CallShape, Verifiable, Provenance, DigestFaithful,
   ListsPublished, VerdictSound, Verified, Answered, Blank, Holding

LEMMA InvStep == Inv /\ [Next]_vars => Inv'
<1> SUFFICES ASSUME Inv, [Next]_vars
             PROVE  Inv'
    OBVIOUS
<1> TypeOK' /\ CallShape'
    BY TypeStep DEF Inv
<1> SUFFICES (Verifiable /\ Provenance /\ DigestFaithful /\ ListsPublished /\ VerdictSound)'
    BY DEF Inv
<1> USE DEF Inv, TypeOK, CallShape, Verifiable, Provenance, DigestFaithful,
            ListsPublished, VerdictSound, Verified, Attested, SomewherePublished,
            Labels, Holding, Goto, Finish, locals, Uri, Hash,
            Answered, Null, Threw, Answers, Results, Result, TrustListWithHash, Requests
<1>1. CASE UNCHANGED vars
      BY <1>1 DEF vars
<1>2. ASSUME NEW t \in Threads, Start(t)
      PROVE  (Verifiable /\ Provenance /\ DigestFaithful /\ ListsPublished /\ VerdictSound)'
      BY <1>2 DEF Start
<1>3. ASSUME NEW t \in Threads, Hit(t)
      PROVE  (Verifiable /\ Provenance /\ DigestFaithful /\ ListsPublished /\ VerdictSound)'
      BY <1>3 DEF Hit
<1>4. ASSUME NEW t \in Threads, Miss(t)
      PROVE  (Verifiable /\ Provenance /\ DigestFaithful /\ ListsPublished /\ VerdictSound)'
      BY <1>4 DEF Miss
<1>5. ASSUME NEW t \in Threads, Fetch(t)
      PROVE  (Verifiable /\ Provenance /\ DigestFaithful /\ ListsPublished /\ VerdictSound)'
      BY <1>5 DEF Fetch
<1>6. ASSUME NEW t \in Threads, FetchFails(t)
      PROVE  (Verifiable /\ Provenance /\ DigestFaithful /\ ListsPublished /\ VerdictSound)'
      BY <1>6 DEF FetchFails
<1>7. ASSUME NEW t \in Threads, ParseLocally(t)
      PROVE  (Verifiable /\ Provenance /\ DigestFaithful /\ ListsPublished /\ VerdictSound)'
      BY <1>7 DEF ParseLocally, ListOf
<1>8. ASSUME NEW t \in Threads, ParseFails(t)
      PROVE  (Verifiable /\ Provenance /\ DigestFaithful /\ ListsPublished /\ VerdictSound)'
      BY <1>8 DEF ParseFails, Failure
<1>9. ASSUME NEW t \in Threads, Unmarshal(t)
      PROVE  (Verifiable /\ Provenance /\ DigestFaithful /\ ListsPublished /\ VerdictSound)'
      BY <1>9 DEF Unmarshal
<1>10. ASSUME NEW t \in Threads, Unmarshalled(t)
      PROVE  (Verifiable /\ Provenance /\ DigestFaithful /\ ListsPublished /\ VerdictSound)'
      BY <1>10 DEF Unmarshalled, ListOf
<1>11. ASSUME NEW t \in Threads, UnmarshalFails(t)
      PROVE  (Verifiable /\ Provenance /\ DigestFaithful /\ ListsPublished /\ VerdictSound)'
      BY <1>11 DEF UnmarshalFails, Failure
<1>12. ASSUME NEW t \in Threads, Install(t)
      PROVE  (Verifiable /\ Provenance /\ DigestFaithful /\ ListsPublished /\ VerdictSound)'
      BY <1>12 DEF Install, Live
<1>13. ASSUME NEW t \in Threads, ReturnList(t)
      PROVE  (Verifiable /\ Provenance /\ DigestFaithful /\ ListsPublished /\ VerdictSound)'
      BY <1>13 DEF ReturnList
<1>14. ASSUME NEW t \in Threads, DecodeFails(t)
      PROVE  (Verifiable /\ Provenance /\ DigestFaithful /\ ListsPublished /\ VerdictSound)'
      BY <1>14 DEF DecodeFails
<1>15. ASSUME NEW t \in Threads, CheckHash(t)
      PROVE  (Verifiable /\ Provenance /\ DigestFaithful /\ ListsPublished /\ VerdictSound)'
      BY <1>15 DEF CheckHash
<1>16. ASSUME NEW t \in Threads, DigestFails(t)
      PROVE  (Verifiable /\ Provenance /\ DigestFaithful /\ ListsPublished /\ VerdictSound)'
      BY <1>16 DEF DigestFails
<1>17. ASSUME NEW t \in Threads, Digest(t)
      PROVE  (Verifiable /\ Provenance /\ DigestFaithful /\ ListsPublished /\ VerdictSound)'
      BY <1>17 DEF Digest, Hashes
<1>18. ASSUME NEW t \in Threads, SetHash(t)
      PROVE  (Verifiable /\ Provenance /\ DigestFaithful /\ ListsPublished /\ VerdictSound)'
      BY <1>18 DEF SetHash, TlHash, Hashes
<1>19. ASSUME NEW t \in Threads, ClearContent(t)
      PROVE  (Verifiable /\ Provenance /\ DigestFaithful /\ ListsPublished /\ VerdictSound)'
      BY <1>19 DEF ClearContent
<1>20. ASSUME NEW t \in Threads, PutBack(t)
      PROVE  (Verifiable /\ Provenance /\ DigestFaithful /\ ListsPublished /\ VerdictSound)'
  <2>1. entry[t] # Nil /\ (Hash(t) = TlHash(t) => Attested(t))
        BY <1>20 DEF PutBack, TlHash, Hashes
  <2>2. answer'[t] = Result(t, Hash(t) = TlHash(t))
        BY <1>20 DEF PutBack
  <2>3. answer'[t].verified = (Hash(t) = TlHash(t)) /\ answer'[t].list = heap[entry[t]].list
        BY <2>1, <2>2, ResultType
  <2> HIDE DEF Result
  <2>4. (Verifiable /\ Provenance /\ DigestFaithful)'
        BY <1>20, SMTT(30) DEF PutBack
  <2>5. ListsPublished'
        BY <1>20, <2>1, <2>3, SMTT(30) DEF PutBack
  <2>6. VerdictSound'
        BY <1>20, <2>1, <2>3, SMTT(30) DEF PutBack
  <2> QED
      BY <2>4, <2>5, <2>6
<1>21. ASSUME NEW t \in Threads, Compare(t)
      PROVE  (Verifiable /\ Provenance /\ DigestFaithful /\ ListsPublished /\ VerdictSound)'
  <2>1. entry[t] # Nil /\ (Hash(t) = heap[entry[t]].hash => Attested(t))
        BY <1>21 DEF Compare, Hashes
  <2>2. answer'[t] = Result(t, Hash(t) = heap[entry[t]].hash)
        BY <1>21 DEF Compare
  <2>3. answer'[t].verified = (Hash(t) = heap[entry[t]].hash) /\ answer'[t].list = heap[entry[t]].list
        BY <2>1, <2>2, ResultType
  <2> HIDE DEF Result
  <2>4. (Verifiable /\ Provenance /\ DigestFaithful)'
        BY <1>21, SMTT(30) DEF Compare
  <2>5. ListsPublished'
        BY <1>21, <2>1, <2>3, SMTT(30) DEF Compare
  <2>6. VerdictSound'
        BY <1>21, <2>1, <2>3, SMTT(30) DEF Compare
  <2> QED
      BY <2>4, <2>5, <2>6
<1>22. ASSUME NEW u \in Uris, Publish(u)
      PROVE  (Verifiable /\ Provenance /\ DigestFaithful /\ ListsPublished /\ VerdictSound)'
      BY <1>22 DEF Publish
<1>23. ASSUME NEW u \in Uris, Expire(u)
      PROVE  (Verifiable /\ Provenance /\ DigestFaithful /\ ListsPublished /\ VerdictSound)'
      BY <1>23 DEF Expire
<1> QED
    BY <1>1, <1>2, <1>3, <1>4, <1>5, <1>6, <1>7, <1>8, <1>9, <1>10, <1>11, <1>12, <1>13, <1>14, <1>15, <1>16, <1>17, <1>18, <1>19, <1>20, <1>21, <1>22, <1>23
    DEF Next, Step, GetTrustListWithHash, Verify
THEOREM Invariance == Spec => []Inv
<1>1. Init => Inv
      BY InvInit
<1>2. Inv /\ [Next]_vars => Inv'
      BY InvStep
<1> QED
    BY <1>1, <1>2, PTL DEF Spec

\* Every variable keeps its type: no thread works on an object, a document or
\* an answer of another kind than the code's declarations say.
THEOREM TypeCorrect == Spec => []TypeOK
<1>1. Inv => TypeOK
      BY DEF Inv
<1> QED
    BY <1>1, Invariance, PTL

\* A verified answer is about the content the VC attests, and that content was
\* served at the trust list's address.
THEOREM VerifiedIsAttested == Spec => []VerdictSound
<1>1. Inv => VerdictSound
      BY DEF Inv
<1> QED
    BY <1>1, Invariance, PTL

\* No interleaving leaves an object with neither its content nor a hash of it.
THEOREM AlwaysVerifiable == Spec => []Verifiable
<1>1. Inv => Verifiable
      BY DEF Inv
<1> QED
    BY <1>1, Invariance, PTL

----------------------------------------------------------------------------
(* With a single digest algorithm the hash of an object never changes. *)

OneAlgo == \A x, y \in Algos : x = y

\* Two hashes of one content are equal when there is one algorithm.
LEMMA HashUnique ==
    ASSUME OneAlgo, NEW g \in Hashes, NEW h \in Hashes,
           g.algo \in Algos, h.algo \in Algos, g.of = h.of
    PROVE  g = h
BY DEF OneAlgo, Hashes

LEMMA HashStableStep ==
    ASSUME OneAlgo, Inv, [Next]_vars, NEW s \in Threads,
           entry[s] # Nil, heap[entry[s]].hash # Nil
    PROVE  heap'[entry[s]].hash = heap[entry[s]].hash
<1> DEFINE o == entry[s]
<1>1. /\ o \in Objs /\ heap[o].orig # Nil /\ heap[o].hash \in Hashes
      /\ heap[o].hash.of = heap[o].orig /\ heap[o].hash.algo \in Algos
      BY DEF Inv, TypeOK, CallShape, Provenance, Verifiable, TrustListWithHash, Uri, Requests
<1>2. ASSUME NEW t \in Threads, SetHash(t)
      PROVE  heap'[o].hash = heap[o].hash
  <2>1. CASE entry[t] # o
        BY <1>1, <1>2, <2>1 DEF SetHash, Inv, TypeOK, CallShape, Holding, Goto
  <2>2. CASE entry[t] = o
    <3>1. TlHash(t) \in Hashes /\ TlHash(t).algo \in Algos /\ TlHash(t).of = heap[o].orig
          BY <1>1, <1>2, <2>2
          DEF SetHash, TlHash, Hashes, Inv, TypeOK, CallShape, DigestFaithful, Goto, Hash
    <3>2. TlHash(t) = heap[o].hash
          BY <1>1, <3>1, HashUnique
    <3> QED
        BY <1>1, <1>2, <2>2, <3>2 DEF SetHash, Inv, TypeOK, TrustListWithHash
  <2> QED
      BY <2>1, <2>2
<1>3. ASSUME NEW t \in Threads, ClearContent(t)
      PROVE  heap'[o].hash = heap[o].hash
      BY <1>1, <1>3 DEF ClearContent, Inv, TypeOK, TrustListWithHash, CallShape, Holding, Goto
<1>4. ASSUME NEW t \in Threads, Install(t)
      PROVE  heap'[o].hash = heap[o].hash
      BY <1>1, <1>4 DEF Install, Live, Inv, TypeOK
<1>5. ASSUME heap' = heap
      PROVE  heap'[o].hash = heap[o].hash
      BY <1>5
<1>6. \/ heap' = heap
      \/ \E t \in Threads : SetHash(t) \/ ClearContent(t) \/ Install(t)
      BY DEF Next, Step, GetTrustListWithHash, Verify, vars, Start, Hit, Miss, Fetch,
             FetchFails, ParseLocally, ParseFails, Failure, Unmarshal, Unmarshalled,
             UnmarshalFails, Failure, ReturnList, DecodeFails, CheckHash, DigestFails, Digest,
             PutBack, Compare, Publish, Expire
<1> QED
    BY <1>2, <1>3, <1>4, <1>5, <1>6

\* What every thread that holds the object may rely on: its hash is final.
THEOREM HashIsFinal == OneAlgo /\ Spec => HashStable
<1> SUFFICES ASSUME OneAlgo
             PROVE  Spec => HashStable
    OBVIOUS
<1>1. Inv /\ [Next]_vars =>
        [\A t \in Threads :
            entry[t] # Nil /\ heap[entry[t]].hash # Nil =>
                heap'[entry[t]].hash = heap[entry[t]].hash]_vars
      BY HashStableStep
<1> QED
    BY <1>1, Invariance, PTL DEF Spec, HashStable

LEMMA RejectStep ==
    ASSUME OneAlgo, Inv, [Next]_vars, NEW s \in Threads,
           pc[s] # "idle", Answered(s)', Attested(s), ~Verified(s)'
    PROVE  pc[s] = "digest" /\ heap[entry[s]].content = Nil
<1> USE DEF Inv, TypeOK, CallShape, Labels, Goto, Finish, Answered
<1>1. answer[s] = Nil /\ answer'[s] # Nil /\ Hash(s) \in Hashes /\ Hash(s) # ListOnly
      BY NilAssumption DEF Attested
<1>2. ASSUME PutBack(s)
      PROVE  FALSE
  <2>1. TlHash(s) \in Hashes /\ TlHash(s).algo = Hash(s).algo /\ TlHash(s).of = Hash(s).of
        BY <1>1, <1>2 DEF PutBack, TlHash, Hashes, DigestFaithful, Attested
  <2>2. Hash(s) = TlHash(s)
        BY <1>1, <2>1, HashUnique DEF Attested
  <2> QED
      BY <1>2, <2>2 DEF PutBack, Result, Verified
<1>3. ASSUME Compare(s)
      PROVE  FALSE
  <2>1. entry[s] \in Objs /\ heap[entry[s]] \in TrustListWithHash
        BY <1>3 DEF Compare, Holding
  <2>2. heap[entry[s]].hash # Nil /\ heap[entry[s]].orig # Nil
        BY <1>3, <1>1, <2>1 DEF Compare, DigestFaithful, Attested, Hashes
  <2>3. /\ heap[entry[s]].hash \in Hashes /\ heap[entry[s]].hash.algo \in Algos
        /\ heap[entry[s]].hash.of = Hash(s).of
        BY <2>1, <2>2 DEF Verifiable, TrustListWithHash, Attested
  <2>4. Hash(s) = heap[entry[s]].hash
        BY <1>1, <2>3, HashUnique DEF Attested
  <2> QED
      BY <1>3, <2>4 DEF Compare, Result, Verified
<1>4. ASSUME DigestFails(s)
      PROVE  pc[s] = "digest" /\ heap[entry[s]].content = Nil
      BY <1>4 DEF DigestFails, Attested
<1>5. ASSUME FetchFails(s) \/ ParseFails(s) \/ UnmarshalFails(s) \/ DecodeFails(s)
      PROVE  FALSE
      BY <1>1, <1>5 DEF FetchFails, ParseFails, UnmarshalFails, Failure, DecodeFails, Null, Threw
<1>6. ~ReturnList(s)
      BY <1>1 DEF ReturnList
<1>7. ASSUME NEW t \in Threads, Step(t), t # s
      PROVE  answer'[s] = answer[s]
      BY <1>7 DEF Step, GetTrustListWithHash, Verify, Hit, Miss, Fetch,
             FetchFails, ParseLocally, ParseFails, Failure, Unmarshal, Unmarshalled,
             UnmarshalFails, Failure, Install, ReturnList, DecodeFails, CheckHash, DigestFails,
             Digest, SetHash, ClearContent, PutBack, Compare
<1>8. ASSUME Hit(s) \/ Miss(s) \/ Fetch(s) \/ ParseLocally(s) \/ Unmarshal(s)
               \/ Unmarshalled(s) \/ Install(s) \/ CheckHash(s) \/ Digest(s)
               \/ SetHash(s) \/ ClearContent(s)
      PROVE  answer'[s] = answer[s]
      BY <1>8 DEF Hit, Miss, Fetch, ParseLocally, Unmarshal, Unmarshalled, Install,
                  CheckHash, Digest, SetHash, ClearContent
<1>9. ASSUME \/ \E t \in Threads : Start(t)
             \/ \E u \in Uris : Publish(u) \/ Expire(u)
             \/ UNCHANGED vars
      PROVE  answer'[s] \in {answer[s], Nil}
      BY <1>9 DEF Start, Publish, Expire, vars
<1> QED
    BY <1>1, <1>2, <1>3, <1>4, <1>5, <1>6, <1>7, <1>8, <1>9
    DEF Next, Step, GetTrustListWithHash, Verify

\* A matching hash is rejected only by a call that found no hash and then, in
\* getContent().getBytes(), no content: two calls of one object overlapped.
THEOREM OnlyOverlapRejects == OneAlgo /\ Spec => OnlyLostContentRejects
<1> SUFFICES ASSUME OneAlgo
             PROVE  Spec => OnlyLostContentRejects
    OBVIOUS
<1>1. Inv /\ [Next]_vars =>
        [\A t \in Threads :
            (pc[t] # "idle" /\ Answered(t)' /\ Attested(t) /\ ~Verified(t)') =>
            pc[t] = "digest" /\ heap[entry[t]].content = Nil]_vars
      BY RejectStep
<1> QED
    BY <1>1, Invariance, PTL DEF Spec, OnlyLostContentRejects

----------------------------------------------------------------------------
(* What holds of a verdict while no other call interferes *)

OneThread == \A s, t \in Threads : s = t

\* A thread that is to compute the digest found no hash, and nobody set one since.
DigestNeeded == \A t \in Threads : pc[t] = "digest" => heap[entry[t]].hash = Nil

\* A step that answers changes no object, nor which one the answer came from.
LEMMA AnswerStep ==
    ASSUME TypeOK, CallShape, [Next]_vars, NEW s \in Threads, OneThread, Answered(s)'
    PROVE  \/ pc[s] = "idle" /\ answer'[s] = answer[s] /\ entry' = entry /\ req' = req /\ heap' = heap
           \/ pc[s] # "idle" /\ entry' = entry /\ req' = req /\ heap' = heap
<1> USE DEF TypeOK, CallShape, Goto, Finish, Answered, locals
<1>1. ASSUME NEW t \in Threads, Start(t)
      PROVE  FALSE
      BY <1>1 DEF Start, OneThread
<1>2. ASSUME NEW t \in Threads,
             \/ Hit(t) \/ Miss(t) \/ Fetch(t) \/ ParseLocally(t) \/ Unmarshal(t)
             \/ Unmarshalled(t) \/ Install(t) \/ CheckHash(t) \/ Digest(t)
             \/ SetHash(t) \/ ClearContent(t)
      PROVE  FALSE
  <2>1. t = s /\ answer' = answer /\ pc[t] # "idle"
        BY <1>2 DEF OneThread, Hit, Miss, Fetch, ParseLocally, Unmarshal, Unmarshalled,
                    Install, CheckHash, Digest, SetHash, ClearContent
  <2> QED
      BY <2>1
<1>3. ASSUME NEW t \in Threads,
             \/ FetchFails(t) \/ ParseFails(t) \/ UnmarshalFails(t)
             \/ ReturnList(t) \/ DecodeFails(t) \/ DigestFails(t)
             \/ PutBack(t) \/ Compare(t)
      PROVE  t = s /\ pc[t] # "idle" /\ entry' = entry /\ req' = req /\ heap' = heap
      BY <1>3 DEF OneThread, FetchFails, ParseFails, UnmarshalFails, Failure, ReturnList,
                  DecodeFails, DigestFails, PutBack, Compare
<1>4. ASSUME \/ \E u \in Uris : Publish(u) \/ Expire(u)
             \/ UNCHANGED vars
      PROVE  answer' = answer /\ entry' = entry /\ req' = req /\ heap' = heap
      BY <1>4 DEF Publish, Expire, vars
<1> QED
    BY <1>1, <1>2, <1>3, <1>4 DEF Next, Step, GetTrustListWithHash, Verify

LEMMA DigestNeededStep ==
    ASSUME OneThread, TypeOK, CallShape, DigestNeeded, [Next]_vars
    PROVE  DigestNeeded'
<1> SUFFICES ASSUME NEW s \in Threads, pc'[s] = "digest"
             PROVE  heap'[entry'[s]].hash = Nil
    BY DEF DigestNeeded
<1> USE DEF TypeOK, CallShape, Labels, Goto, Finish, locals
<1>1. ASSUME NEW t \in Threads, Start(t) \/ Step(t), ~CheckHash(t)
      PROVE  pc'[t] # "digest"
      BY <1>1 DEF Start, Step, GetTrustListWithHash, Verify, Hit, Miss, Fetch,
             FetchFails, ParseLocally, ParseFails, Failure, Unmarshal, Unmarshalled,
             UnmarshalFails, Failure, Install, ReturnList, DecodeFails, DigestFails,
             Digest, SetHash, ClearContent, PutBack, Compare
<1>2. ASSUME NEW t \in Threads, CheckHash(t)
      PROVE  heap'[entry'[s]].hash = Nil
  <2>1. t = s /\ heap' = heap /\ entry' = entry
        BY <1>2 DEF CheckHash, OneThread
  <2> QED
      BY <1>2, <2>1 DEF CheckHash
<1>3. ASSUME \/ \E u \in Uris : Publish(u) \/ Expire(u)
             \/ UNCHANGED vars
      PROVE  heap'[entry'[s]].hash = Nil
      BY <1>3 DEF Publish, Expire, vars, DigestNeeded
<1> QED
    BY <1>1, <1>2, <1>3 DEF Next, OneThread

LEMMA MatchStep ==
    ASSUME OneThread, OneAlgo, Inv, DigestNeeded, MatchIsVerified, [Next]_vars
    PROVE  MatchIsVerified'
<1> SUFFICES ASSUME NEW s \in Threads, Answered(s)', Attested(s)', ~Verified(s)'
             PROVE  FALSE
    BY DEF MatchIsVerified, Verified
<1>1. Inv /\ TypeOK /\ CallShape /\ Verifiable /\ Provenance
      BY DEF Inv
<1>2. CASE pc[s] = "idle" /\ answer'[s] = answer[s] /\ entry' = entry /\ req' = req /\ heap' = heap
      BY <1>2 DEF MatchIsVerified, Answered, Attested, Verified, Hash
<1>3. CASE pc[s] # "idle" /\ entry' = entry /\ req' = req /\ heap' = heap
  <2>1. Attested(s)
        BY <1>3 DEF Attested, Hash
  <2>2. pc[s] = "digest" /\ heap[entry[s]].content = Nil
        BY <1>1, <1>3, <2>1, RejectStep
  <2>3. entry[s] # Nil /\ entry[s] \in Objs
        BY <1>1, <2>2 DEF TypeOK, CallShape, Holding
  <2>4. heap[entry[s]].orig # Nil
        BY <1>1, <2>3 DEF TypeOK, CallShape, Provenance, Uri, Requests
  <2>5. heap[entry[s]].hash # Nil
        BY <1>1, <2>2, <2>3, <2>4 DEF Verifiable
  <2> QED
      BY <2>2, <2>5 DEF DigestNeeded
<1> QED
    BY <1>1, <1>2, <1>3, AnswerStep

\* As long as one call runs at a time, and the VCs use one algorithm, a hash that
\* matches is reported as verified: the rejections of tl_lost_content and
\* tl_algo_mismatch need an overlap, or a second algorithm.
THEOREM AloneMatchIsVerified == OneThread /\ OneAlgo /\ Spec => []MatchIsVerified
<1> SUFFICES ASSUME OneThread, OneAlgo
             PROVE  Spec => []MatchIsVerified
    OBVIOUS
<1> DEFINE J == DigestNeeded /\ MatchIsVerified
<1>1. Init => J
      BY DEF Init, DigestNeeded, MatchIsVerified, Answered
<1>2. Inv /\ J /\ [Next]_vars => J'
      BY DigestNeededStep, MatchStep DEF Inv
<1>3. J => MatchIsVerified
      OBVIOUS
<1> HIDE DEF J
<1> QED
    BY <1>1, <1>2, <1>3, Invariance, PTL DEF Spec

----------------------------------------------------------------------------
(* The list that goes with a verdict while the Unmarshaller is not shared *)

\* At most one call unmarshals at a time, or none ever does.
ParserUnshared == OneThread \/ \A c \in Contents : ~IsXml(c)

\* A list that is kept, or returned, is that of the document the object was
\* built from, or none.
ListsFaithful ==
    /\ \A t \in Threads :
          /\ overlap[t] = {}
          /\ pc[t] = "install" => parsed[t] \in {doc[t], Nil}
          /\ Answered(t) => answer[t].list \in {heap[entry[t]].orig, Nil}
    /\ \A o \in Objs : heap[o].orig # Nil => heap[o].list \in {heap[o].orig, Nil}

LEMMA ListsStep ==
    ASSUME ParserUnshared, Inv, ListsFaithful, [Next]_vars
    PROVE  ListsFaithful'
<1>1. TypeOK /\ CallShape /\ Provenance
      BY DEF Inv
<1>2. \A t \in Threads : entry[t] # Nil => heap[entry[t]].orig # Nil
      BY <1>1 DEF TypeOK, CallShape, Provenance, Uri, Requests
<1> USE DEF TypeOK, CallShape, ListsFaithful, Labels, Holding, Goto, Finish, locals, Answered
<1>3. CASE UNCHANGED vars
      BY <1>3 DEF vars
<1>4. ASSUME NEW t \in Threads, Start(t)
      PROVE  ListsFaithful'
      BY <1>1, <1>4 DEF Start
<1>5. ASSUME NEW t \in Threads, Hit(t) \/ Miss(t) \/ Fetch(t) \/ CheckHash(t) \/ Digest(t)
      PROVE  ListsFaithful'
      BY <1>1, <1>5 DEF Hit, Miss, Fetch, CheckHash, Digest
<1>6. ASSUME NEW t \in Threads, FetchFails(t) \/ ParseFails(t) \/ DecodeFails(t)
      PROVE  ListsFaithful'
      BY <1>1, <1>6 DEF FetchFails, ParseFails, Failure, DecodeFails, Null, Threw
<1>7. ASSUME NEW t \in Threads, ParseLocally(t)
      PROVE  ListsFaithful'
      BY <1>1, <1>7 DEF ParseLocally, ListOf
<1>8. ASSUME NEW t \in Threads, Unmarshal(t)
      PROVE  ListsFaithful'
  <2>1. IsXml(doc[t]) /\ doc[t] \in Contents
        BY <1>1, <1>8 DEF Unmarshal
  <2>2. OneThread
        BY <2>1 DEF ParserUnshared
  <2>3. {s \in Threads : pc[s] = "parsing"} = {}
        BY <1>1, <1>8, <2>2 DEF OneThread, Unmarshal
  <2>4. \A s \in Threads : overlap'[s] = {}
        BY <1>1, <1>8, <2>2, <2>3 DEF OneThread, Unmarshal
  <2> QED
      BY <1>1, <1>8, <2>4 DEF Unmarshal
<1>9. ASSUME NEW t \in Threads, Unmarshalled(t)
      PROVE  ListsFaithful'
      BY <1>1, <1>9 DEF Unmarshalled, ListOf
<1>10. ASSUME NEW t \in Threads, UnmarshalFails(t)
       PROVE  ListsFaithful'
       BY <1>1, <1>10 DEF UnmarshalFails, Failure, Null, Threw
<1>11. ASSUME NEW t \in Threads, Install(t)
       PROVE  ListsFaithful'
       BY <1>1, <1>2, <1>11 DEF Install, Live
<1>12. ASSUME NEW t \in Threads, NEW ok \in BOOLEAN, NEW from \in Labels \ {"idle"},
              Finish(t, from, Result(t, ok)), entry[t] # Nil,
              heap' = heap, entry' = entry, overlap' = overlap, parsed' = parsed
       PROVE  ListsFaithful'
  <2>1. answer'[t].list = heap[entry[t]].list /\ entry[t] \in Objs
        BY <1>1, <1>12, ResultType
  <2> QED
      BY <1>1, <1>2, <1>12, <2>1
<1>13. ASSUME NEW t \in Threads,
              ReturnList(t) \/ DigestFails(t) \/ PutBack(t) \/ Compare(t)
       PROVE  ListsFaithful'
  <2>1. /\ entry[t] # Nil /\ heap' = heap /\ entry' = entry
        /\ overlap' = overlap /\ parsed' = parsed
        BY <1>1, <1>13 DEF ReturnList, DigestFails, PutBack, Compare
  <2>2. \E from \in Labels \ {"idle"}, ok \in BOOLEAN : Finish(t, from, Result(t, ok))
    <3> HIDE DEF Finish
    <3>1. (Hash(t) = TlHash(t)) \in BOOLEAN /\ (Hash(t) = heap[entry[t]].hash) \in BOOLEAN
          OBVIOUS
    <3> QED
        BY <1>13, <3>1 DEF ReturnList, DigestFails, PutBack, Compare
  <2> QED
      BY <1>12, <2>1, <2>2
<1>14. ASSUME NEW t \in Threads, SetHash(t) \/ ClearContent(t)
       PROVE  ListsFaithful'
  <2>1. entry[t] \in Objs
        BY <1>1, <1>14 DEF SetHash, ClearContent
  <2>2. \A o \in Objs : heap'[o].orig = heap[o].orig /\ heap'[o].list = heap[o].list
        BY <1>1, <1>14, <2>1 DEF SetHash, ClearContent, TrustListWithHash
  <2>3. pc'[t] # "install" /\ answer' = answer /\ entry' = entry
        BY <1>1, <1>14 DEF SetHash, ClearContent
  <2> QED
      BY <1>1, <1>14, <2>2, <2>3 DEF SetHash, ClearContent
<1>15. ASSUME NEW u \in Uris, Publish(u) \/ Expire(u)
       PROVE  ListsFaithful'
       BY <1>15 DEF Publish, Expire
<1> QED
    BY <1>3, <1>4, <1>5, <1>6, <1>7, <1>8, <1>9, <1>10, <1>11, <1>13, <1>14, <1>15
    DEF Next, Step, GetTrustListWithHash, Verify

\* The list returned with a verified hash is the one the VC attests, as long as the
\* Unmarshaller is not shared: tl_shared_parser needs two calls that unmarshal.
THEOREM UnsharedListIsAttested == ParserUnshared /\ Spec => []ListIsAttested
<1> SUFFICES ASSUME ParserUnshared
             PROVE  Spec => []ListIsAttested
    OBVIOUS
<1>1. Init => ListsFaithful
      BY DEF Init, ListsFaithful, Answered, Blank
<1>2. Inv /\ ListsFaithful /\ [Next]_vars => ListsFaithful'
      BY ListsStep
<1>3. Inv /\ ListsFaithful => ListIsAttested
      BY DEF Inv, VerdictSound, ListsFaithful, ListIsAttested, Verified, Attested
<1> QED
    BY <1>1, <1>2, <1>3, Invariance, PTL DEF Spec

----------------------------------------------------------------------------
(* The refinement of TrustListVerdict *)

LEMMA RefineInit == Init => Verdict!Init
BY DEF Init, Verdict!Init

\* An answer the detailed specification gives is one the abstract one permits.
LEMMA AnswerPermitted ==
    ASSUME Inv, Inv', NEW t \in Threads, answer'[t] # Nil,
           req' = req, published' = published
    PROVE  answer'[t] \in Verdict!Permitted(req[t])
<1>1. answer'[t] \in {Null, Threw} \cup Results
      BY DEF Inv, TypeOK, Answers
<1>2. CASE answer'[t] \in Results
      BY <1>2 DEF Inv, TypeOK, VerdictSound, Verified, Answered, Attested, ListsPublished,
              SomewherePublished, Results, Hash, Uri, Verdict!Permitted, Verdict!Results,
              Verdict!Hashes, Hashes
<1> QED
    BY <1>1, <1>2 DEF Verdict!Permitted, Verdict!Null, Verdict!Threw, Null, Threw

LEMMA ReplyStep ==
    ASSUME Inv, Inv', NEW t \in Threads, NEW a, pc[t] # "idle", a # Nil,
           answer' = [answer EXCEPT ![t] = a], req' = req, published' = published
    PROVE  Verdict!Reply(t)
<1>1. answer'[t] = a
      BY DEF Inv, TypeOK
<1>2. a \in Verdict!Permitted(req[t])
      BY <1>1, AnswerPermitted
<1> QED
    BY <1>2 DEF Inv, CallShape, Verdict!Reply, Verdict!Pending

LEMMA RefineStep == Inv /\ Inv' /\ [Next]_vars => [Verdict!Next]_Verdict!vars
<1> SUFFICES ASSUME Inv, Inv', [Next]_vars
             PROVE  Verdict!Next \/ UNCHANGED <<published, req, answer>>
    BY DEF Verdict!vars
<1>1. ASSUME NEW t \in Threads, Start(t)
      PROVE  Verdict!Ask(t)
  <2>1. PICK r \in Requests : req' = [req EXCEPT ![t] = r]
        BY <1>1 DEF Start
  <2> QED
      BY <1>1, <2>1 DEF Start, Goto, Inv, CallShape, Verdict!Ask, Verdict!Pending,
         Verdict!Requests, Verdict!Hashes, Requests, Hashes
<1>2. ASSUME NEW t \in Threads,
             \/ FetchFails(t) \/ ParseFails(t) \/ UnmarshalFails(t)
             \/ ReturnList(t) \/ DecodeFails(t) \/ DigestFails(t)
             \/ PutBack(t) \/ Compare(t)
      PROVE  Verdict!Reply(t)
  <2>1. PICK from \in Labels \ {"idle"} : \E a : Finish(t, from, a)
        BY <1>2 DEF FetchFails, ParseFails, UnmarshalFails, Failure, ReturnList, DecodeFails,
                    DigestFails, PutBack, Compare, Labels
  <2>2. PICK a : Finish(t, from, a)
        BY <2>1
  <2>3. pc[t] # "idle" /\ pc'[t] = "idle" /\ answer' = [answer EXCEPT ![t] = a]
        BY <2>2 DEF Finish, Goto, Inv, TypeOK
  <2>4. req' = req /\ published' = published
        BY <1>2 DEF FetchFails, ParseFails, UnmarshalFails, Failure, ReturnList, DecodeFails,
                    DigestFails, PutBack, Compare
  <2>5. a # Nil
        BY <2>3, <2>4 DEF Inv, TypeOK, CallShape
  <2> QED
      BY <2>3, <2>4, <2>5, ReplyStep
<1>3. ASSUME NEW u \in Uris, Publish(u)
      PROVE  Verdict!Publish(u) \/ UNCHANGED <<published, req, answer>>
  <2>1. PICK c \in Contents \cup {Nil} : published' = [published EXCEPT ![u] = @ \cup ({c} \ {Nil})]
        BY <1>3 DEF Publish
  <2>2. CASE c = Nil
        BY <1>3, <2>1, <2>2 DEF Publish, Inv, TypeOK
  <2>3. CASE c \in Contents
    <3>1. {c} \ {Nil} = {c}
          BY <2>3
    <3> QED
        BY <1>3, <2>1, <2>3, <3>1 DEF Publish, Verdict!Publish
  <2> QED
      BY <2>2, <2>3
<1>4. ASSUME NEW t \in Threads,
             \/ Hit(t) \/ Miss(t) \/ Fetch(t) \/ ParseLocally(t) \/ Unmarshal(t)
             \/ Unmarshalled(t) \/ Install(t) \/ CheckHash(t) \/ Digest(t)
             \/ SetHash(t) \/ ClearContent(t)
      PROVE  UNCHANGED <<published, req, answer>>
      BY <1>4 DEF Hit, Miss, Fetch, ParseLocally, Unmarshal, Unmarshalled, Install,
                  CheckHash, Digest, SetHash, ClearContent
<1>5. ASSUME NEW u \in Uris, Expire(u)
      PROVE  UNCHANGED <<published, req, answer>>
      BY <1>5 DEF Expire
<1>6. CASE UNCHANGED vars
      BY <1>6 DEF vars
<1> QED
    BY <1>1, <1>2, <1>3, <1>4, <1>5, <1>6
    DEF Next, Step, GetTrustListWithHash, Verify, Verdict!Next

\* TLResolver keeps the promise of TrustListVerdict.
THEOREM KeepsPromise == Spec => ImplementsVerdict
<1>1. Init => Verdict!Init
      BY RefineInit
<1>2. Inv /\ Inv' /\ [Next]_vars => [Verdict!Next]_Verdict!vars
      BY RefineStep
<1> QED
    BY <1>1, <1>2, Invariance, PTL DEF Spec, ImplementsVerdict, Verdict!Spec
=============================================================================
