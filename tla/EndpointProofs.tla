----------------------------- MODULE EndpointProofs -----------------------------
(***************************************************************************)
(* Proofs about the endpoints DidResolver returns, for any documents: each *)
(* call collects exactly the addresses its services lead to.               *)
(* resolveEndpoint is recursive; the induction is over the nesting in a    *)
(* document, which NestingAssumption says is finite.                       *)
(***************************************************************************)
EXTENDS DidProofs, Induction

----------------------------------------------------------------------------
(* What resolveEndpoint returns                                            *)

\* What it looks at next: the elements of a list, the first value of a map.
Visits(e) ==
    IF e.kind = "list" THEN ToSet(e.of)
    ELSE IF e.kind = "map" /\ e.of # <<>> THEN {e.of[1]} ELSE {}
Leaf(x) == \E u \in Uris : x = [kind |-> "string", of |-> u]

LEMMA EndpointShapes ==
    ASSUME NEW e \in Endpoints
    PROVE  /\ e.kind \in {"string", "list", "map"}
           /\ e.kind = "string" => e.of \in Uris
           /\ e.kind # "string" =>
                 /\ e.of \in Seq(Endpoints) /\ DOMAIN e.of = 1..Len(e.of) /\ Len(e.of) \in Nat
                 /\ \A i \in 1..Len(e.of) : e.of[i] \in Endpoints
                 /\ ToSet(e.of) = {e.of[i] : i \in 1..Len(e.of)}
                 /\ e.of # <<>> => 1 \in 1..Len(e.of)
<1>1. /\ e.kind \in {"string", "list", "map"}
      /\ e.kind = "string" => e.of \in Uris
      /\ e.kind # "string" => e.of \in Seq(Endpoints)
      BY EndpointsAssumption
<1>2. \A s \in Seq(Endpoints) :
          /\ DOMAIN s = 1..Len(s) /\ Len(s) \in Nat
          /\ \A i \in 1..Len(s) : s[i] \in Endpoints
          /\ s # <<>> => 1 \in 1..Len(s)
      OBVIOUS
<1> QED
    BY <1>1, <1>2 DEF ToSet

LEMMA VisitsInside ==
    ASSUME NEW e \in Endpoints
    PROVE  /\ Visits(e) \subseteq Endpoints
           /\ e.kind = "string" => Visits(e) = {}
           /\ e.kind # "string" => Visits(e) \subseteq ToSet(e.of)
<1>1. CASE e.kind = "string"
      BY <1>1 DEF Visits
<1>2. CASE e.kind # "string"
  <2> DEFINE of == e.of
  <2>1. /\ ToSet(of) = {of[i] : i \in 1..Len(of)} /\ \A i \in 1..Len(of) : of[i] \in Endpoints
        /\ of # <<>> => 1 \in 1..Len(of)
        BY <1>2, EndpointShapes
  <2>2. Visits(e) \subseteq ToSet(of) \cup {of[i] : i \in {1} \cap 1..Len(of)}
        BY <2>1 DEF Visits
  <2> HIDE DEF of
  <2>3. Visits(e) \subseteq ToSet(of) /\ ToSet(of) \subseteq Endpoints
        BY <2>1, <2>2
  <2> QED
      BY <1>2, <2>3 DEF of
<1> QED
    BY <1>1, <1>2

\* Nothing visits itself in the end.
LEMMA EndpointsFounded ==
    ASSUME NEW S \in SUBSET Endpoints, NEW T \in SUBSET S, T # {}
    PROVE  \E e \in T : Visits(e) \cap T = {}
<1>1. PICK e \in T : e.kind # "string" => ToSet(e.of) \cap T = {}
      BY NestingAssumption
<1> QED
    BY <1>1, VisitsInside

\* The definition of Breaks.
BreaksAt(e, f) ==
    CASE e.kind = "string" -> FALSE
      [] e.kind = "list" -> \E i \in DOMAIN e.of : f[e.of[i]]
      [] OTHER -> IF e.of = <<>> THEN TRUE ELSE f[e.of[1]]

LEMMA BreaksDefined == \A e \in Endpoints : Breaks[e] = BreaksAt(e, Breaks)
<1> DEFINE below == [e \in Endpoints |-> Visits(e)]
           F == [e \in Endpoints |-> [f \in [Endpoints -> BOOLEAN] |-> BreaksAt(e, f)]]
           Solves(g) == g = [e \in Endpoints |-> BreaksAt(e, g)]
<1>1. Founded(Endpoints, below)
      BY VisitsInside, EndpointsFounded DEF Founded
<1>2. ASSUME NEW e \in Endpoints, NEW f \in [Endpoints -> BOOLEAN]
      PROVE  BreaksAt(e, f) \in BOOLEAN
      BY EndpointShapes DEF BreaksAt
<1>3. ASSUME NEW e \in Endpoints, NEW f \in [Endpoints -> BOOLEAN],
             NEW g \in [Endpoints -> BOOLEAN], \A x \in Visits(e) : f[x] = g[x]
      PROVE  BreaksAt(e, f) = BreaksAt(e, g)
  <2>1. CASE e.kind = "string"
        BY <2>1 DEF BreaksAt
  <2>2. CASE e.kind = "list"
    <3>1. \A i \in DOMAIN e.of : f[e.of[i]] = g[e.of[i]]
          BY <1>3, <2>2, EndpointShapes DEF Visits
    <3> QED
        BY <2>2, <3>1 DEF BreaksAt
  <2>3. CASE e.kind = "map"
    <3>1. e.of # <<>> => f[e.of[1]] = g[e.of[1]]
          BY <1>3, <2>3 DEF Visits
    <3> QED
        BY <2>3, <3>1 DEF BreaksAt
  <2> QED
      BY <2>1, <2>2, <2>3, EndpointShapes
<1>4. Stepwise(Endpoints, below, BOOLEAN, F)
      BY <1>2, <1>3 DEF Stepwise
<1>5. PICK f \in [Endpoints -> BOOLEAN] : \A e \in Endpoints : f[e] = F[e][f]
  <2> DEFINE V == BOOLEAN
             no == FALSE
  <2>1. Founded(Endpoints, below) /\ Stepwise(Endpoints, below, V, F) /\ no \in V
        BY <1>1, <1>4
  <2> HIDE DEF below, F, V, no
  <2>2. \E f \in [Endpoints -> V] : \A e \in Endpoints : f[e] = F[e][f]
        BY <2>1, Recursion
  <2> QED
      BY <2>2 DEF V
<1>6. \A e \in Endpoints : f[e] = BreaksAt(e, f)
      BY <1>5
<1>7. Solves(f)
      BY <1>6
<1>8. Solves(CHOOSE g : Solves(g))
      BY <1>7
<1>9. Solves(Breaks)
      BY <1>8 DEF Breaks, BreaksAt
<1> QED
    BY <1>9

LEMMA VisitsUnbroken ==
    ASSUME NEW e \in Unbroken
    PROVE  /\ Visits(e) \subseteq Unbroken
           /\ e.kind = "map" => e.of # <<>>
<1>1. e \in Endpoints /\ ~BreaksAt(e, Breaks)
      BY BreaksDefined DEF Unbroken
<1>2. CASE e.kind = "string"
      BY <1>2 DEF Visits
<1>3. CASE e.kind = "list"
  <2>1. \A i \in DOMAIN e.of : ~Breaks[e.of[i]]
        BY <1>1, <1>3 DEF BreaksAt
  <2>2. \A x \in Visits(e) : \E i \in DOMAIN e.of : x = e.of[i]
        BY <1>1, <1>3, EndpointShapes DEF Visits
  <2> QED
      BY <1>1, <1>3, <2>1, <2>2, VisitsInside DEF Unbroken
<1>4. CASE e.kind = "map"
  <2>1. e.of # <<>> /\ ~Breaks[e.of[1]]
        BY <1>1, <1>4 DEF BreaksAt
  <2>2. Visits(e) = {e.of[1]}
        BY <1>4, <2>1 DEF Visits
  <2> QED
      BY <1>1, <1>4, <2>1, <2>2, VisitsInside DEF Unbroken
<1> QED
    BY <1>1, <1>2, <1>3, <1>4, EndpointShapes

\* The definition of Flatten.
FlattenAt(e, f) ==
    CASE e.kind = "string" -> <<e.of>>
      [] e.kind = "list" -> FlattenSeq([i \in DOMAIN e.of |-> f[e.of[i]]])
      [] OTHER -> f[e.of[1]]

\* Which addresses it yields, given those of what e visits.
LEMMA FlattenElements ==
    ASSUME NEW e \in Unbroken, NEW f, \A x \in Visits(e) : f[x] \in Seq(Uris)
    PROVE  /\ FlattenAt(e, f) \in Seq(Uris)
           /\ e.kind = "string" => ToSet(FlattenAt(e, f)) = {e.of}
           /\ e.kind # "string" =>
                 \A u : u \in ToSet(FlattenAt(e, f)) <=> \E x \in Visits(e) : u \in ToSet(f[x])
<1>1. e \in Endpoints
      BY DEF Unbroken
<1>2. CASE e.kind = "string"
  <2>1. FlattenAt(e, f) = <<e.of>> /\ e.of \in Uris
        BY <1>1, <1>2, EndpointShapes DEF FlattenAt
  <2>2. <<e.of>> \in Seq(Uris) /\ ToSet(<<e.of>>) = {e.of}
        BY <2>1 DEF ToSet
  <2> QED
      BY <1>2, <2>1, <2>2
<1>3. CASE e.kind = "list"
  <2> DEFINE ss == [i \in DOMAIN e.of |-> f[e.of[i]]]
  <2>1. /\ Visits(e) = {e.of[i] : i \in 1..Len(e.of)}
        /\ DOMAIN e.of = 1..Len(e.of) /\ Len(e.of) \in Nat
        BY <1>1, <1>3, EndpointShapes DEF Visits
  <2>2. \A i \in 1..Len(e.of) : f[e.of[i]] \in Seq(Uris)
        BY <2>1
  <2>3. ss \in [1..Len(e.of) -> Seq(Uris)]
        BY <2>1, <2>2
  <2>4. ss \in Seq(Seq(Uris)) /\ Len(ss) = Len(e.of)
        BY <2>1, <2>3
  <2>5. \A i \in 1..Len(e.of) : ss[i] = f[e.of[i]]
        BY <2>1
  <2>6. FlattenAt(e, f) = FlattenSeq(ss)
        BY <1>3 DEF FlattenAt
  <2> HIDE DEF ss
  <2>7. /\ FlattenSeq(ss) \in Seq(Uris)
        /\ \A u : u \in ToSet(FlattenSeq(ss)) <=> \E i \in 1..Len(ss) : u \in ToSet(ss[i])
        BY <2>4, Flattened
  <2>8. \A u : (\E i \in 1..Len(ss) : u \in ToSet(ss[i])) <=> \E x \in Visits(e) : u \in ToSet(f[x])
        BY <2>1, <2>4, <2>5
  <2> QED
      BY <1>3, <2>6, <2>7, <2>8
<1>4. CASE e.kind = "map"
  <2>1. Visits(e) = {e.of[1]} /\ FlattenAt(e, f) = f[e.of[1]]
        BY <1>4, VisitsUnbroken DEF Visits, FlattenAt
  <2> QED
      BY <1>4, <2>1
<1> QED
    BY <1>1, <1>2, <1>3, <1>4, EndpointShapes

LEMMA FlattenDefined == \A e \in Unbroken : Flatten[e] = FlattenAt(e, Flatten)
<1> DEFINE below == [e \in Unbroken |-> Visits(e)]
           V == Seq(Uris)
           F == [e \in Unbroken |-> [f \in [Unbroken -> V] |-> FlattenAt(e, f)]]
           Solves(g) == g = [e \in Unbroken |-> FlattenAt(e, g)]
<1>1. Founded(Unbroken, below)
  <2>1. Unbroken \in SUBSET Endpoints
        BY DEF Unbroken
  <2> QED
      BY <2>1, VisitsUnbroken, EndpointsFounded DEF Founded
<1>2. ASSUME NEW e \in Unbroken, NEW f \in [Unbroken -> V]
      PROVE  FlattenAt(e, f) \in V
  <2>1. \A x \in Visits(e) : f[x] \in V
        BY VisitsUnbroken
  <2> QED
      BY <2>1, FlattenElements
<1>3. ASSUME NEW e \in Unbroken, NEW f \in [Unbroken -> V],
             NEW g \in [Unbroken -> V], \A x \in Visits(e) : f[x] = g[x]
      PROVE  FlattenAt(e, f) = FlattenAt(e, g)
  <2>0. e \in Endpoints
        BY DEF Unbroken
  <2>1. CASE e.kind = "string"
        BY <2>1 DEF FlattenAt
  <2>2. CASE e.kind = "list"
    <3>1. \A i \in DOMAIN e.of : f[e.of[i]] = g[e.of[i]]
          BY <1>3, <2>0, <2>2, EndpointShapes DEF Visits
    <3>2. [i \in DOMAIN e.of |-> f[e.of[i]]] = [i \in DOMAIN e.of |-> g[e.of[i]]]
          BY <3>1
    <3> QED
        BY <2>2, <3>2 DEF FlattenAt
  <2>3. CASE e.kind = "map"
    <3>1. f[e.of[1]] = g[e.of[1]]
          BY <1>3, <2>3, VisitsUnbroken DEF Visits
    <3> QED
        BY <2>3, <3>1 DEF FlattenAt
  <2> QED
      BY <2>0, <2>1, <2>2, <2>3, EndpointShapes
<1>4. Stepwise(Unbroken, below, V, F)
  <2> HIDE DEF V
  <2>1. F \in [Unbroken -> [[Unbroken -> V] -> V]]
        BY <1>2
  <2> QED
      BY <1>3, <2>1 DEF Stepwise
<1>5. <<>> \in V
      OBVIOUS
<1>6. PICK f \in [Unbroken -> V] : \A e \in Unbroken : f[e] = F[e][f]
  <2> HIDE DEF below, F, V
  <2> QED
      BY <1>1, <1>4, <1>5, Recursion
<1> HIDE DEF V
<1>7. \A e \in Unbroken : f[e] = FlattenAt(e, f)
      BY <1>6
<1>8. Solves(f)
      BY <1>7
<1>9. Solves(CHOOSE g : Solves(g))
      BY <1>8
<1>10. Solves(Flatten)
      BY <1>9 DEF Flatten, FlattenAt, Unbroken
<1> QED
    BY <1>10

LEMMA FlattenTyped == \A e \in Unbroken : Flatten[e] \in Seq(Uris)
<1> DEFINE T == {e \in Unbroken : Flatten[e] \notin Seq(Uris)}
<1>1. SUFFICES ASSUME T # {}
               PROVE  FALSE
      OBVIOUS
<1>2. Unbroken \in SUBSET Endpoints /\ T \in SUBSET Unbroken
      BY DEF Unbroken
<1>3. PICK e \in T : Visits(e) \cap T = {}
      BY <1>1, <1>2, EndpointsFounded
<1>4. e \in Unbroken /\ Flatten[e] \notin Seq(Uris)
      OBVIOUS
<1>5. \A x \in Visits(e) : Flatten[x] \in Seq(Uris)
      BY <1>3, VisitsUnbroken
<1>6. FlattenAt(e, Flatten) \in Seq(Uris)
      BY <1>4, <1>5, FlattenElements
<1> QED
    BY <1>4, <1>6, FlattenDefined

----------------------------------------------------------------------------
(* What can be reached *)

LEMMA ReachesVisits ==
    ASSUME NEW e, NEW S \in SUBSET Endpoints
    PROVE  Reaches(e, S) <=> e \in S /\ \A x \in S : Visits(x) \subseteq S
BY DEF Reaches, Visits

LEMMA ReachableClosed ==
    ASSUME NEW e \in Endpoints
    PROVE  Reachable(e) \in SUBSET Endpoints /\ Reaches(e, Reachable(e))
<1>1. Reachable(e) \in SUBSET Endpoints
      BY DEF Reachable
<1>2. e \in Reachable(e)
      BY DEF Reachable, Reaches
<1>3. ASSUME NEW x \in Reachable(e), NEW y \in Visits(x)
      PROVE  y \in Reachable(e)
  <2>1. x \in Endpoints /\ y \in Endpoints
        BY <1>1, VisitsInside
  <2>2. ASSUME NEW S \in SUBSET Endpoints, Reaches(e, S)
        PROVE  y \in S
        BY <2>2, ReachesVisits DEF Reachable
  <2> QED
      BY <2>1, <2>2 DEF Reachable
<1> QED
    BY <1>1, <1>2, <1>3, ReachesVisits

\* What can be reached is e, and what can be reached from what it visits.
LEMMA ReachableSplit ==
    ASSUME NEW e \in Endpoints
    PROVE  \A x : x \in Reachable(e) <=> x = e \/ \E c \in Visits(e) : x \in Reachable(c)
<1> DEFINE S == {e} \cup UNION {Reachable(c) : c \in Visits(e)}
<1>1. Visits(e) \subseteq Endpoints
      BY VisitsInside
<1>2. \A c \in Visits(e) : /\ Reachable(c) \in SUBSET Endpoints /\ c \in Reachable(c)
                           /\ \A x \in Reachable(c) : Visits(x) \subseteq Reachable(c)
      BY <1>1, ReachableClosed, ReachesVisits
<1>3. S \in SUBSET Endpoints
      BY <1>2
<1>4. e \in S /\ \A x \in S : Visits(x) \subseteq S
      BY <1>2
<1>5. Reaches(e, S)
      BY <1>3, <1>4, ReachesVisits
<1>6. Reachable(e) \subseteq S
      BY <1>3, <1>5 DEF Reachable
<1>7. e \in Reachable(e) /\ \A x \in Reachable(e) : Visits(x) \subseteq Reachable(e)
      BY ReachableClosed, ReachesVisits
<1>8. ASSUME NEW c \in Visits(e)
      PROVE  Reachable(c) \subseteq Reachable(e)
  <2>1. Reaches(c, Reachable(e))
        BY <1>7, ReachableClosed, ReachesVisits
  <2> QED
      BY <2>1, ReachableClosed DEF Reachable
<1> QED
    BY <1>6, <1>7, <1>8

\* The addresses below an endpoint.
Below(e) == {x.of : x \in {y \in Reachable(e) : y.kind = "string"}}

\* resolveEndpoint yields the addresses below the endpoint and nothing else.
LEMMA FlattenIsBelow ==
    \A e \in Unbroken : \A u : u \in ToSet(Flatten[e]) <=> u \in Below(e)
<1> DEFINE Right(e) == \A u : u \in ToSet(Flatten[e]) <=> u \in Below(e)
           T == {e \in Unbroken : ~Right(e)}
<1>1. SUFFICES ASSUME T # {}
               PROVE  FALSE
      OBVIOUS
<1>2. Unbroken \in SUBSET Endpoints /\ T \in SUBSET Unbroken
      BY DEF Unbroken
<1> HIDE DEF Right
<1>3. PICK e \in T : Visits(e) \cap T = {}
      BY <1>1, <1>2, EndpointsFounded
<1>4. e \in Unbroken /\ e \in Endpoints /\ ~Right(e)
      BY <1>2
<1>5. \A c \in Visits(e) : Right(c)
      BY <1>3, <1>4, VisitsUnbroken
<1> HIDE DEF T
<1>6. \A x : x \in Reachable(e) <=> x = e \/ \E c \in Visits(e) : x \in Reachable(c)
      BY <1>4, ReachableSplit
<1>7. /\ e.kind = "string" => ToSet(Flatten[e]) = {e.of}
      /\ e.kind # "string" =>
            \A u : u \in ToSet(Flatten[e]) <=> \E x \in Visits(e) : u \in ToSet(Flatten[x])
      BY <1>4, FlattenDefined, FlattenElements, FlattenTyped, VisitsUnbroken
<1>8. CASE e.kind = "string"
  <2>1. Reachable(e) = {e}
        BY <1>4, <1>6, <1>8, VisitsInside
  <2>2. Below(e) = {e.of}
        BY <1>8, <2>1 DEF Below
  <2>3. Right(e)
        BY <1>7, <1>8, <2>2 DEF Right
  <2> QED
      BY <1>4, <2>3
<1>9. CASE e.kind # "string"
  <2>1. \A u : u \in Below(e) <=> \E c \in Visits(e) : u \in Below(c)
        BY <1>6, <1>9 DEF Below
  <2>2. \A u : (\E c \in Visits(e) : u \in Below(c))
                  <=> \E c \in Visits(e) : u \in ToSet(Flatten[c])
        BY <1>5 DEF Right
  <2>3. Right(e)
        BY <1>7, <1>9, <2>1, <2>2 DEF Right
  <2> QED
      BY <1>4, <2>3
<1> QED
    BY <1>8, <1>9

----------------------------------------------------------------------------
(* What resolveDid collects *)

Services == {s \in ToSet(diDoc.services) : Selected(s, types)}
Wanted == UNION {Below(s.endpoint) : s \in Services}

Origins == {Nil, Hostless} \cup {Host[u] : u \in Uris}
Outcomes == {Nil, Threw, Verdict(TRUE), Verdict(FALSE)}

\* A call collects what the services of its document lead to, and returns it.
Collected ==
    /\ did \in Dids \cup {Nil}
    /\ diDoc \in Documents \cup {Nil}
    /\ types \subseteq Types
    /\ found \in Seq(Uris)
    /\ pc \in {"endpoints", "origin"} => diDoc \in Documents
    /\ pc = "origin" => ToSet(found) = Wanted
    /\ \/ result \in Outcomes
       \/ \E es \in Seq(Uris), o \in Origins : result = Resolved(es, o) /\ ToSet(es) = Wanted

LEMMA DocumentTypes ==
    ASSUME NEW d \in Documents
    PROVE  /\ d.id \in Uris /\ d.controllers \in Seq(Uris)
           /\ DOMAIN d.services = 1..Len(d.services) /\ Len(d.services) \in Nat
           /\ \A i \in 1..Len(d.services) : d.services[i].endpoint \in Endpoints
           /\ ToSet(d.services) = {d.services[i] : i \in 1..Len(d.services)}
<1> DEFINE S == [types : SUBSET Types, endpoint : Endpoints]
<1>1. d.id \in Uris /\ d.controllers \in Seq(Uris) /\ d.services \in Seq(S)
      BY DEF Documents
<1>2. \A s \in S : s.endpoint \in Endpoints
      OBVIOUS
<1> HIDE DEF S
<1>3. /\ DOMAIN d.services = 1..Len(d.services) /\ Len(d.services) \in Nat
      /\ \A i \in 1..Len(d.services) : d.services[i] \in S
      BY <1>1
<1> QED
    BY <1>1, <1>2, <1>3 DEF ToSet

LEMMA Collects ==
    ASSUME Typed, CallShape, Collected, CollectEndpoints
    PROVE  found' \in Seq(Uris) /\ ToSet(found') = Wanted
<1> DEFINE n == Len(diDoc.services)
           At(i) == diDoc.services[i]
           ss == [i \in 1..n |-> IF Selected(At(i), types) THEN Flatten[At(i).endpoint] ELSE <<>>]
<1>1. diDoc \in Documents
      BY DEF Collected, CollectEndpoints, Goto
<1>2. /\ DOMAIN diDoc.services = 1..n /\ n \in Nat
      /\ \A i \in 1..n : At(i).endpoint \in Endpoints
      /\ ToSet(diDoc.services) = {At(i) : i \in 1..n}
      BY <1>1, DocumentTypes
<1>3. found' = FlattenSeq(ss)
      BY <1>2 DEF CollectEndpoints
<1>4. \A i \in 1..n : Selected(At(i), types) => At(i).endpoint \in Unbroken
      BY <1>2 DEF CollectEndpoints, Unresolvable, Unbroken
<1>5. \A i \in 1..n : ss[i] = IF Selected(At(i), types) THEN Flatten[At(i).endpoint] ELSE <<>>
      OBVIOUS
<1>6. ss \in Seq(Seq(Uris)) /\ Len(ss) = n
  <2>1. \A i \in 1..n : ss[i] \in Seq(Uris)
        BY <1>4, <1>5, FlattenTyped
  <2>2. ss \in [1..n -> Seq(Uris)]
        BY <2>1
  <2> HIDE DEF ss
  <2> QED
      BY <1>2, <2>2
<1>7. \A i \in 1..n : \A u : u \in ToSet(ss[i]) <=>
          Selected(At(i), types) /\ u \in Below(At(i).endpoint)
  <2>1. ToSet(<<>>) = {}
        BY DEF ToSet
  <2> QED
      BY <1>4, <1>5, <2>1, FlattenIsBelow
<1>8. \A u : u \in Wanted <=> \E i \in 1..n : Selected(At(i), types) /\ u \in Below(At(i).endpoint)
      BY <1>2 DEF Wanted, Services
<1> HIDE DEF ss
<1>9. /\ FlattenSeq(ss) \in Seq(Uris)
      /\ \A u : u \in ToSet(FlattenSeq(ss)) <=> \E i \in 1..Len(ss) : u \in ToSet(ss[i])
      BY <1>6, Flattened
<1> HIDE DEF At, n
<1>10. \A u : u \in ToSet(FlattenSeq(ss)) <=> u \in Wanted
      BY <1>6, <1>7, <1>8, <1>9
<1> QED
    BY <1>3, <1>9, <1>10

LEMMA OriginTypes ==
    ASSUME Collected, pc = "origin"
    PROVE  /\ ResolveOrigin(diDoc.id) \in Origins
           /\ Candidates # <<>> => ResolveOrigin(Candidates[1]) \in Origins
<1>1. diDoc.id \in Uris /\ Candidates \in Seq(Uris)
      BY DocumentTypes DEF Collected, Candidates
<1>2. Candidates # <<>> => Candidates[1] \in Uris
      BY <1>1
<1>3. \A u \in Uris : ResolveOrigin(u) \in Origins
  <2> SUFFICES ASSUME NEW u \in Uris
               PROVE  ResolveOrigin(u) \in Origins
      OBVIOUS
  <2>1. Kind[u] \in {"http", "didWeb", "noHost", "opaque"}
        BY UrisAssumption
  <2> QED
      BY <2>1 DEF ResolveOrigin, Origins
<1> QED
    BY <1>1, <1>2, <1>3

LEMMA StartCollected ==
    ASSUME Typed, Start
    PROVE  Collected'
<1> USE DEF Fresh, AtOnce
<1>1. <<>> \in Seq(Uris)
      OBVIOUS
<1> USE DEF Collected, Outcomes
<1>2. ASSUME NEW d \in Dids, NEW ts \in SUBSET Types, ResolveDid(d, ts)
      PROVE  Collected'
      BY <1>1, <1>2 DEF ResolveDid, Call
<1>3. CASE RejectConfig
      BY <1>1, <1>3 DEF RejectConfig
<1>4. CASE MistypedConfig
      BY <1>1, <1>4 DEF MistypedConfig
<1>5. CASE ResolveVCThrows
      BY <1>1, <1>5 DEF ResolveVCThrows
<1>6. ASSUME NEW c \in Configs, LoadConfig(c), ~RejectConfig, ~MistypedConfig
      PROVE  Collected'
      BY <1>1, <1>6 DEF LoadConfig, Call
<1>7. ASSUME NEW c \in VCs, NEW d \in Dids, ResolveVC(c, d)
      PROVE  Collected'
      BY <1>1, <1>7 DEF ResolveVC, Call
<1> QED
    BY <1>2, <1>3, <1>4, <1>5, <1>6, <1>7 DEF Start, LoadConfig

\* What is collected depends on the document and the types alone.
LEMMA WantedKept ==
    ASSUME diDoc' = diDoc, types' = types
    PROVE  Wanted' = Wanted
BY DEF Wanted, Services

LEMMA CollectedStep ==
    ASSUME Typed, CallShape, Collected, [Next]_vars
    PROVE  Collected'
<1>1. CASE Start
      BY <1>1, StartCollected
<1>2. CASE CollectEndpoints
  <2>1. /\ pc' = "origin" /\ diDoc \in Documents
        /\ did' = did /\ diDoc' = diDoc /\ types' = types /\ result' = Nil
        BY <1>2 DEF CollectEndpoints, Goto, Collected, CallShape
  <2> QED
      BY <1>2, <2>1, Collects, WantedKept DEF Collected, Outcomes
<1>3. CASE OriginOfId \/ OriginOfFirst \/ NoOrigin
  <2>1. /\ pc = "origin" /\ pc' = "idle"
        /\ did' = did /\ diDoc' = diDoc /\ types' = types /\ found' = found
        /\ \E o \in Origins : result' = Resolved(found, o)
        BY <1>3, OriginTypes DEF OriginOfId, OriginOfFirst, NoOrigin, Return, locals, Origins
  <2> QED
      BY <2>1, WantedKept DEF Collected
<1>4. CASE \/ LoadFails \/ EndpointsBreak \/ OriginBreaks \/ LinkedDidThrows
           \/ LinkedDataUnproven \/ VerifyThrows
  <2>1. /\ pc' = "idle" /\ result' = Threw
        /\ did' = did /\ diDoc' = diDoc /\ types' = types /\ found' = found
        BY <1>4 DEF LoadFails, EndpointsBreak, OriginBreaks, LinkedDidThrows, LinkedDataUnproven,
           VerifyThrows, Return, locals
  <2> QED
      BY <2>1 DEF Collected, Outcomes
<1>5. CASE CacheHit \/ Load
  <2>1. diDoc' \in Docs[did] /\ did \in Dids /\ did' = did /\ result' = Nil
        BY <1>5, GetDocument DEF CallShape, Continue, Goto, CacheHit, Load
  <2>2. pc' # "origin" /\ types' = types /\ found' = found
        BY <1>5 DEF CacheHit, Load, Continue, Goto
  <2>3. diDoc' \in Documents
        BY <2>1, DocsAssumption
  <2> QED
      BY <2>1, <2>2, <2>3 DEF Collected, Outcomes
<1>6. CASE NoLinkedData \/ Verify
  <2>1. /\ pc' = "idle" /\ result' \in Outcomes
        /\ did' = did /\ diDoc' = diDoc /\ types' = types /\ found' = found
        BY <1>6 DEF NoLinkedData, Verify, Return, locals, Outcomes, Verdict
  <2> QED
      BY <2>1 DEF Collected
<1>7. CASE LinkedDid \/ LinkedData
  <2>1. /\ pc = "linked" /\ pc' \in {"linked", "getForKeys"} /\ result' = result
        /\ did' \in Dids \cup {Nil} /\ diDoc' = diDoc /\ types' = types /\ found' = found
        BY <1>7, ProofTypes DEF LinkedDid, LinkedData, LoopOver, Goto, Typed, Collected
  <2>2. result' = Nil
        BY <2>1 DEF CallShape
  <2> QED
      BY <2>1, <2>2 DEF Collected, Outcomes
<1>8. CASE Elsewhere
  <2>1. /\ pc' = pc /\ result' = result
        /\ did' = did /\ diDoc' = diDoc /\ types' = types /\ found' = found
        BY <1>8 DEF Elsewhere, OtherThreadPuts, Expire, vars, locals
  <2> QED
      BY <2>1, WantedKept DEF Collected
<1> QED
    BY <1>1, <1>2, <1>3, <1>4, <1>5, <1>6, <1>7, <1>8 DEF Next, Step, Elsewhere

----------------------------------------------------------------------------
(* The theorems *)

LEMMA CollectedInit == Init => Collected
<1>1. <<>> \in Seq(Uris)
      OBVIOUS
<1> QED
    BY <1>1 DEF Init, Collected, Outcomes

\* A call of resolveDid collects what the services of its document lead to and
\* returns it, whatever the documents and the cache.
THEOREM CollectedInvariant == Spec => []Collected
<1>1. Inv /\ Collected /\ [Next]_vars => Collected'
      BY CollectedStep DEF Inv
<1> QED
    BY <1>1, CollectedInit, Invariant, PTL DEF Spec

\* Every variable of DIDResolver, and every answer, has its type.
THEOREM TypeCorrect == Spec => []TypeOK
<1>1. Inv /\ Collected => TypeOK
  <2> SUFFICES ASSUME Typed, Collected
               PROVE  \/ result \in {Nil, Threw, Verdict(TRUE), Verdict(FALSE)}
                      \/ /\ result.endpoints \in Seq(Uris)
                         /\ result.origin \in {Nil, Hostless} \cup {Host[u] : u \in Uris}
      BY DEF Inv, Typed, Collected, TypeOK
  <2>1. CASE result \in Outcomes
        BY <2>1 DEF Outcomes
  <2>2. ASSUME NEW es \in Seq(Uris), NEW o \in Origins, result = Resolved(es, o)
        PROVE  result.endpoints \in Seq(Uris) /\ result.origin \in Origins
        BY <2>2 DEF Resolved
  <2> QED
      BY <2>1, <2>2 DEF Collected, Origins
<1> QED
    BY <1>1, Invariant, CollectedInvariant, PTL

\* resolveDid returns every address that the services asked for lead to, however
\* deep their endpoints are nested, and none of another service.
THEOREM EndpointsAllFound == Spec => []EndpointsComplete
<1>1. Collected => EndpointsComplete
  <2> SUFFICES ASSUME Collected, Answered("resolved")
               PROVE  LET services == {s \in ToSet(diDoc.services) :
                                          types = {} \/ types \cap s.types # {}}
                          below == UNION {Reachable(s.endpoint) : s \in services}
                      IN ToSet(result.endpoints) = {x.of : x \in {y \in below : y.kind = "string"}}
      BY DEF EndpointsComplete
  <2>1. result \notin Outcomes
        BY DEF Answered, Outcomes, Threw, Verdict
  <2>2. ToSet(result.endpoints) = Wanted
        BY <2>1 DEF Collected, Resolved
  <2>3. Services = {s \in ToSet(diDoc.services) : types = {} \/ types \cap s.types # {}}
        BY DEF Services, Selected
  <2>4. \A u : u \in Wanted <=>
            u \in {x.of : x \in {y \in UNION {Reachable(s.endpoint) : s \in Services} :
                                        y.kind = "string"}}
        BY DEF Wanted, Below
  <2> QED
      BY <2>2, <2>3, <2>4
<1> QED
    BY <1>1, CollectedInvariant, PTL
===============================================================================
