------------------------- MODULE PointerResolution -------------------------
(***************************************************************************)
(* What DNSResolver promises for one trust scheme pointer: the DIDs found  *)
(* are published for the pointer or for a domain it leads to; all of them  *)
(* are found unless a query went wrong; and only a query that went wrong   *)
(* makes the resolution fail.                                              *)
(***************************************************************************)
CONSTANTS
    Names,   \* domain names, as users and DNS records spell them
    Fix,     \* Fix[n]: the name fixUri makes of n
    Dids,
    Zones,   \* the contents DNS may have
    Nil

\* ptr[d]: targets of the PTR records of d; uri[n]: DIDs in its URI records;
\* illegal: names too long or malformed for a query, and so for a record.
ZoneType == [ptr : [Names -> SUBSET Names], uri : [Names -> SUBSET Dids],
             illegal : SUBSET Names]

ASSUME FixAssumption == /\ Fix \in [Names -> Names]
                        /\ \A n \in Names : Fix[Fix[n]] = Fix[n]
ASSUME ZonesAssumption ==
    /\ Zones \subseteq ZoneType
    /\ \A z \in Zones : \A n \in Names : z.ptr[n] \cap z.illegal = {}

Failed == [kind |-> "error"]
Found(ds) == [kind |-> "dids", dids |-> ds]
Outcomes == {Failed} \cup {Found(ds) : ds \in SUBSET Dids}

ASSUME NilAssumption == Nil \notin Names /\ Nil \notin Outcomes

VARIABLES zone, pointer, faulty, outcome

avars == <<zone, pointer, faulty, outcome>>

\* A set of domains that holds the pointer and the PTR targets of its members.
Closed(z, p, S) ==
    /\ S \subseteq Names /\ Fix[p] \in S
    /\ \A d \in S : \A n \in z.ptr[d] : Fix[n] \in S

\* The DIDs published for the PTR targets of the domains in S.
DidsOf(z, S) == UNION {z.uri[n] : n \in UNION {z.ptr[d] : d \in S}}

\* Those published for every closed set: the DIDs the pointer leads to.
Published(z, p) ==
    {x \in Dids : \A S \in SUBSET Names : Closed(z, p, S) => x \in DidsOf(z, S)}

AInit == /\ zone \in Zones
         /\ pointer = Nil /\ faulty = FALSE /\ outcome = Nil

Ask == /\ pointer = Nil \/ outcome # Nil
       /\ pointer' \in Names
       /\ faulty' = FALSE /\ outcome' = Nil
       /\ UNCHANGED zone

Fault == /\ pointer # Nil /\ outcome = Nil
         /\ faulty' = TRUE
         /\ UNCHANGED <<zone, pointer, outcome>>

Answer ==
    /\ pointer # Nil /\ outcome = Nil
    /\ \E ds \in SUBSET Published(zone, pointer) :
          /\ outcome' = Found(ds)
          /\ ~faulty => ds = Published(zone, pointer)
    /\ UNCHANGED <<zone, pointer, faulty>>

Fail == /\ pointer # Nil /\ outcome = Nil
        /\ faulty' = TRUE /\ outcome' = Failed
        /\ UNCHANGED <<zone, pointer>>

ANext == Ask \/ Fault \/ Answer \/ Fail

ASpec == AInit /\ [][ANext]_avars
=============================================================================
