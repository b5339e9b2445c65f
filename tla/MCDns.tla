-------------------------------- MODULE MCDns --------------------------------
(***************************************************************************)
(* PTR graphs over three domains; one of them, b, is also spelled rawB,    *)
(* the way its PTR records do, and fixUri turns rawB into b.               *)
(***************************************************************************)
EXTENDS DnsResolver

CONSTANTS a, b, c, rawB

MCNames == {a, b, c, rawB}
MCFix == [n \in MCNames |-> IF n = rawB THEN b ELSE n]

\* Every name publishes a DID of its own; only a fixed name has PTR records, and
\* loops of a domain to itself are left to SmallGraphs.
AllGraphs ==
    {[ptr |-> [n \in MCNames |-> IF n = rawB THEN {} ELSE g[n]],
      uri |-> [n \in MCNames |-> {n}], illegal |-> {}] :
        g \in {h \in [{a, b, c} -> SUBSET {a, rawB, c}] :
                  a \notin h[a] /\ rawB \notin h[b] /\ c \notin h[c]}}

\* Smaller graphs, with names that publish nothing, and with a name that gets too
\* long to be queried by what fixUri adds; no record can hold such a name.
SmallGraphs ==
    {[ptr |-> [n \in MCNames |-> IF n \in {a, b} THEN g[n] ELSE {}],
      uri |-> [n \in MCNames |-> IF n \in p THEN {a} ELSE {}], illegal |-> i] :
        g \in [{a, b} -> SUBSET {a, b, rawB}], p \in SUBSET {a, b, rawB}, i \in {{}}}
    \cup
    {[ptr |-> [n \in MCNames |-> IF n = a THEN t ELSE {}],
      uri |-> [n \in MCNames |-> IF n \in p THEN {a} ELSE {}], illegal |-> {b}] :
        t \in SUBSET {a, rawB, c}, p \in SUBSET {rawB, c}}

DnsZones == AllGraphs \cup SmallGraphs
=============================================================================
