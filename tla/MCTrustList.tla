----------------------------- MODULE MCTrustList -----------------------------
(***************************************************************************)
(* Instances of TrustListResolver for TLC: which documents there are.      *)
(***************************************************************************)
EXTENDS TrustListResolver, TLC

CONSTANTS v1, v2, v3, v4, v5, v6

AllXml == [c \in Contents |-> "xml"]
AllJson == [c \in Contents |-> "json"]
Mixed == v1 :> "json" @@ v2 :> "json" @@ v3 :> "badJson" @@ v4 :> "badXml"
         @@ v5 :> "nullJson" @@ v6 :> "oddXml"

\* Threads and heap cells are interchangeable.
Symmetry == Permutations(Threads) \cup Permutations(Objs)

\* Garbage cells are never read: states that differ in them only are one.
Reachable ==
    <<remote, published, cache, [o \in Objs |-> IF o \in Live THEN heap[o] ELSE Blank],
      pc, req, entry, doc, parsed, overlap, answer>>
=============================================================================
