--------------------------- MODULE TrustListData ---------------------------
(***************************************************************************)
(* The data of a trust-list call, shared by the detailed specification     *)
(* TrustListResolver and the abstract one TrustListVerdict.                *)
(***************************************************************************)
CONSTANTS
    Threads,      \* request threads
    Uris,         \* addresses of trust lists
    Contents,     \* the documents a server may publish
    Algos,        \* digest algorithms getDigestType knows
    OddAlgos,     \* multihash types it does not know
    Undecodable,  \* a hash Multihash.fromBase58 throws on (null included)
    ListOnly,     \* stands in the place of the hash in a call of resolveTL
    Nil           \* null

\* A multihash: its algorithm and the content it was computed from.
Hashes == [algo : Algos \cup OddAlgos, of : Contents]

\* The arguments of resolveTLHash, or of resolveTL when hash = ListOnly.
Requests == [uri : Uris, hash : Hashes \cup {Undecodable, ListOnly}]

\* What a call gives back: null, an exception, or a TLResolveResult.
Null == [kind |-> "null"]
Threw == [kind |-> "threw"]
Results == [kind : {"result"}, verified : BOOLEAN, list : Contents \cup {Nil}]
Answers == {Null, Threw} \cup Results

ASSUME NilAssumption ==
    /\ Nil \notin Contents \cup Hashes \cup Requests \cup Answers
    /\ {Undecodable, ListOnly} \cap Hashes = {}
    /\ Undecodable # ListOnly
ASSUME AlgoAssumption == Algos \cap OddAlgos = {}
=============================================================================
