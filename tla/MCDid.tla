-------------------------------- MODULE MCDid --------------------------------
(***************************************************************************)
(* An instance of DidResolver: a DID whose documents vary in everything    *)
(* resolveDid looks at, and one whose documents vary in their keys.        *)
(***************************************************************************)
EXTENDS DidResolver, TLC

CONSTANTS web,        \* the DID with the services
          issuer,     \* the DID with the keys, did:web with a path, which has no host
          page, tool, \* http addresses
          other,      \* a DID of another method
          h1, h2, h3, \* their hosts
          EdDSA, ES256K

MCUris == {web, issuer, page, tool, other}
MCKind == web :> "didWeb" @@ issuer :> "noHost" @@ page :> "http" @@ tool :> "http"
          @@ other :> "opaque"
MCHost == web :> h1 @@ issuer :> Nil @@ page :> h2 @@ tool :> h3 @@ other :> Nil

String(u) == [kind |-> "string", of |-> u]
List(es) == [kind |-> "list", of |-> es]
Map(es) == [kind |-> "map", of |-> es]

\* Lists, maps, both nested in each other, and maps without entries.
Page == String(page)
Other == String(other)
Pair == List(<<Other, Page>>)
Nested == Map(<<Pair, String(tool)>>)
Mixed == List(<<String(tool), Map(<<Page, Other>>)>>)
Broken == List(<<Other, Map(<<>>)>>)
MCEndpoints == {Page, Other, String(tool), Pair, Nested, Mixed, Map(<<Page, Other>>),
                Broken, Map(<<>>)}

Service(ts, e) == [types |-> ts, endpoint |-> e]
ServiceLists == {<<>>,
                 <<Service({"a"}, Nested), Service({"b"}, Mixed)>>,
                 <<Service({"b"}, Broken), Service({"a", "b"}, Pair)>>,
                 <<Service({"b"}, Page)>>}
Key(k, a) == [key |-> k, alg |-> a]
Lacking(ls, i, cs, ms, ss) ==
    [id |-> i, controllers |-> cs, methods |-> ms, services |-> ss, lacks |-> ls]
Document(i, cs, ms, ss) == Lacking({}, i, cs, ms, ss)

\* The id a document gives need not be the DID it was resolved for.
MCDocs ==
    web :> {Document(web, <<>>, {Key(1, EdDSA)}, ss) : ss \in ServiceLists}
           \cup {Document(other, <<other, page>>, {}, <<>>),
                 Document(other, <<page>>, {}, <<>>),
                 Document(other, <<>>, {}, <<>>)}
           \cup {Document(other, <<>>, {Key(1, EdDSA)}, <<Service({"a"}, e)>>) : e \in {Page, Pair}}
           \cup {Lacking({"service"}, web, <<>>, {Key(1, EdDSA)}, <<>>),
                 Lacking({"controller"}, other, <<>>, {}, <<Service({"a"}, Page)>>)}
    @@ issuer :> {Document(issuer, <<>>, {}, <<>>),
                  Document(issuer, <<>>, {Key(1, EdDSA), Key(2, ES256K)}, <<>>),
                  Document(web, <<>>, {Key(2, EdDSA)}, <<>>),
                  Lacking({"verificationMethod"}, issuer, <<>>, {}, <<>>)}

Credential(d, s, j, a, k) == [did |-> d, suite |-> s, jws |-> j, alg |-> a, signer |-> k]
MCVCs == {Credential(issuer, EdDSA, Nil, EdDSA, 1),
          Credential(issuer, Nil, ES256K, ES256K, 2),
          Credential(issuer, Nil, Nil, EdDSA, 2),
          Credential(issuer, EdDSA, Nil, EdDSA, 2),
          Credential(issuer, NoProof, Nil, EdDSA, 1),
          Credential(issuer, ProofList, Nil, EdDSA, 1)}

Data(does, c) == [does |-> does, data |-> c, jwt |-> Nil]
Jwt(does, a) == [does |-> does, data |-> Nil, jwt |-> a]
MCEntries == {Data("pass", c) : c \in MCVCs}
             \cup {Data("skip", Credential(issuer, EdDSA, Nil, EdDSA, 1)), Data("throw", Nil),
                   Jwt("pass", EdDSA), Jwt("pass", ES256K), Jwt("skip", ES256K)}
MCConfigs == {NoConfig, [kind |-> "mistyped", linked |-> <<>>]}
             \cup {[kind |-> "good", linked |-> l] :
                      l \in UNION {[1..n -> MCEntries] : n \in 0..2}}
===============================================================================
