------------------------------ MODULE MCGoClient ------------------------------
(***************************************************************************)
(* An instance of GoUsers: command lines of up to three arguments, answers *)
(* that deviate from a complete one in at most one field, and two          *)
(* goroutines with contexts of every kind.                                 *)
(***************************************************************************)
EXTENDS GoUsers

CONSTANTS http, localhost, tcr, g1, g2, s1, s2, l1, v1, v2, decoded, rejected

Uri(s, h) == [parses |-> TRUE, scheme |-> s, host |-> h, equals |-> FALSE]
MCDefault == Uri(http, localhost)
Named == Uri(http, tcr)
\* "tcr/v1" is a path, in "localhost:8087/tcr/v1" the host passes for a scheme.
PathOnly == Uri(Blank, Blank)
HostOnly == Uri(localhost, Blank)
Unparsable == [parses |-> FALSE, scheme |-> Blank, host |-> Blank, equals |-> FALSE]
\* In "http://localhost=x@tcr" the host that is named is cut off.
NamedLate == [Named EXCEPT !.equals = TRUE]
MCUris == {MCDefault, Named, NamedLate, PathOnly, HostOnly, Unparsable}

RequestFields == {x \in Fields : x[1] \in {"ResolveRequest", "ValidateRequest"}}
AnswerFields == Fields \ RequestFields

Asked == [x \in RequestFields |-> "value"]
Full == [x \in AnswerFields |-> "value"]
Least == [x \in AnswerFields |-> IF x[2] \in Models[x[1]].required THEN "value" ELSE "absent"]
Only(x, s) == [Full EXCEPT ![x] = s]

\* Documents that serve as a request for either operation.
Text(j, eq) == [json |-> j, equals |-> eq]
Complete == Text(Asked, FALSE)
NullPointers == Text([Asked EXCEPT ![<<"ResolveRequest", "trustSchemePointers">>] = "null"], FALSE)
NoIssuer == Text([Asked EXCEPT ![<<"ResolveRequest", "issuer">>] = "absent",
                               ![<<"ValidateRequest", "issuer">>] = "absent"], FALSE)
WithEquals == Text(Asked, TRUE)
\* What is left of it is a document that is not closed.
Unclosed == Text(Malformed, FALSE)
MCTexts == {Complete, NullPointers, NoIssuer, WithEquals, Unclosed}

MCPiece == [uri |-> [u \in MCUris |-> IF u = NamedLate THEN MCDefault ELSE u],
            endpoint |-> [e \in Operations \cup {other} |-> e],
            data |-> [d \in MCTexts |-> IF d = WithEquals THEN Unclosed ELSE d]]

File(u, e, d) == [uri |-> u, endpoint |-> e, data |-> d]
Everything == File(HostOnly, validate, Complete)
Unreadable == File(Nil, Nil, Nil)
DataOnly == File(Blank, Nil, NullPointers)
EndpointOnly == File(PathOnly, resolve, Nil)
MCFiles == {Everything, Unreadable, DataOnly, EndpointOnly}

Arg(n, v) == [name |-> n, value |-> v]
MCArguments ==
    {Arg("uri", u) : u \in {Named, NamedLate, Unparsable, Blank}}
    \cup {Arg("endpoint", e) : e \in {resolve, validate, other, NoValue}}
    \cup {Arg("data", d) : d \in {Complete, NoIssuer, WithEquals}}
    \cup {Arg("file", f) : f \in MCFiles}
    \cup {Arg("flag", NoValue)}

\* Complete and least answers, one field less or null, some mistyped, a list
\* with a null in it, and what is no answer at all.
ObjectLists == {<<"ResolveResponse", "trustSchemePointers">>, <<"ResolveResponse", "resolvedResults">>,
                <<"ResolvedDoc", "endpoints">>, <<"ValidateResponse", "endpoints">>}
Bodies == {Full, Least, Malformed, JsonNull}
          \cup {Only(x, "null") : x \in AnswerFields}
          \cup {Only(x, "absent") : x \in {y \in AnswerFields : y[2] \in Models[y[1]].required}}
          \cup {Only(x, s) : x \in ObjectLists, s \in {"wrong", "nullItem"}}
          \cup {Only(<<"ResolvedTrustList", "vcVerified">>, "wrong")}
Errors == {Malformed, JsonNull, Only(<<"Error", "message">>, "null")}
          \cup {Only(<<"Error", f>>, "absent") : f \in Error.required}
ProgramAnswers ==
    {[status |-> 200, type |-> "json", body |-> b] : b \in Bodies}
    \cup {[status |-> 502, type |-> "json", body |-> b] : b \in Errors}
    \cup {[status |-> s, type |-> t, body |-> b] :
            s \in {200, 404, 502}, t \in {"json", "xml", "other"}, b \in {Full, Xml, Blank}}

\* One server answers, the other never does.
LibraryAnswers == {[status |-> 200, type |-> "json", body |-> Least]}
MCCallers == {main, g1, g2}
MCAnswers == [c \in MCCallers |-> CASE c = main -> ProgramAnswers [] c = g1 -> LibraryAnswers [] c = g2 -> {}]

\* Two servers, one with an enumeration, and a third for validate only.
Servers == <<[scheme |-> Part("protocol", https, {}), host |-> Part("tcr-address", TestServer, {})],
             [scheme |-> Part(Nil, http, {}), host |-> Part("tcr-address", localhost, {localhost, tcr})]>>
Dedicated == <<[scheme |-> Part(Nil, https, {}), host |-> Part(Nil, tcr, {})]>>
MCConfigurations ==
    {[NewConfiguration EXCEPT !.servers = Servers,
                              !.operationServers = [op \in {validate} |-> Dedicated]]}

For(op, v) == [o \in {op} |-> v]
Address(v) == [n \in {"tcr-address"} |-> v]
\* resolve goes to either server with a valid index and variables, and is
\* refused with a variable outside its enumeration; validate is refused with an
\* index below or above its only server and with variables of a wrong type.
MCContexts ==
    [g \in {g1, g2} |->
       IF g = g2 THEN {Background} ELSE
       {Nil, [Background EXCEPT !.ends = TRUE],
        [Background EXCEPT !.index = 1, !.indices = For(resolve, 0)],
        [Background EXCEPT !.index = 1, !.variables = Address(Blank)],
        [Background EXCEPT !.index = -1, !.indices = For(resolve, 1), !.variables = Address(Blank),
                           !.operationVariables = For(resolve, Address(tcr))],
        [Background EXCEPT !.variables = Mistyped, !.operationVariables = For(resolve, <<>>)]}]

\* One that is complete, and one that lacks a key of a ResolveRequest and has a
\* mistake in a ValidateRequest, besides values that are right.
MCDocuments ==
    {Malformed, JsonNull,
     [x \in Fields |-> IF Held(x) = "value" \/ IsRequired(x) THEN decoded ELSE "absent"],
     [x \in Fields |-> CASE x[2] = "trustSchemePointers" -> "absent"
                         [] x[2] = "endpoints" -> "wrong"
                         [] x[2] \notin {"trustSchemePointers", "endpoints"} -> rejected]}
\* The hypotheses of the theorems about this specification hold here.
ASSUME InstanceAssumption == RefusedDistinct /\ Addressed
===============================================================================
