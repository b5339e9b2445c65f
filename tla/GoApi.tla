--------------------------------- MODULE GoApi ---------------------------------
(***************************************************************************)
(* The calls of the Go package (api_trusted_content_resolver.go, client.go *)
(* and configuration.go): a caller builds a request, executes it against   *)
(* the server its context and the configuration choose, and gets a result  *)
(* or an error.  Callers share one APIClient and its Configuration.        *)
(***************************************************************************)
EXTENDS GoModels

CONSTANTS
    Callers,
    Answers,            \* Answers[c]: [status, type, body], what the server may
                        \* answer to caller c
    resolve, validate,  \* the operations
    TestServer, https,  \* host and scheme of the server in NewConfiguration
    Schemes,            \* the schemes Go's HTTP client knows
    Mistyped            \* a value in a context that is not of the type asked for

Operations == {resolve, validate}
RequestModel == [op \in Operations |-> IF op = resolve THEN "ResolveRequest" ELSE "ValidateRequest"]
ResponseModel == [op \in Operations |-> IF op = resolve THEN "ResolveResponse" ELSE "ValidateResponse"]

ASSUME AnswersAssumption ==
    \A c \in Callers : \A a \in Answers[c] :
        /\ a # Nil /\ a.status \in Nat /\ a.type \in {"json", "xml", "other"}
        /\ \/ a.body \in {Malformed, JsonNull, Xml, Blank}
           \/ \A root \in {"Error", "ResolveResponse", "ValidateResponse"} : Readable(a.body, root)

\* What execution itself returns as errors, and what comes of an answer.
Failures == {"server", "missing", "transport"}
ErrorValues == Failures \cup {"status", "decoding"}

ASSUME NilAssumption == Nil \notin ErrorValues \cup {"value", "zero", "null", "absent"}

VARIABLES
    cfg,   \* the Configuration
    call   \* call[c]: the call of c, its arguments and its results

apiVars == <<cfg, call>>

NoCall == [at |-> "idle", op |-> Nil, ctx |-> Nil, request |-> Nil, cancelled |-> FALSE,
           sent |-> Nil, answer |-> Nil, resp |-> Nil, err |-> Nil, model |-> FALSE]

CallTypeOK(c) ==
    /\ call[c].at \in {"idle", "ready", "wait", "read", "decode", "done"}
    /\ call[c].at # "idle" => call[c].op \in Operations
    /\ call[c].sent # Nil =>
          LET s == call[c].sent
          IN s.host # Blank /\ s.scheme # Blank
             /\ DOMAIN s.body \subseteq FieldsOf(RequestModel[call[c].op])
    /\ call[c].answer \in Answers[c] \cup {Nil}
    /\ call[c].resp # Nil => DOMAIN call[c].resp \subseteq Fields
    /\ call[c].err \in ErrorValues \cup {Nil}
    /\ call[c].model \in BOOLEAN /\ call[c].cancelled \in BOOLEAN

----------------------------------------------------------------------------
(* Servers *)

\* A part of a server's URL: a variable with its default and its enumeration.
\* A literal is a variable without a name.
Part(name, default, values) == [name |-> name, default |-> default, values |-> values]

NewConfiguration ==
    [host |-> Blank, scheme |-> Blank, operationServers |-> <<>>,
     servers |-> <<[scheme |-> Part("protocol", https, {}),
                    host |-> Part("tcr-address", TestServer, {})]>>]

\* ServerConfigurations.URL; Nil is an error.
Value(part, variables) ==
    IF part.name \in DOMAIN variables THEN variables[part.name] ELSE part.default
Invalid(part, variables) ==
    /\ part.name \in DOMAIN variables
    /\ part.values # {} /\ variables[part.name] \notin part.values

Url(servers, index, variables) ==
    IF \/ index \notin 0..(Len(servers) - 1)
       \/ \E part \in {servers[index + 1].scheme, servers[index + 1].host} : Invalid(part, variables)
    THEN Nil
    ELSE [scheme |-> Value(servers[index + 1].scheme, variables),
          host |-> Value(servers[index + 1].host, variables)]

\* Mutant: what the context says of an operation is not looked at.
GeneralOnly(special, general, op) == general

\* What a context says of an operation comes before what it says in general.
\* Only what is asked for needs to have the right type.
Choice(special, general, op) ==
    IF special = Mistyped THEN Mistyped
    ELSE IF op \in DOMAIN special THEN special[op] ELSE general

\* context.Background(): no index is index 0, no variables are an empty map, no
\* deadline and no cancel function.
Background == [indices |-> <<>>, index |-> 0, operationVariables |-> <<>>, variables |-> <<>>,
               ends |-> FALSE]

\* ServerURLWithContext of configuration f
UrlFor(f, ctx, op) ==
    LET servers == IF op \in DOMAIN f.operationServers THEN f.operationServers[op] ELSE f.servers
        index == Choice(ctx.indices, ctx.index, op)
        variables == Choice(ctx.operationVariables, ctx.variables, op)
    IN IF ctx = Nil THEN Url(servers, 0, <<>>)
       ELSE IF index = Mistyped \/ variables = Mistyped THEN Nil
       ELSE Url(servers, index, variables)

ServerUrl(ctx, op) == UrlFor(cfg, ctx, op)

\* Mutant: the configured value is used although it is blank.
OverrideAlways(configured, url) == configured

Override(configured, url) == IF configured # Blank THEN configured ELSE url

----------------------------------------------------------------------------
(* One call *)

At(c, label) == call[c].at = label
Goto(c, label) == call' = [call EXCEPT ![c].at = label]
ReturnError(c, e) == call' = [call EXCEPT ![c].at = "done", ![c].err = e]

\* ResolveTrustList(ctx).ResolveRequest(request): the builder copies the struct.
Build(c, op, ctx, request) ==
    /\ At(c, "idle")
    /\ call' = [call EXCEPT ![c] = [NoCall EXCEPT !.at = "ready", !.op = op, !.ctx = ctx,
                                                  !.request = request]]

NoServer(c) ==
    /\ At(c, "ready") /\ ServerUrl(call[c].ctx, call[c].op) = Nil
    /\ ReturnError(c, "server")
    /\ UNCHANGED cfg

NoRequest(c) ==
    /\ At(c, "ready") /\ ServerUrl(call[c].ctx, call[c].op) # Nil /\ call[c].request = Nil
    /\ ReturnError(c, "missing")
    /\ UNCHANGED cfg

\* Mutant: the context is not attached to the request.
NotAttached(c) == FALSE

\* prepareRequest attaches the context unless it is nil.
Attached(c) == call[c].ctx # Nil

\* prepareRequest: `object` is the request as it is now, what its slices refer
\* to included.  An error of its own (a body that cannot be written, a URL that
\* cannot be parsed) returns before anything is sent and is not told apart from
\* CallFails: the caller gets an error without a model either way.
Prepare(c, object) ==
    LET url == ServerUrl(call[c].ctx, call[c].op)
    IN /\ At(c, "ready") /\ url # Nil /\ call[c].request # Nil
       /\ call' = [call EXCEPT
             ![c].at = "wait",
             ![c].sent = [host |-> Override(cfg.host, url.host),
                          scheme |-> Override(cfg.scheme, url.scheme),
                          body |-> Marshalled(object),
                          attached |-> Attached(c)]]
       /\ UNCHANGED cfg

\* callAPI returns an error: no connection, or a scheme nobody can serve.
CallFails(c) ==
    /\ At(c, "wait")
    /\ ReturnError(c, "transport")
    /\ UNCHANGED cfg

\* The server answers.  The HTTP client has followed redirects.
Respond(c) ==
    /\ At(c, "wait") /\ call[c].sent.scheme \in Schemes
    /\ \E a \in Answers[c] : call' = [call EXCEPT ![c].at = "read", ![c].answer = a]
    /\ UNCHANGED cfg

ReadBody(c) ==
    /\ At(c, "read")
    /\ Goto(c, "decode")
    /\ UNCHANGED cfg

\* Mutant: a body that cannot be read is asked for again.
ReadFailsRetries(c) ==
    /\ At(c, "read")
    /\ Goto(c, "wait")
    /\ UNCHANGED cfg

\* The connection breaks before the body is complete.
ReadFails(c) ==
    /\ At(c, "read")
    /\ ReturnError(c, "transport")
    /\ UNCHANGED cfg

\* The caller's context ends: by its deadline or by a cancel function.
Cancel(c) ==
    /\ call[c].at \in {"ready", "wait", "read"} /\ call[c].ctx # Nil /\ call[c].ctx.ends
    /\ ~call[c].cancelled
    /\ call' = [call EXCEPT ![c].cancelled = TRUE]
    /\ UNCHANGED cfg

\* The HTTP client gives up a request whose context has ended.
Interrupted(c) ==
    /\ call[c].at \in {"wait", "read"} /\ call[c].cancelled /\ call[c].sent.attached
    /\ ReturnError(c, "transport")
    /\ UNCHANGED cfg

\* decode into a struct of the given model.  An empty body leaves the target
\* as it is.  Nothing in an XML document is asked for.
Decodes(a, root) ==
    CASE a.body = Blank -> TRUE
      [] a.body # Blank /\ a.type = "xml" -> a.body = Xml
      [] a.body # Blank /\ a.type = "json" -> Unmarshals(a.body, root)
      [] a.body # Blank /\ a.type = "other" -> FALSE

\* Mutant: the statuses of the other operation are taken over.
ErrorStatusesShared == [op \in Operations |-> {400, 500, 502, 510}]

\* Status codes whose answer is documented to be an Error.
ErrorStatuses == [op \in Operations |-> {400, 500, 510} \cup (IF op = resolve THEN {502} ELSE {})]

\* GenericOpenAPIError: its message is the status, or of the decoder's error.
ErrorAnswer(c) ==
    LET a == call[c].answer
        documented == a.status \in ErrorStatuses[call[c].op]
        decodes == Decodes(a, "Error")
    IN /\ At(c, "decode") /\ a.status >= 300
       /\ call' = [call EXCEPT
             ![c].at = "done",
             ![c].err = IF documented /\ ~decodes THEN "decoding" ELSE "status",
             ![c].model = documented /\ decodes]
       /\ UNCHANGED cfg

\* The target is a pointer here: an empty body and a JSON null leave it nil,
\* and no error.
NilAnswer(a) == a.body = Blank \/ (a.type = "json" /\ a.body = JsonNull)
Result(a, root) == IF a.type = "xml" THEN Zero(root) ELSE Decoded(a.body, root)

\* Mutant: a failure to decode is dropped.
SuccessDropsError(c) ==
    LET a == call[c].answer
        root == ResponseModel[call[c].op]
    IN /\ At(c, "decode") /\ a.status < 300
       /\ call' = [call EXCEPT
             ![c].at = "done",
             ![c].resp = IF ~NilAnswer(a) /\ Decodes(a, root) THEN Result(a, root) ELSE Nil]
       /\ UNCHANGED cfg

Success(c) ==
    LET a == call[c].answer
        root == ResponseModel[call[c].op]
    IN /\ At(c, "decode") /\ a.status < 300
       /\ call' = [call EXCEPT
             ![c].at = "done",
             ![c].resp = IF ~NilAnswer(a) /\ Decodes(a, root) THEN Result(a, root) ELSE Nil,
             ![c].err = IF NilAnswer(a) \/ Decodes(a, root) THEN Nil ELSE "decoding"]
       /\ UNCHANGED cfg

\* What the package itself does, and what it waits for.
Own(c) == NoServer(c) \/ NoRequest(c) \/ Interrupted(c) \/ ErrorAnswer(c) \/ Success(c)
Network(c) == CallFails(c) \/ Respond(c) \/ ReadBody(c) \/ ReadFails(c)

----------------------------------------------------------------------------
(* Properties of a call *)

\* What the package returns as a result is the answer of a server that
\* succeeded: no required key is missing anywhere in it, and the accessors find
\* each of its values in its place and no others.  Only an XML document passes
\* for an answer without being one, as decode looks for no key in it.  A result
\* can be written and read again without loss.
ResultIsAnswer ==
    \A c \in Callers :
        LET a == call[c].answer
            resp == call[c].resp
            root == ResponseModel[call[c].op]
        IN resp # Nil =>
            /\ a.status < 300 /\ call[c].err = Nil
            /\ Unmarshals(Marshalled(resp), root) /\ Decoded(Marshalled(resp), root) = resp
            /\ \/ a.type = "xml"
               \/ /\ a.body \notin {Blank, Malformed, JsonNull, Xml}
                  /\ \A x \in ReachedFields(a.body, root) : IsRequired(x) => a.body[x] # "absent"
                  /\ {x \in DOMAIN resp : GetOk(resp, x) = [value |-> "value", ok |-> TRUE]}
                        = {x \in ReachedFields(a.body, root) : a.body[x] = "value"}

\* An error carries the server's Error only if the operation documents the
\* status and the answer, unless it was empty or XML, had every key of one.
\* An answer that failed is always reported as an error.
ErrorCarriesModel ==
    \A c \in Callers :
        LET a == call[c].answer
        IN /\ call[c].model =>
                /\ call[c].err = "status"
                /\ a.status \in {400, 500, 502, 510}
                /\ a.status = 502 => call[c].op = resolve
                /\ a.type # "xml" /\ a.body # Blank =>
                      \A f \in Error.required : a.body[<<"Error", f>>] # "absent"
           /\ At(c, "done") /\ a # Nil /\ a.status >= 300 => call[c].err # Nil

\* A request goes to a server configured for its operation, host and scheme to
\* the same one, unless the configuration overrides them; a server the context
\* names for the operation is that one whatever it names in general.  What a
\* variable may be is its default or from its enumeration; without one, what the
\* context gives the operation or, if it gives it nothing, all operations.
SentWhereChosen ==
    \A c \in Callers : call[c].sent # Nil =>
        LET sent == call[c].sent
            op == call[c].op
            ctx == call[c].ctx
            servers == IF op \in DOMAIN cfg.operationServers THEN cfg.operationServers[op]
                       ELSE cfg.servers
            given == IF op \in DOMAIN ctx.operationVariables THEN ctx.operationVariables[op]
                     ELSE ctx.variables
            Allowed(part) ==
                {part.default} \cup
                (IF part.values # {} THEN part.values
                 ELSE IF ctx # Nil /\ part.name \in DOMAIN given THEN {given[part.name]} ELSE {})
            Fits(i) == /\ cfg.host # Blank \/ sent.host \in Allowed(servers[i].host)
                       /\ cfg.scheme # Blank \/ sent.scheme \in Allowed(servers[i].scheme)
        IN /\ \E i \in DOMAIN servers : Fits(i)
           /\ ctx # Nil /\ op \in DOMAIN ctx.indices => Fits(ctx.indices[op] + 1)
===============================================================================
