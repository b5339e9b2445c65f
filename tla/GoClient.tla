------------------------------- MODULE GoClient -------------------------------
(***************************************************************************)
(* The Go command line client (clients/go/cmd/main.go): one run of the     *)
(* program, from its arguments to what it prints.  It makes one call of    *)
(* the package, against a server that answers anything.                    *)
(***************************************************************************)
EXTENDS GoApi, SequencesExt

CONSTANTS
    main,           \* the program, as a caller of the package
    Uris,           \* values of uri: [parses, scheme, host, equals], where
                    \* equals says whether there is an equals sign in the text
    Texts,          \* values of data: [json, equals]
    Piece,          \* Piece[o]: what is before the first equals sign in a value
                    \* of option o, the value itself if it has none
    Files,          \* parameter files: functions from Options
    Arguments,      \* what may be on the command line: [name, value]
    MaxArguments,   \* bound on their number
    Default,        \* the URI main.go falls back to
    NoValue,        \* in place of a value: the argument has no equals sign
    other           \* a value of endpoint that names no operation

Options == {"uri", "endpoint", "data"}

\* How the program may end.
Ends == {"printed", "error", "panic", "exit1", "exit2", "exit3", "exit4", "exit5", "exit6"}

ASSUME ProgramAssumption ==
    /\ main \in Callers /\ MaxArguments \in Nat
    /\ Default \in Uris /\ Default.parses
    /\ https \in Schemes /\ Blank \notin {https, TestServer}
    /\ \A t \in Texts : \/ t.json \in {Malformed, JsonNull}
                        \/ Readable(t.json, "ResolveRequest") /\ Readable(t.json, "ValidateRequest")
    /\ Nil \notin Ends /\ other \notin Operations

\* What may be given for an option, on the command line or in a file.  A file
\* on the command line is the one that is found under its name.
Given == [uri |-> Uris, endpoint |-> Operations \cup {other}, data |-> Texts]

ASSUME ArgumentsAssumption ==
    /\ \A o \in Options : Blank \notin Given[o]
    /\ \A o \in Options : Piece[o] \in [Given[o] -> Given[o] \cup {Blank}]
    /\ \A f \in Files : \A o \in Options : f[o] \in Given[o] \cup {Blank, Nil}
    /\ \A a \in Arguments :
          /\ a.name = "file" => a.value \in Files \cup {NoValue}
          /\ a.name \in Options => a.value \in Given[a.name] \cup {Blank, NoValue}

VARIABLES
    argv,       \* the command line
    next,       \* the argument the loop is at
    pc,         \* "off" if the program does not run
    settings,   \* local variables baseUri, endpoint and data of main
    params,     \* what was read from parameter files
    end         \* how the program ended, Nil while it runs

programVars == <<argv, next, pc, settings, params, end>>

Unset == [o \in Options |-> Blank]

ProgramTypeOK ==
    /\ argv \in Seq(Arguments) /\ Len(argv) <= MaxArguments
    /\ next \in 1..(Len(argv) + 1)
    /\ pc \in {"off", "args", "check", "call", "ended"}
    /\ \A s \in {settings, params} :
          /\ s.uri = Blank \/ s.uri \in Uris
          /\ s.endpoint \in Operations \cup {other, Blank}
          /\ s.data = Blank \/ s.data \in Texts
    /\ end \in Ends \cup {Nil}

NoProgram ==
    /\ argv = <<>> /\ next = 1 /\ pc = "off" /\ end = Nil
    /\ settings = Unset /\ params = Unset

ProgramInit ==
    /\ argv \in BoundedSeq(Arguments, MaxArguments)
    /\ next = 1 /\ pc = "args" /\ end = Nil
    /\ settings = Unset /\ params = Unset

End(how) == pc' = "ended" /\ end' = how

\* strings.Split(arg, "=")[1]: a value ends at the next equals sign.
Cut(o, v) == IF v = Blank THEN Blank ELSE Piece[o][v]

Argument == argv[next]

\* An argument sets a variable.
SetOption ==
    /\ pc = "args" /\ next <= Len(argv)
    /\ Argument.name \in Options /\ Argument.value # NoValue
    /\ settings' = [settings EXCEPT ![Argument.name] = Cut(Argument.name, Argument.value)]
    /\ next' = next + 1
    /\ UNCHANGED <<argv, pc, params, apiVars, end>>

\* Mutant: a later file starts from nothing.
ReadFileAnew ==
    /\ pc = "args" /\ next <= Len(argv)
    /\ Argument.name = "file" /\ Argument.value # NoValue
    /\ params' = [o \in Options |-> IF Argument.value[o] = Nil THEN Blank ELSE Argument.value[o]]
    /\ next' = next + 1
    /\ UNCHANGED <<argv, pc, settings, apiVars, end>>

\* json.Unmarshal leaves alone what a file does not give; errors are ignored.
ReadFile ==
    /\ pc = "args" /\ next <= Len(argv)
    /\ Argument.name = "file" /\ Argument.value # NoValue
    /\ params' = [o \in Options |-> IF Argument.value[o] = Nil THEN params[o] ELSE Argument.value[o]]
    /\ next' = next + 1
    /\ UNCHANGED <<argv, pc, settings, apiVars, end>>

UnknownArgument ==
    /\ pc = "args" /\ next <= Len(argv)
    /\ Argument.name \notin Options \cup {"file"}
    /\ End("exit1")
    /\ UNCHANGED <<argv, next, settings, params, apiVars>>

\* parts[1] is out of range.
MissingValue ==
    /\ pc = "args" /\ next <= Len(argv)
    /\ Argument.name \in Options \cup {"file"} /\ Argument.value = NoValue
    /\ End("panic")
    /\ UNCHANGED <<argv, next, settings, params, apiVars>>

\* Blanks are filled in from the files, a blank URI by the default.
Fill ==
    /\ pc = "args" /\ next > Len(argv)
    /\ settings' = [o \in Options |->
                       IF settings[o] # Blank THEN settings[o]
                       ELSE IF o = "uri" /\ params[o] = Blank THEN Default
                       ELSE params[o]]
    /\ pc' = "check"
    /\ UNCHANGED <<argv, next, params, apiVars, end>>

Decodable(op, text) == Unmarshals(text.json, RequestModel[op])

\* The checks of main and their exit codes, in their order.
Refusal ==
    CASE settings.endpoint = Blank -> "exit2"
      [] settings.endpoint = other -> "exit3"
      [] settings.endpoint \in Operations /\ settings.data = Blank -> "exit4"
      [] settings.endpoint \in Operations /\ settings.data # Blank ->
           IF ~Decodable(settings.endpoint, settings.data) THEN "exit5"
           ELSE IF ~settings.uri.parses THEN "exit6" ELSE Nil

Refuse ==
    /\ pc = "check" /\ Refusal # Nil
    /\ End(Refusal)
    /\ UNCHANGED <<argv, next, settings, params, apiVars>>

\* main makes a client of its own, with the host and the scheme of the URI, and
\* calls the package without a way to end the call.
Connect ==
    /\ pc = "check" /\ Refusal = Nil
    /\ pc' = "call"
    /\ cfg' = [NewConfiguration EXCEPT !.host = settings.uri.host, !.scheme = settings.uri.scheme]
    /\ LET op == settings.endpoint
       IN Build(main, op, Background, Decoded(settings.data.json, RequestModel[op]))
    /\ UNCHANGED <<argv, next, settings, params, end>>

\* What main prints.  MarshalJSON has a value receiver: it panics on a nil
\* pointer.
Report ==
    /\ pc = "call" /\ At(main, "done")
    /\ End(IF call[main].err # Nil THEN "error"
           ELSE IF call[main].resp = Nil THEN "panic" ELSE "printed")
    /\ UNCHANGED <<argv, next, settings, params, apiVars>>

Execute == Prepare(main, call[main].request) \/ Own(main) \/ Network(main)

Program == \/ SetOption \/ ReadFile \/ UnknownArgument \/ MissingValue \/ Fill \/ Refuse
           \/ Connect \/ Report
           \/ Execute /\ UNCHANGED programVars

----------------------------------------------------------------------------
(* Properties *)

\* The last argument that sets an option, 0 if none does, and the files that
\* give it a value.
LastOf(o) == LET at == {i \in DOMAIN argv : argv[i].name = o}
             IN IF at = {} THEN 0 ELSE Max(at)
GivenIn(o) == {i \in DOMAIN argv : argv[i].name = "file" /\ argv[i].value[o] # Nil}

\* When the arguments are evaluated, an option has the value of the last
\* argument for it, as far as the next equals sign; if that is blank or missing,
\* of the last file that gives one, whether the file was named before or after other arguments
\* (clients/java/README.md: arguments overwrite parameters from file).  Without
\* either, and for a blank URI, it is the default.
LastSettingWins ==
    pc \in {"check", "call"} =>
        \A o \in Options :
            LET i == LastOf(o)
                named == i # 0 /\ Cut(o, argv[i].value) # Blank
                files == GivenIn(o)
            IN /\ named => settings[o] = Cut(o, argv[i].value)
               /\ ~named => LET v == IF files = {} THEN Blank ELSE argv[Max(files)].value[o]
                            IN settings[o] = (IF o = "uri" /\ v = Blank THEN Default ELSE v)

\* Only a complete request reaches a server: every required key was in the
\* data, each value in the data arrives, and the server can read the request
\* back.  The server is the one the URI names, unless it names none; then it is
\* the public test server.
RequestComplete ==
    LET sent == call[main].sent
        root == RequestModel[call[main].op]
    IN sent # Nil =>
        /\ \A x \in FieldsOf(root) :
              /\ IsRequired(x) => settings.data.json[x] # "absent"
              /\ settings.data.json[x] = "value" <=> sent.body[x] = "value"
        /\ Unmarshals(sent.body, root)
        /\ sent.host = (IF settings.uri.host # Blank THEN settings.uri.host ELSE TestServer)

\* The program crashes for two reasons only: an argument without a value, or
\* an answer that succeeded and is empty or null.  Any other answer is printed
\* or reported.
CrashExplained ==
    end = "panic" =>
        \/ \E i \in DOMAIN argv : argv[i].value = NoValue
        \/ LET a == call[main].answer
           IN a # Nil /\ a.status < 300 /\ a.body \in {Blank, JsonNull}

\* The program comes to an end if the server answers or the connection fails
\* some time: neither its HTTP client nor its context has a timeout.
ProgramEnds == pc = "args" ~> pc = "ended"
===============================================================================
