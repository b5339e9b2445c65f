------------------------------- MODULE GoProofs -------------------------------
(***************************************************************************)
(* Proofs about the Go package and its users, for any command line, any    *)
(* number of goroutines, whatever they edit, and any answers: what is sent *)
(* and where, what is reported, and what a result is worth.                *)
(***************************************************************************)
EXTENDS GoUsers, TLAPS

----------------------------------------------------------------------------
(* What a step does to a call *)

Keys == {"at", "op", "ctx", "request", "cancelled", "sent", "answer", "resp", "err", "model"}
Struct(r) == DOMAIN r = Keys /\ r = [k \in Keys |-> r[k]]

\* call is a function to structs with these fields.
Shaped == /\ call = [c \in Callers |-> call[c]]
          /\ \A c \in Callers : Struct(call[c])

\* The call of c becomes r, and nobody else's changes.
Becomes(c, r) == call' = [d \in Callers |-> IF d = c THEN r ELSE call[d]]

SameArguments(c) == /\ call'[c].op = call[c].op /\ call'[c].ctx = call[c].ctx
                    /\ call'[c].request = call[c].request
                    /\ call'[c].cancelled \in {call[c].cancelled, TRUE}
SameResult(c) == /\ call'[c].resp = call[c].resp /\ call'[c].err = call[c].err
                 /\ call'[c].model = call[c].model
SameTraffic(c) == call'[c].sent = call[c].sent /\ call'[c].answer = call[c].answer

\* The steps of a call, by what they change in it.
Built(c) == /\ call[c].at = "idle" /\ call'[c].at = "ready"
            /\ call'[c].sent = Nil /\ call'[c].answer = Nil
            /\ call'[c].resp = Nil /\ call'[c].err = Nil
            /\ call'[c].model = FALSE /\ call'[c].cancelled = FALSE
            /\ call'[c].op \in Operations
Cancelled(c) == /\ call[c].at \in {"ready", "wait", "read"} /\ call'[c].at = call[c].at
                /\ SameArguments(c) /\ SameTraffic(c) /\ SameResult(c)
Failing(c) == /\ call[c].at \in {"ready", "wait", "read"} /\ call'[c].at = "done"
              /\ call'[c].err \in Failures
              /\ call'[c].resp = call[c].resp /\ call'[c].model = call[c].model
              /\ SameArguments(c) /\ SameTraffic(c)
Sending(c) ==
    LET url == ServerUrl(call[c].ctx, call[c].op)
    IN /\ call[c].at = "ready" /\ call'[c].at = "wait"
       /\ url # Nil /\ call[c].request # Nil
       /\ call'[c].sent.host = Override(cfg.host, url.host)
       /\ call'[c].sent.scheme = Override(cfg.scheme, url.scheme)
       /\ call'[c].sent.body = Marshalled(IF pc = "off" THEN InFull(call[c].request)
                                          ELSE call[c].request)
       /\ SameArguments(c) /\ SameResult(c) /\ call'[c].answer = call[c].answer
Hearing(c) == /\ call[c].at = "wait" /\ call'[c].at = "read"
              /\ call'[c].answer \in Answers[c] /\ call'[c].sent = call[c].sent
              /\ SameArguments(c) /\ SameResult(c)
Reading(c) == /\ call[c].at = "read" /\ call'[c].at = "decode"
              /\ SameArguments(c) /\ SameTraffic(c) /\ SameResult(c)
Reporting(c) ==
    LET a == call[c].answer
        documented == a.status \in ErrorStatuses[call[c].op]
    IN /\ call[c].at = "decode" /\ call'[c].at = "done" /\ a.status >= 300
       /\ call'[c].err = (IF documented /\ ~Decodes(a, "Error") THEN "decoding" ELSE "status")
       /\ call'[c].model = (documented /\ Decodes(a, "Error"))
       /\ call'[c].resp = call[c].resp
       /\ SameArguments(c) /\ SameTraffic(c)
Succeeding(c) ==
    LET a == call[c].answer
        root == ResponseModel[call[c].op]
    IN /\ call[c].at = "decode" /\ call'[c].at = "done" /\ a.status < 300
       /\ call'[c].resp = (IF ~NilAnswer(a) /\ Decodes(a, root) THEN Result(a, root) ELSE Nil)
       /\ call'[c].err = (IF NilAnswer(a) \/ Decodes(a, root) THEN Nil ELSE "decoding")
       /\ call'[c].model = call[c].model
       /\ SameArguments(c) /\ SameTraffic(c)

Moves(c) == \/ Built(c) \/ Cancelled(c) \/ Failing(c) \/ Sending(c) \/ Hearing(c)
            \/ Reading(c) \/ Reporting(c) \/ Succeeding(c)

\* Who makes calls: goroutines, or the program.
Users == IF pc = "off" THEN Goroutines ELSE {main}

\* Only one call moves, and only one of the users'.
CallStep == \/ call' = call
            \/ \E c \in Users : Moves(c) /\ \A d \in Callers \ {c} : call'[d] = call[d]

LEMMA Becoming ==
    ASSUME Shaped, NEW c \in Callers, NEW r, Struct(r), Becomes(c, r)
    PROVE  Shaped' /\ call'[c] = r /\ \A d \in Callers \ {c} : call'[d] = call[d]
<1>1. call' = [d \in Callers |-> call'[d]]
      BY DEF Becomes
<1>2. call'[c] = r /\ \A d \in Callers \ {c} : call'[d] = call[d]
      BY DEF Becomes
<1>3. \A d \in Callers : Struct(call'[d])
      BY <1>2 DEF Shaped
<1>4. \A d \in Callers : Struct(call[d])'
      BY <1>3 DEF Struct
<1> QED
    BY <1>1, <1>2, <1>4 DEF Shaped

LEMMA Returning ==
    ASSUME Shaped, NEW c \in Callers, NEW e \in Failures, ReturnError(c, e),
           call[c].at \in {"ready", "wait", "read"}
    PROVE  Shaped' /\ Failing(c) /\ \A d \in Callers \ {c} : call'[d] = call[d]
<1> DEFINE r == [call[c] EXCEPT !.at = "done", !.err = e]
<1>1. Becomes(c, r)
      BY DEF Shaped, ReturnError, Becomes
<1>2. /\ Struct(r) /\ r.at = "done" /\ r.err = e
      /\ r.op = call[c].op /\ r.ctx = call[c].ctx /\ r.request = call[c].request
      /\ r.cancelled \in {call[c].cancelled, TRUE}
      /\ r.sent = call[c].sent /\ r.answer = call[c].answer
      /\ r.resp = call[c].resp /\ r.model = call[c].model
      BY DEF Shaped, Struct, Keys
<1> HIDE DEF r
<1>3. Shaped' /\ call'[c] = r /\ \A d \in Callers \ {c} : call'[d] = call[d]
      BY <1>1, <1>2, Becoming
<1> QED
    BY <1>2, <1>3 DEF Failing, SameArguments, SameTraffic

LEMMA Building ==
    ASSUME Shaped, NEW c \in Callers, NEW op \in Operations, NEW ctx, NEW request,
           Build(c, op, ctx, request)
    PROVE  /\ Shaped' /\ Built(c) /\ \A d \in Callers \ {c} : call'[d] = call[d]
           /\ call'[c].op = op /\ call'[c].ctx = ctx /\ call'[c].request = request
<1> DEFINE r == [NoCall EXCEPT !.at = "ready", !.op = op, !.ctx = ctx, !.request = request]
<1>1. Becomes(c, r)
      BY DEF Shaped, Build, Becomes
<1>2. /\ Struct(r) /\ r.at = "ready" /\ r.op = op /\ r.ctx = ctx /\ r.request = request
      /\ r.sent = Nil /\ r.answer = Nil /\ r.resp = Nil /\ r.err = Nil /\ r.model = FALSE
      /\ r.cancelled = FALSE
      BY DEF Struct, Keys, NoCall
<1> HIDE DEF r
<1>3. Shaped' /\ call'[c] = r /\ \A d \in Callers \ {c} : call'[d] = call[d]
      BY <1>1, <1>2, Becoming
<1> QED
    BY <1>2, <1>3 DEF Built, Build, At

LEMMA Preparing ==
    ASSUME Shaped, NEW c \in Callers, NEW o, Prepare(c, o),
           o = IF pc = "off" THEN InFull(call[c].request) ELSE call[c].request
    PROVE  Shaped' /\ Sending(c) /\ \A d \in Callers \ {c} : call'[d] = call[d]
<1> DEFINE url == ServerUrl(call[c].ctx, call[c].op)
           s == [host |-> Override(cfg.host, url.host), scheme |-> Override(cfg.scheme, url.scheme),
                 body |-> Marshalled(o), attached |-> Attached(c)]
           r == [call[c] EXCEPT !.at = "wait", !.sent = s]
<1>1. /\ s.host = Override(cfg.host, url.host) /\ s.scheme = Override(cfg.scheme, url.scheme)
      /\ s.body = Marshalled(o)
      OBVIOUS
<1>2. /\ call[c].at = "ready" /\ url # Nil /\ call[c].request # Nil
      /\ call' = [call EXCEPT ![c].at = "wait", ![c].sent = s]
      BY DEF Prepare, At
<1> HIDE DEF url, s
<1>3. Becomes(c, r)
      BY <1>2 DEF Shaped, Becomes
<1>4. /\ Struct(r) /\ r.at = "wait" /\ r.sent = s
      /\ r.op = call[c].op /\ r.ctx = call[c].ctx /\ r.request = call[c].request
      /\ r.cancelled \in {call[c].cancelled, TRUE}
      /\ r.answer = call[c].answer
      /\ r.resp = call[c].resp /\ r.err = call[c].err /\ r.model = call[c].model
      BY DEF Shaped, Struct, Keys
<1> HIDE DEF r
<1>5. Shaped' /\ call'[c] = r /\ \A d \in Callers \ {c} : call'[d] = call[d]
      BY <1>3, <1>4, Becoming
<1> QED
    BY <1>1, <1>2, <1>4, <1>5 DEF Sending, SameArguments, SameResult, url

LEMMA NetworkStep ==
    ASSUME Shaped, NEW c \in Callers, Network(c) \/ Cancel(c)
    PROVE  /\ Shaped' /\ (Cancelled(c) \/ Failing(c) \/ Hearing(c) \/ Reading(c))
           /\ \A d \in Callers \ {c} : call'[d] = call[d]
<1>1. CASE CallFails(c) \/ ReadFails(c)
      BY <1>1, Returning DEF CallFails, ReadFails, At, Failures
<1>2. CASE Respond(c)
  <2>1. PICK a \in Answers[c] : call' = [call EXCEPT ![c].at = "read", ![c].answer = a]
        BY <1>2 DEF Respond
  <2> DEFINE r == [call[c] EXCEPT !.at = "read", !.answer = a]
  <2>2. Becomes(c, r)
        BY <2>1 DEF Shaped, Becomes
  <2>3. /\ Struct(r) /\ r.at = "read" /\ r.answer = a
        /\ r.op = call[c].op /\ r.ctx = call[c].ctx /\ r.request = call[c].request
      /\ r.cancelled \in {call[c].cancelled, TRUE}
        /\ r.sent = call[c].sent
        /\ r.resp = call[c].resp /\ r.err = call[c].err /\ r.model = call[c].model
        BY DEF Shaped, Struct, Keys
  <2> HIDE DEF r
  <2>4. Shaped' /\ call'[c] = r /\ \A d \in Callers \ {c} : call'[d] = call[d]
        BY <2>2, <2>3, Becoming
  <2> QED
      BY <1>2, <2>3, <2>4 DEF Respond, Hearing, SameArguments, SameResult, At
<1>3. CASE ReadBody(c)
  <2> DEFINE r == [call[c] EXCEPT !.at = "decode"]
  <2>2. Becomes(c, r)
        BY <1>3 DEF ReadBody, Goto, Shaped, Becomes
  <2>3. /\ Struct(r) /\ r.at = "decode"
        /\ r.op = call[c].op /\ r.ctx = call[c].ctx /\ r.request = call[c].request
      /\ r.cancelled \in {call[c].cancelled, TRUE}
        /\ r.sent = call[c].sent /\ r.answer = call[c].answer
        /\ r.resp = call[c].resp /\ r.err = call[c].err /\ r.model = call[c].model
        BY DEF Shaped, Struct, Keys
  <2> HIDE DEF r
  <2>4. Shaped' /\ call'[c] = r /\ \A d \in Callers \ {c} : call'[d] = call[d]
        BY <2>2, <2>3, Becoming
  <2> QED
      BY <1>3, <2>3, <2>4 DEF ReadBody, Reading, SameArguments, SameTraffic, SameResult, At
<1>4. CASE Cancel(c)
  <2> DEFINE r == [call[c] EXCEPT !.cancelled = TRUE]
  <2>2. Becomes(c, r)
        BY <1>4 DEF Cancel, Shaped, Becomes
  <2>3. /\ Struct(r) /\ r.at = call[c].at
        /\ r.op = call[c].op /\ r.ctx = call[c].ctx /\ r.request = call[c].request
      /\ r.cancelled \in {call[c].cancelled, TRUE}
        /\ r.sent = call[c].sent /\ r.answer = call[c].answer
        /\ r.resp = call[c].resp /\ r.err = call[c].err /\ r.model = call[c].model
        BY DEF Shaped, Struct, Keys
  <2> HIDE DEF r
  <2>4. Shaped' /\ call'[c] = r /\ \A d \in Callers \ {c} : call'[d] = call[d]
        BY <2>2, <2>3, Becoming
  <2> QED
      BY <1>4, <2>3, <2>4 DEF Cancel, Cancelled, SameArguments, SameTraffic, SameResult
<1> QED
    BY <1>1, <1>2, <1>3, <1>4 DEF Network

LEMMA OwnStep ==
    ASSUME Shaped, NEW c \in Callers, Own(c)
    PROVE  /\ Shaped' /\ (Failing(c) \/ Reporting(c) \/ Succeeding(c))
           /\ \A d \in Callers \ {c} : call'[d] = call[d]
<1> DEFINE a == call[c].answer
           root == ResponseModel[call[c].op]
<1>1. CASE NoServer(c) \/ NoRequest(c) \/ Interrupted(c)
      BY <1>1, Returning DEF NoServer, NoRequest, Interrupted, At, Failures
<1>2. CASE ErrorAnswer(c)
  <2> DEFINE documented == a.status \in ErrorStatuses[call[c].op]
             e == IF documented /\ ~Decodes(a, "Error") THEN "decoding" ELSE "status"
             m == documented /\ Decodes(a, "Error")
             r == [call[c] EXCEPT !.at = "done", !.err = e, !.model = m]
  <2>1. /\ call[c].at = "decode" /\ a.status >= 300
        /\ call' = [call EXCEPT ![c].at = "done", ![c].err = e, ![c].model = m]
        BY <1>2 DEF ErrorAnswer, At
  <2> HIDE DEF e, m
  <2>2. Becomes(c, r)
        BY <2>1 DEF Shaped, Becomes
  <2>3. /\ Struct(r) /\ r.at = "done" /\ r.err = e /\ r.model = m
        /\ r.op = call[c].op /\ r.ctx = call[c].ctx /\ r.request = call[c].request
      /\ r.cancelled \in {call[c].cancelled, TRUE}
        /\ r.sent = call[c].sent /\ r.answer = call[c].answer /\ r.resp = call[c].resp
        BY DEF Shaped, Struct, Keys
  <2> HIDE DEF r
  <2>4. Shaped' /\ call'[c] = r /\ \A d \in Callers \ {c} : call'[d] = call[d]
        BY <2>2, <2>3, Becoming
  <2> QED
      BY <2>1, <2>3, <2>4 DEF Reporting, SameArguments, SameTraffic, e, m
<1>3. CASE Success(c)
  <2> DEFINE p == IF ~NilAnswer(a) /\ Decodes(a, root) THEN Result(a, root) ELSE Nil
             e == IF NilAnswer(a) \/ Decodes(a, root) THEN Nil ELSE "decoding"
             r == [call[c] EXCEPT !.at = "done", !.resp = p, !.err = e]
  <2>1. /\ call[c].at = "decode" /\ a.status < 300
        /\ call' = [call EXCEPT ![c].at = "done", ![c].resp = p, ![c].err = e]
        BY <1>3 DEF Success, At
  <2> HIDE DEF e, p
  <2>2. Becomes(c, r)
        BY <2>1 DEF Shaped, Becomes
  <2>3. /\ Struct(r) /\ r.at = "done" /\ r.err = e /\ r.resp = p
        /\ r.op = call[c].op /\ r.ctx = call[c].ctx /\ r.request = call[c].request
      /\ r.cancelled \in {call[c].cancelled, TRUE}
        /\ r.sent = call[c].sent /\ r.answer = call[c].answer /\ r.model = call[c].model
        BY DEF Shaped, Struct, Keys
  <2> HIDE DEF r
  <2>4. Shaped' /\ call'[c] = r /\ \A d \in Callers \ {c} : call'[d] = call[d]
        BY <2>2, <2>3, Becoming
  <2> QED
      BY <2>1, <2>3, <2>4 DEF Succeeding, SameArguments, SameTraffic, e, p
<1> QED
    BY <1>1, <1>2, <1>3 DEF Own

----------------------------------------------------------------------------
(* The program's variables *)

ProgramTyped ==
    /\ Len(argv) \in Nat /\ \A i \in 1..Len(argv) : argv[i] \in Arguments
    /\ next \in 1..(Len(argv) + 1)
    /\ pc \in {"off", "args", "check", "call", "ended"}
    /\ settings = [o \in Options |-> settings[o]]
    /\ params = [o \in Options |-> params[o]]
    /\ \A o \in Options : settings[o] \in Given[o] \cup {Blank} /\ params[o] \in Given[o] \cup {Blank}
    /\ kind \in Operations

LEMMA ProgramTypedInit == Init => ProgramTyped
<1> SUFFICES ASSUME Init
             PROVE  ProgramTyped
    OBVIOUS
<1>1. settings = [o \in Options |-> Blank] /\ params = [o \in Options |-> Blank]
      BY DEF Init, ProgramInit, NoProgram, Unset
<1>2. kind \in Operations /\ next = 1 /\ pc \in {"off", "args"}
      BY DEF Init, ProgramInit, NoProgram, LibraryInit, NoLibrary, Operations
<1>3. Len(argv) \in Nat /\ \A i \in 1..Len(argv) : argv[i] \in Arguments
  <2>1. CASE ProgramInit
    <3>1. PICK n \in 0..MaxArguments : argv \in [1..n -> Arguments]
          BY <2>1 DEF ProgramInit, BoundedSeq, SeqOf
    <3>2. n \in Nat
          BY ProgramAssumption
    <3>3. argv \in Seq(Arguments)
          BY <3>1, <3>2
    <3> QED
        BY <3>3
  <2>2. CASE NoProgram
        BY <2>2 DEF NoProgram
  <2> QED
      BY <2>1, <2>2 DEF Init
<1>4. \A o \in Options : settings[o] \in Given[o] \cup {Blank} /\ params[o] \in Given[o] \cup {Blank}
      BY <1>1
<1> QED
    BY <1>1, <1>2, <1>3, <1>4 DEF ProgramTyped

\* What an argument may have for an option.
LEMMA ArgumentValues ==
    ASSUME ProgramTyped, next <= Len(argv)
    PROVE  /\ next \in 1..Len(argv) /\ Argument \in Arguments /\ next + 1 \in 1..(Len(argv) + 1)
           /\ Argument.name \in Options =>
                 Argument.value \in Given[Argument.name] \cup {Blank, NoValue}
           /\ Argument.name = "file" => Argument.value \in Files \cup {NoValue}
BY ArgumentsAssumption DEF ProgramTyped, Argument

LEMMA ProgramTypedStep == ProgramTyped /\ [Next]_vars => ProgramTyped'
<1> SUFFICES ASSUME ProgramTyped, [Next]_vars
             PROVE  ProgramTyped'
    OBVIOUS
<1>1. CASE UNCHANGED <<programVars, kind>>
      BY <1>1 DEF ProgramTyped, programVars
<1>2. CASE SetOption /\ UNCHANGED libraryVars
  <2> DEFINE name == Argument.name
             v == Cut(name, Argument.value)
  <2>1. /\ name \in Options /\ Argument.value \in Given[name] \cup {Blank}
        /\ settings' = [settings EXCEPT ![name] = v]
        /\ next' = next + 1 /\ next + 1 \in 1..(Len(argv) + 1)
        /\ argv' = argv /\ pc' = pc /\ params' = params /\ kind' = kind
        BY <1>2, ArgumentValues DEF SetOption, libraryVars
  <2>2. v \in Given[name] \cup {Blank}
        BY <2>1, ArgumentsAssumption DEF Cut
  <2> HIDE DEF v, name
  <2>3. /\ settings' = [o \in Options |-> settings'[o]]
        /\ \A o \in Options : settings'[o] \in Given[o] \cup {Blank}
        BY <2>1, <2>2 DEF ProgramTyped
  <2> QED
      BY <2>1, <2>3 DEF ProgramTyped
<1>3. CASE ReadFile /\ UNCHANGED libraryVars
  <2>1. /\ Argument.value \in Files
        /\ params' = [o \in Options |-> IF Argument.value[o] = Nil THEN params[o]
                                        ELSE Argument.value[o]]
        /\ next' = next + 1 /\ next + 1 \in 1..(Len(argv) + 1)
        /\ argv' = argv /\ pc' = pc /\ settings' = settings /\ kind' = kind
        BY <1>3, ArgumentValues DEF ReadFile, libraryVars
  <2>2. \A o \in Options : Argument.value[o] \in Given[o] \cup {Blank, Nil}
        BY <2>1, ArgumentsAssumption
  <2>3. /\ params' = [o \in Options |-> params'[o]]
        /\ \A o \in Options : params'[o] \in Given[o] \cup {Blank}
        BY <2>1, <2>2 DEF ProgramTyped
  <2> QED
      BY <2>1, <2>3 DEF ProgramTyped
<1>4. CASE (UnknownArgument \/ MissingValue \/ Refuse \/ Connect \/ Report) /\ UNCHANGED libraryVars
      BY <1>4 DEF UnknownArgument, MissingValue, Refuse, Connect, Report, End, ProgramTyped,
                  libraryVars
<1>5. CASE Fill /\ UNCHANGED libraryVars
  <2>1. /\ settings' = [o \in Options |-> IF settings[o] # Blank THEN settings[o]
                                          ELSE IF o = "uri" /\ params[o] = Blank THEN Default
                                          ELSE params[o]]
        /\ pc' = "check" /\ UNCHANGED <<argv, next, params, kind>>
        BY <1>5 DEF Fill, libraryVars
  <2>2. \A o \in Options : settings'[o] \in Given[o] \cup {Blank}
    <3> TAKE o \in Options
    <3>1. CASE settings[o] # Blank
          BY <2>1, <3>1 DEF ProgramTyped
    <3>2. CASE settings[o] = Blank /\ o = "uri" /\ params[o] = Blank
      <4>1. Default \in Given["uri"]
            BY ProgramAssumption DEF Given
      <4> QED
          BY <2>1, <3>2, <4>1
    <3>3. CASE settings[o] = Blank /\ ~(o = "uri" /\ params[o] = Blank)
          BY <2>1, <3>3 DEF ProgramTyped
    <3> QED
        BY <3>1, <3>2, <3>3
  <2>3. settings' = [o \in Options |-> settings'[o]]
        BY <2>1
  <2> QED
      BY <2>1, <2>2, <2>3 DEF ProgramTyped
<1> QED
  <2>1. CASE UNCHANGED vars
        BY <2>1, <1>1 DEF vars, libraryVars
  <2>2. CASE ProgramStep
        BY <2>2, <1>1, <1>2, <1>3, <1>4, <1>5 DEF ProgramStep, Program, libraryVars
  <2>3. CASE LibraryStep
    <3>1. kind' = kind
          BY <2>3 DEF LibraryStep, Library, Change, Set, EditInPlace, Unmarshal, HolderUnmarshal,
                      HolderSet, Unsetting, Ask, CallerStep, libraryVars
    <3> QED
        BY <2>3, <3>1, <1>1 DEF LibraryStep
  <2> QED
      BY <2>1, <2>2, <2>3 DEF Next, Done

----------------------------------------------------------------------------
(* The steps of the system as steps of calls *)

\* While the program runs nobody else calls; it calls when it has checked.
Alone == /\ pc # "off" => \A c \in Callers : c # main => call[c].at = "idle"
         /\ pc \in {"args", "check"} => call[main].at = "idle"

\* The settings a request is made of have passed the checks.
LEMMA NotRefused ==
    ASSUME ProgramTyped, Refusal = Nil
    PROVE  /\ settings.endpoint \in Operations /\ settings.data \in Texts
           /\ Decodable(settings.endpoint, settings.data)
<1>1. settings.endpoint \in Operations \cup {other, Blank}
      BY DEF ProgramTyped, Options, Given
<1>2. settings.data \in Texts \cup {Blank}
      BY DEF ProgramTyped, Options, Given
<1>3. Blank \notin Operations \cup {other}
      BY ArgumentsAssumption DEF Given, Options
<1>4. settings.endpoint \notin {Blank, other} /\ settings.data # Blank
  <2>1. Nil \notin {"exit2", "exit3", "exit4"}
        BY ProgramAssumption DEF Ends
  <2>2. CASE settings.endpoint = Blank
        BY <2>1, <2>2, <1>3, ProgramAssumption DEF Refusal
  <2>3. CASE settings.endpoint = other
        BY <2>1, <2>3, <1>3, ProgramAssumption DEF Refusal
  <2>4. CASE settings.endpoint \in Operations /\ settings.data = Blank
        BY <2>1, <2>4, <1>3, ProgramAssumption DEF Refusal
  <2> QED
      BY <1>1, <2>2, <2>3, <2>4
<1>5. Decodable(settings.endpoint, settings.data)
  <2>1. Nil # "exit5"
        BY ProgramAssumption DEF Ends
  <2> QED
      BY <1>1, <1>3, <1>4, <2>1 DEF Refusal
<1> QED
    BY <1>1, <1>2, <1>4, <1>5

LEMMA CallSteps ==
    ASSUME Shaped, ProgramTyped, [Next]_vars
    PROVE  Shaped' /\ CallStep
<1>1. CASE call' = call
      BY <1>1 DEF CallStep, Shaped, Struct
<1>2. ASSUME NEW c \in Users, Shaped' /\ Moves(c) /\ \A d \in Callers \ {c} : call'[d] = call[d]
      PROVE  Shaped' /\ CallStep
      BY <1>2 DEF CallStep
<1>3. main \in Callers /\ Goroutines \subseteq Callers
      BY ProgramAssumption, LibraryAssumption
<1>4. CASE ProgramStep
  <2>1. Users = {main} /\ pc # "off"
        BY <1>4 DEF Users, ProgramStep
  <2>2. CASE SetOption \/ ReadFile \/ UnknownArgument \/ MissingValue \/ Fill \/ Refuse \/ Report
        BY <2>2, <1>1 DEF SetOption, ReadFile, UnknownArgument, MissingValue, Fill, Refuse,
                          Report, apiVars
  <2>3. CASE Connect
    <3>1. PICK request : Build(main, settings.endpoint, Background, request)
          BY <2>3 DEF Connect
    <3>2. settings.endpoint \in Operations
          BY <2>3, NotRefused DEF Connect
    <3> QED
        BY <2>1, <3>1, <3>2, <1>2, <1>3, Building DEF Moves
  <2>4. CASE Execute
    <3>1. CASE Prepare(main, call[main].request)
          BY <2>1, <3>1, <1>2, <1>3, Preparing DEF Moves
    <3>2. CASE Own(main)
          BY <2>1, <3>2, <1>2, <1>3, OwnStep DEF Moves
    <3>3. CASE Network(main)
          BY <2>1, <3>3, <1>2, <1>3, NetworkStep DEF Moves
    <3> QED
        BY <2>4, <3>1, <3>2, <3>3 DEF Execute
  <2> QED
      BY <1>4, <2>2, <2>3, <2>4 DEF ProgramStep, Program
<1>5. CASE LibraryStep
  <2>1. Users = Goroutines /\ pc = "off"
        BY <1>5 DEF Users, LibraryStep
  <2>2. CASE Change
        BY <2>2, <1>1 DEF Change, Set, EditInPlace, Unmarshal, HolderUnmarshal, HolderSet,
                          Unsetting, apiVars
  <2>3. ASSUME NEW g \in Goroutines, Ask(g)
        PROVE  Shaped' /\ CallStep
    <3>1. PICK ctx, request : Build(g, kind, ctx, request)
          BY <2>3 DEF Ask
    <3>2. kind \in Operations
          BY DEF ProgramTyped
    <3> QED
        BY <2>1, <3>1, <3>2, <1>2, <1>3, Building DEF Moves
  <2>4. ASSUME NEW g \in Goroutines, Send(g)
        PROVE  Shaped' /\ CallStep
    <3>1. Prepare(g, InFull(call[g].request))
          BY <2>4 DEF Send, Kept
    <3> QED
        BY <2>1, <3>1, <1>2, <1>3, Preparing DEF Moves
  <2>5. ASSUME NEW g \in Goroutines, Own(g)
        PROVE  Shaped' /\ CallStep
        BY <2>1, <2>5, <1>2, <1>3, OwnStep DEF Moves
  <2>6. ASSUME NEW g \in Goroutines, Network(g) \/ Cancel(g)
        PROVE  Shaped' /\ CallStep
        BY <2>1, <2>6, <1>2, <1>3, NetworkStep DEF Moves
  <2> QED
      BY <1>5, <2>2, <2>3, <2>4, <2>5, <2>6 DEF LibraryStep, Library, CallerStep
<1> QED
    BY <1>1, <1>4, <1>5 DEF Next, Done, vars, apiVars

LEMMA ShapedInit == Init => Shaped /\ Alone
<1>1. Struct(NoCall)
      BY DEF Struct, Keys, NoCall
<1>2. NoCall.at = "idle"
      BY DEF NoCall
<1> QED
    BY <1>1, <1>2, ProgramAssumption DEF Init, Shaped, Alone

LEMMA AloneStep ==
    ASSUME Shaped, ProgramTyped, Alone, [Next]_vars
    PROVE  Alone'
<1>1. pc' = "off" <=> pc = "off"
      BY DEF Next, Done, ProgramStep, LibraryStep, Program, programVars, vars, SetOption, ReadFile,
             UnknownArgument, MissingValue, Fill, Refuse, Connect, Report, End
<1>2. ASSUME NEW c \in Callers, pc # "off", c # main
      PROVE  call'[c].at = "idle"
      BY <1>2, CallSteps DEF CallStep, Users, Alone
<1>3. ASSUME pc' \in {"args", "check"}
      PROVE  call'[main].at = "idle"
  <2>1. pc \in {"args", "check"}
        BY <1>3 DEF Next, Done, ProgramStep, LibraryStep, Program, programVars, vars, SetOption, ReadFile,
             UnknownArgument, MissingValue, Fill, Refuse, Connect, Report, End, Alone
  <2>2. call' = call
    <3>1. CASE UNCHANGED vars \/ Done
          BY <3>1 DEF Done, vars, apiVars
    <3>2. CASE ProgramStep
      <4>1. ~Execute
            BY <2>1 DEF Alone, Execute, Prepare, Own, Network, NoServer, NoRequest, Interrupted,
                        ErrorAnswer, Success, CallFails, Respond, ReadBody, ReadFails, At
      <4> QED
          BY <3>2, <1>3, <4>1 DEF ProgramStep, Program, SetOption, ReadFile, UnknownArgument,
               MissingValue, Fill, Refuse, Connect, Report, apiVars
    <3>3. CASE LibraryStep
          BY <3>3, <2>1 DEF LibraryStep
    <3> QED
        BY <3>1, <3>2, <3>3 DEF Next
  <2> QED
      BY <2>1, <2>2 DEF Alone
<1> QED
    BY <1>1, <1>2, <1>3 DEF Alone

Base == Shaped /\ ProgramTyped /\ Alone

LEMMA BaseInit == Init => Base
BY ShapedInit, ProgramTypedInit DEF Base

LEMMA BaseStep == Base /\ [Next]_vars => Base'
BY CallSteps, ProgramTypedStep, AloneStep DEF Base

----------------------------------------------------------------------------
(* What a call knows *)

Labels == {"idle", "ready", "wait", "read", "decode", "done"}

\* By where it is: nothing is sent before the call waits, an answer is one of
\* the server's, and there is no result before the end.
Progress ==
    \A c \in Callers :
        /\ call[c].at \in Labels
        /\ call[c].at # "idle" => call[c].op \in Operations
        /\ call[c].at \in {"idle", "ready"} => call[c].sent = Nil
        /\ call[c].at \in {"idle", "ready", "wait"} => call[c].answer = Nil
        /\ call[c].at \in {"read", "decode"} => call[c].answer # Nil
        /\ call[c].answer # Nil => call[c].answer \in Answers[c]
        /\ call[c].at # "done" => call[c].err = Nil /\ call[c].resp = Nil /\ ~call[c].model

LEMMA EachCall ==
    ASSUME CallStep, NEW c \in Callers
    PROVE  call'[c] = call[c] \/ (c \in Users /\ Moves(c))
BY DEF CallStep

LEMMA ProgressInit == Init => Progress
BY DEF Init, Progress, NoCall, Labels

LEMMA ProgressStep == Progress /\ CallStep => Progress'
<1> SUFFICES ASSUME Progress, CallStep, NEW c \in Callers
             PROVE  /\ call'[c].at \in Labels
                    /\ call'[c].at # "idle" => call'[c].op \in Operations
                    /\ call'[c].at \in {"idle", "ready"} => call'[c].sent = Nil
                    /\ call'[c].at \in {"idle", "ready", "wait"} => call'[c].answer = Nil
                    /\ call'[c].at \in {"read", "decode"} => call'[c].answer # Nil
                    /\ call'[c].answer # Nil => call'[c].answer \in Answers[c]
                    /\ call'[c].at # "done" =>
                          call'[c].err = Nil /\ call'[c].resp = Nil /\ ~call'[c].model
    BY DEF Progress
<1> USE DEF Progress, Labels, SameArguments, SameTraffic, SameResult
<1>1. CASE call'[c] = call[c]
      BY <1>1
<1>2. CASE Built(c)
      BY <1>2 DEF Built
<1>3. CASE Cancelled(c) \/ Reading(c)
      BY <1>3 DEF Cancelled, Reading
<1>4. CASE Failing(c)
      BY <1>4 DEF Failing
<1>5. CASE Sending(c)
      BY <1>5 DEF Sending
<1>6. CASE Hearing(c)
      BY <1>6, AnswersAssumption DEF Hearing
<1>7. CASE Reporting(c)
      BY <1>7 DEF Reporting
<1>8. CASE Succeeding(c)
      BY <1>8 DEF Succeeding
<1> QED
    BY <1>1, <1>2, <1>3, <1>4, <1>5, <1>6, <1>7, <1>8, EachCall DEF Moves

----------------------------------------------------------------------------
(* Errors *)

\* A struct is an Error only if it has the keys of one.
LEMMA ErrorKeys ==
    ASSUME NEW j, Unmarshals(j, "Error")
    PROVE  \A f \in Error.required : j[<<"Error", f>>] # "absent"
<1>1. FieldsOf("Error") \subseteq ReachedFields(j, "Error")
      BY DEF ReachedFields, Reached, Within
<1>2. ASSUME NEW f \in Error.required
      PROVE  <<"Error", f>> \in FieldsOf("Error") /\ IsRequired(<<"Error", f>>)
      BY <1>2 DEF FieldsOf, IsRequired, Models, Error, Model, ErrorStruct
<1> QED
    BY <1>1, <1>2 DEF Unmarshals

LEMMA ErrorsStep == Progress /\ ErrorCarriesModel /\ CallStep => ErrorCarriesModel'
<1> SUFFICES ASSUME Progress, ErrorCarriesModel, CallStep, NEW c \in Callers
             PROVE  /\ call'[c].model =>
                         /\ call'[c].err = "status"
                         /\ call'[c].answer.status \in {400, 500, 502, 510}
                         /\ call'[c].answer.status = 502 => call'[c].op = resolve
                         /\ call'[c].answer.type # "xml" /\ call'[c].answer.body # Blank =>
                               \A f \in Error.required :
                                   call'[c].answer.body[<<"Error", f>>] # "absent"
                    /\ call'[c].at = "done" /\ call'[c].answer # Nil /\ call'[c].answer.status >= 300
                         => call'[c].err # Nil
    BY DEF ErrorCarriesModel, At
<1> USE DEF Progress, SameArguments, SameTraffic, SameResult
<1>1. CASE call'[c] = call[c]
      BY <1>1 DEF ErrorCarriesModel, At
<1>2. CASE Built(c) \/ Cancelled(c) \/ Sending(c) \/ Hearing(c) \/ Reading(c)
      BY <1>2 DEF Built, Cancelled, Sending, Hearing, Reading
<1>3. CASE Failing(c)
      BY <1>3, NilAssumption DEF Failing, ErrorValues
<1>4. CASE Reporting(c)
  <2> DEFINE a == call[c].answer
             documented == a.status \in ErrorStatuses[call[c].op]
  <2>1. /\ call[c].op \in Operations /\ call'[c].op = call[c].op /\ call'[c].answer = a
        /\ call'[c].at = "done"
        /\ call'[c].model = (documented /\ Decodes(a, "Error"))
        /\ call'[c].err = (IF documented /\ ~Decodes(a, "Error") THEN "decoding" ELSE "status")
        BY <1>4 DEF Reporting
  <2>2. call'[c].err # Nil
        BY <2>1, NilAssumption DEF ErrorValues
  <2>3. ASSUME call'[c].model
        PROVE  documented /\ Decodes(a, "Error") /\ call'[c].err = "status"
        BY <2>1, <2>3
  <2>4. documented => /\ a.status \in {400, 500, 502, 510}
                      /\ a.status = 502 => call[c].op = resolve
        BY <2>1 DEF ErrorStatuses
  <2>5. ASSUME Decodes(a, "Error"), a.type # "xml", a.body # Blank
        PROVE  \A f \in Error.required : a.body[<<"Error", f>>] # "absent"
    <3>1. a.type \in {"json", "xml", "other"}
          BY <1>4, AnswersAssumption DEF Reporting
    <3>2. Unmarshals(a.body, "Error")
          BY <2>5, <3>1 DEF Decodes
    <3> QED
        BY <3>2, ErrorKeys
  <2> QED
      BY <2>1, <2>2, <2>3, <2>4, <2>5
<1>5. CASE Succeeding(c)
  <2>1. /\ ~call'[c].model /\ call'[c].answer = call[c].answer
        /\ call[c].answer.status < 300 /\ call[c].answer.status \in Nat
        BY <1>5, AnswersAssumption DEF Succeeding
  <2> QED
      BY <2>1
<1> QED
    BY <1>1, <1>2, <1>3, <1>4, <1>5, EachCall DEF Moves

----------------------------------------------------------------------------
(* Destinations *)

\* Lists of servers are lists.
Servers(f) == {f.servers} \cup {f.operationServers[op] : op \in DOMAIN f.operationServers}
WellConfigured ==
    \A servers \in Servers(cfg) : Len(servers) \in Nat /\ DOMAIN servers = 1..Len(servers)

\* main configures its client before it calls; nobody does afterwards.
Configured(host, scheme) == [NewConfiguration EXCEPT !.host = host, !.scheme = scheme]

LEMMA CfgStep ==
    ASSUME [Next]_vars
    PROVE  cfg' = cfg \/ (Connect /\ cfg' = Configured(settings.uri.host, settings.uri.scheme))
<1>1. ASSUME NEW c, Own(c) \/ Network(c) \/ Cancel(c)
      PROVE  cfg' = cfg
      BY <1>1 DEF Own, Network, NoServer, NoRequest, Interrupted, ErrorAnswer, Success, CallFails,
                  Respond, ReadBody, ReadFails, Cancel
<1>2. ASSUME NEW c, NEW o, Prepare(c, o)
      PROVE  cfg' = cfg
      BY <1>2 DEF Prepare
<1>3. CASE UNCHANGED vars \/ Done
      BY <1>3 DEF Done, vars, apiVars
<1>4. CASE ProgramStep
  <2>1. CASE Connect
        BY <2>1 DEF Connect, Configured
  <2>2. CASE Execute
        BY <2>2, <1>1, <1>2 DEF Execute
  <2>3. CASE SetOption \/ ReadFile \/ UnknownArgument \/ MissingValue \/ Fill \/ Refuse \/ Report
        BY <2>3 DEF SetOption, ReadFile, UnknownArgument, MissingValue, Fill, Refuse, Report, apiVars
  <2> QED
      BY <1>4, <2>1, <2>2, <2>3 DEF ProgramStep, Program
<1>5. CASE LibraryStep
  <2>1. CASE Change
        BY <2>1 DEF Change, Set, EditInPlace, Unmarshal, HolderUnmarshal, HolderSet, Unsetting,
                    apiVars
  <2>2. ASSUME NEW g \in Goroutines, Ask(g)
        PROVE  cfg' = cfg
        BY <2>2 DEF Ask
  <2>3. ASSUME NEW g \in Goroutines, CallerStep(g)
        PROVE  cfg' = cfg
        BY <2>3, <1>1, <1>2 DEF CallerStep, Send
  <2> QED
      BY <1>5, <1>1, <2>1, <2>2, <2>3 DEF LibraryStep, Library
<1> QED
    BY <1>3, <1>4, <1>5 DEF Next

LEMMA NewServers ==
    /\ Len(NewConfiguration.servers) = 1 /\ DOMAIN NewConfiguration.servers = 1..1
    /\ NewConfiguration.operationServers = <<>> /\ DOMAIN <<>> = {}
BY DEF NewConfiguration

LEMMA ConfiguredFields ==
    ASSUME NEW host, NEW scheme
    PROVE  /\ Configured(host, scheme).host = host /\ Configured(host, scheme).scheme = scheme
           /\ Configured(host, scheme).operationServers = <<>>
           /\ Configured(host, scheme).servers = NewConfiguration.servers
           /\ Servers(Configured(host, scheme)) = {NewConfiguration.servers}
<1>1. /\ Configured(host, scheme).host = host /\ Configured(host, scheme).scheme = scheme
      /\ Configured(host, scheme).operationServers = <<>>
      /\ Configured(host, scheme).servers = NewConfiguration.servers
      BY DEF NewConfiguration, Configured
<1>2. Servers(Configured(host, scheme)) = {NewConfiguration.servers}
      BY <1>1, NewServers DEF Servers
<1> QED
    BY <1>1, <1>2

LEMMA WellConfiguredInit == Init => WellConfigured
<1>1. CASE cfg \in Configurations
      BY <1>1, LibraryAssumption DEF WellConfigured, Servers
<1>2. CASE cfg = NewConfiguration
  <2>1. Servers(cfg) = {NewConfiguration.servers}
        BY <1>2, NewServers DEF Servers
  <2> QED
      BY <2>1, NewServers DEF WellConfigured
<1> QED
    BY <1>1, <1>2 DEF Init

LEMMA WellConfiguredStep == WellConfigured /\ [Next]_vars => WellConfigured'
<1> SUFFICES ASSUME WellConfigured, [Next]_vars
             PROVE  WellConfigured'
    OBVIOUS
<1>1. CASE cfg' = cfg
      BY <1>1 DEF WellConfigured, Servers
<1>2. CASE cfg' = Configured(settings.uri.host, settings.uri.scheme)
  <2>1. Servers(cfg)' = {NewConfiguration.servers}
        BY <1>2, ConfiguredFields DEF Servers
  <2> QED
      BY <2>1, NewServers DEF WellConfigured
<1> QED
    BY <1>1, <1>2, CfgStep

\* What SentWhereChosen says of one call, under configuration f.
ServersOf(f, op) == IF op \in DOMAIN f.operationServers THEN f.operationServers[op] ELSE f.servers
GivenBy(ctx, op) == IF op \in DOMAIN ctx.operationVariables THEN ctx.operationVariables[op]
                    ELSE ctx.variables
Allowed(part, ctx, op) ==
    {part.default} \cup
    (IF part.values # {} THEN part.values
     ELSE IF ctx # Nil /\ part.name \in DOMAIN GivenBy(ctx, op)
     THEN {GivenBy(ctx, op)[part.name]} ELSE {})
Fits(f, sent, server, ctx, op) ==
    /\ f.host # Blank \/ sent.host \in Allowed(server.host, ctx, op)
    /\ f.scheme # Blank \/ sent.scheme \in Allowed(server.scheme, ctx, op)
WellSent(f, sent, ctx, op) ==
    /\ \E i \in DOMAIN ServersOf(f, op) : Fits(f, sent, ServersOf(f, op)[i], ctx, op)
    /\ ctx # Nil /\ op \in DOMAIN ctx.indices =>
          Fits(f, sent, ServersOf(f, op)[ctx.indices[op] + 1], ctx, op)
AllWellSent == \A c \in Callers : call[c].sent # Nil =>
                  WellSent(cfg, call[c].sent, call[c].ctx, call[c].op)

LEMMA WellSentMeans == SentWhereChosen <=> AllWellSent
BY DEF SentWhereChosen, AllWellSent, WellSent, Fits, Allowed, ServersOf, GivenBy

\* What a valid variable makes of a part of a URL.
LEMMA ValueAllowed ==
    ASSUME NEW part, NEW ctx, NEW op, NEW variables, ~Invalid(part, variables),
           variables = IF ctx = Nil THEN <<>> ELSE GivenBy(ctx, op)
    PROVE  Value(part, variables) \in Allowed(part, ctx, op)
<1>1. CASE part.name \in DOMAIN variables
  <2>1. ctx # Nil /\ variables = GivenBy(ctx, op)
        BY <1>1
  <2> QED
      BY <1>1, <2>1 DEF Value, Invalid, Allowed
<1>2. CASE part.name \notin DOMAIN variables
      BY <1>2 DEF Value, Allowed
<1> QED
    BY <1>1, <1>2

\* The URL of a context is one of a server of the operation, of the one the
\* context names for the operation if it names one.
LEMMA ServerChosen ==
    ASSUME WellConfigured, NEW ctx, NEW op, ServerUrl(ctx, op) # Nil
    PROVE  LET url == ServerUrl(ctx, op)
               servers == ServersOf(cfg, op)
           IN \E i \in DOMAIN servers :
                 /\ url.host \in Allowed(servers[i].host, ctx, op)
                 /\ url.scheme \in Allowed(servers[i].scheme, ctx, op)
                 /\ ctx # Nil /\ op \in DOMAIN ctx.indices => i = ctx.indices[op] + 1
<1> DEFINE servers == ServersOf(cfg, op)
           index == IF ctx = Nil THEN 0 ELSE Choice(ctx.indices, ctx.index, op)
           variables == IF ctx = Nil THEN <<>> ELSE GivenBy(ctx, op)
<1>1. ServerUrl(ctx, op) = Url(servers, index, variables)
  <2>1. CASE ctx = Nil
        BY <2>1 DEF ServerUrl, UrlFor, ServersOf
  <2>2. CASE ctx # Nil
        BY <2>2 DEF ServerUrl, UrlFor, ServersOf, Choice, GivenBy
  <2> QED
      BY <2>1, <2>2
<1>2. ctx # Nil /\ op \in DOMAIN ctx.indices => index = ctx.indices[op]
      BY DEF ServerUrl, UrlFor, Choice
<1>3. Len(servers) \in Nat /\ DOMAIN servers = 1..Len(servers)
      BY DEF WellConfigured, Servers, ServersOf
<1> HIDE DEF servers, index
<1> DEFINE server == servers[index + 1]
<1>4. /\ index \in 0..(Len(servers) - 1)
      /\ ~Invalid(server.scheme, variables) /\ ~Invalid(server.host, variables)
      /\ Url(servers, index, variables) = [scheme |-> Value(server.scheme, variables),
                                           host |-> Value(server.host, variables)]
      BY <1>1 DEF Url
<1>5. index + 1 \in DOMAIN servers
      BY <1>3, <1>4
<1>6. /\ Value(server.scheme, variables) \in Allowed(server.scheme, ctx, op)
      /\ Value(server.host, variables) \in Allowed(server.host, ctx, op)
      BY <1>4, ValueAllowed
<1> HIDE DEF variables
<1>7. /\ ServerUrl(ctx, op).host \in Allowed(servers[index + 1].host, ctx, op)
      /\ ServerUrl(ctx, op).scheme \in Allowed(servers[index + 1].scheme, ctx, op)
      BY <1>1, <1>4, <1>6
<1> QED
    BY <1>2, <1>5, <1>7 DEF servers

LEMMA DestinationStep ==
    ASSUME Base, Progress, WellConfigured, AllWellSent, [Next]_vars
    PROVE  AllWellSent'
<1> USE DEF Base
<1> SUFFICES ASSUME NEW c \in Callers, call'[c].sent # Nil
             PROVE  WellSent(cfg', call'[c].sent, call'[c].ctx, call'[c].op)
    BY DEF AllWellSent
<1>1. CASE cfg' = cfg
  <2>1. CASE Built(c)
        BY <2>1 DEF Built
  <2>2. CASE /\ call'[c].sent = call[c].sent /\ call'[c].op = call[c].op
             /\ call'[c].ctx = call[c].ctx
        BY <1>1, <2>2 DEF AllWellSent
  <2>3. CASE Sending(c)
    <3> DEFINE op == call[c].op
               ctx == call[c].ctx
               url == ServerUrl(ctx, op)
               sent == call'[c].sent
    <3>1. /\ url # Nil /\ sent.host = Override(cfg.host, url.host)
          /\ sent.scheme = Override(cfg.scheme, url.scheme)
          /\ call'[c].op = op /\ call'[c].ctx = ctx
          BY <2>3 DEF Sending, SameArguments
    <3>2. PICK i \in DOMAIN ServersOf(cfg, op) :
             /\ url.host \in Allowed(ServersOf(cfg, op)[i].host, ctx, op)
             /\ url.scheme \in Allowed(ServersOf(cfg, op)[i].scheme, ctx, op)
             /\ ctx # Nil /\ op \in DOMAIN ctx.indices => i = ctx.indices[op] + 1
          BY <3>1, ServerChosen
    <3>3. Fits(cfg, sent, ServersOf(cfg, op)[i], ctx, op)
          BY <3>1, <3>2 DEF Fits, Override
    <3>4. WellSent(cfg, sent, ctx, op)
          BY <3>2, <3>3 DEF WellSent
    <3> QED
        BY <1>1, <3>1, <3>4
  <2>4. \/ Built(c) \/ Sending(c)
        \/ /\ call'[c].sent = call[c].sent /\ call'[c].op = call[c].op
           /\ call'[c].ctx = call[c].ctx
        BY CallSteps, EachCall
           DEF Moves, Cancelled, Failing, Hearing, Reading, Reporting, Succeeding, SameArguments,
               SameTraffic
  <2> QED
      BY <2>1, <2>2, <2>3, <2>4
<1>2. ~Connect
  <2> SUFFICES ASSUME Connect
               PROVE  FALSE
      OBVIOUS
  <2>1. call[c].at = "idle" /\ call[c].sent = Nil
        BY DEF Connect, Alone, Progress
  <2>2. call'[c].sent = Nil
        BY <2>1, CallSteps, EachCall
           DEF Moves, Built, Cancelled, Failing, Sending, Hearing, Reading, Reporting,
               Succeeding
  <2> QED
      BY <2>2
<1> QED
    BY <1>1, <1>2, CfgStep

----------------------------------------------------------------------------
(* Models *)

LEMMA ModelFacts ==
    \A m \in DOMAIN Models : \A f \in DOMAIN Models[m].nested :
        <<m, f>> \in FieldsOf(m) /\ Models[m].nested[f] \in DOMAIN Models
<1> USE DEF Model, FieldsOf
<1>1. DOMAIN Models = {"Error", "ResolvedTrustList", "ResolvedDoc", "ResolvedDid",
                       "ResolvedPointer", "ResolveResponse", "ValidateResponse",
                       "ResolveRequest", "ValidateRequest"}
      BY DEF Models
<1>2. \A m \in {"Error", "ResolvedTrustList", "ResolveRequest", "ValidateRequest"} :
         DOMAIN Models[m].nested = {}
      BY DEF Models, Error, ResolvedTrustList, ResolveRequest, ValidateRequest
<1>3. /\ DOMAIN Models["ResolvedDoc"].nested = {"endpoints"}
      /\ DOMAIN Models["ResolvedDid"].nested = {"resolvedDoc", "error"}
      /\ DOMAIN Models["ResolvedPointer"].nested = {"error"}
      /\ DOMAIN Models["ResolveResponse"].nested = {"trustSchemePointers", "resolvedResults"}
      /\ DOMAIN Models["ValidateResponse"].nested = {"endpoints"}
      BY DEF Models, ResolvedDoc, ResolvedDid, ResolvedPointer, ResolveResponse, ValidateResponse
<1>4. /\ Models["ResolvedDoc"].nested["endpoints"] = "ResolvedTrustList"
      /\ Models["ResolvedDid"].nested["resolvedDoc"] = "ResolvedDoc"
      /\ Models["ResolvedDid"].nested["error"] = "Error"
      /\ Models["ResolvedPointer"].nested["error"] = "Error"
      /\ Models["ResolveResponse"].nested["trustSchemePointers"] = "ResolvedPointer"
      /\ Models["ResolveResponse"].nested["resolvedResults"] = "ResolvedDid"
      /\ Models["ValidateResponse"].nested["endpoints"] = "ResolvedTrustList"
      BY DEF Models, ResolvedDoc, ResolvedDid, ResolvedPointer, ResolveResponse, ValidateResponse
<1>5. /\ "endpoints" \in DOMAIN Models["ResolvedDoc"].struct
      /\ {"resolvedDoc", "error"} \subseteq DOMAIN Models["ResolvedDid"].struct
      /\ "error" \in DOMAIN Models["ResolvedPointer"].struct
      /\ {"trustSchemePointers", "resolvedResults"} \subseteq DOMAIN Models["ResolveResponse"].struct
      /\ "endpoints" \in DOMAIN Models["ValidateResponse"].struct
      BY DEF Models, ResolvedDoc, ResolvedDid, ResolvedPointer, ResolveResponse, ValidateResponse,
             ResolvedDocStruct, ResolvedDidStruct, ResolvedPointerStruct, ResolveResponseStruct,
             ValidateResponseStruct
<1> QED
    BY <1>1, <1>2, <1>3, <1>4, <1>5

\* The objects of a document are of the models there are.
LEMMA WithinModels ==
    ASSUME NEW j, NEW ms \in SUBSET DOMAIN Models
    PROVE  Within(j, ms) \in SUBSET DOMAIN Models /\ ms \subseteq Within(j, ms)
<1>1. ASSUME NEW x \in Within(j, ms), x \notin ms
      PROVE  x \in DOMAIN Models
  <2>1. PICK m \in ms : x \in {Models[m].nested[f] :
                                 f \in {f \in DOMAIN Models[m].nested : j[<<m, f>>] = "value"}}
        BY <1>1 DEF Within
  <2>2. PICK f \in DOMAIN Models[m].nested : x = Models[m].nested[f]
        BY <2>1
  <2> QED
      BY <2>2, ModelFacts
<1>2. ms \subseteq Within(j, ms)
      BY DEF Within
<1> QED
    BY <1>1, <1>2

LEMMA ReachedModels ==
    ASSUME NEW j, NEW root \in DOMAIN Models
    PROVE  /\ Reached(j, root) \in SUBSET DOMAIN Models
           /\ {root} \subseteq Within(j, {root})
           /\ Within(j, {root}) \subseteq Within(j, Within(j, {root}))
           /\ Within(j, Within(j, {root})) \subseteq Reached(j, root)
<1>1. Within(j, {root}) \in SUBSET DOMAIN Models /\ {root} \subseteq Within(j, {root})
      BY WithinModels
<1>2. /\ Within(j, Within(j, {root})) \in SUBSET DOMAIN Models
      /\ Within(j, {root}) \subseteq Within(j, Within(j, {root}))
      BY <1>1, WithinModels
<1>3. /\ Within(j, Within(j, Within(j, {root}))) \in SUBSET DOMAIN Models
      /\ Within(j, Within(j, {root})) \subseteq Within(j, Within(j, Within(j, {root})))
      BY <1>2, WithinModels
<1> QED
    BY <1>1, <1>2, <1>3 DEF Reached

\* Which objects a document has depends on where it has values.
LEMMA SameWithin ==
    ASSUME NEW j, NEW k, NEW ms \in SUBSET DOMAIN Models,
           \A m \in ms : \A x \in FieldsOf(m) : k[x] = "value" <=> j[x] = "value"
    PROVE  Within(k, ms) = Within(j, ms)
<1>1. \A m \in ms : \A f \in DOMAIN Models[m].nested : k[<<m, f>>] = "value" <=> j[<<m, f>>] = "value"
      BY ModelFacts
<1>2. \A m \in ms : {f \in DOMAIN Models[m].nested : k[<<m, f>>] = "value"}
                  = {f \in DOMAIN Models[m].nested : j[<<m, f>>] = "value"}
      BY <1>1
<1> QED
    BY <1>2 DEF Within

LEMMA SameReached ==
    ASSUME NEW j, NEW k, NEW root \in DOMAIN Models,
           \A x \in ReachedFields(j, root) : k[x] = "value" <=> j[x] = "value"
    PROVE  Reached(k, root) = Reached(j, root)
<1> DEFINE one == Within(j, {root})
           two == Within(j, one)
<1>1. /\ Reached(j, root) \in SUBSET DOMAIN Models
      /\ {root} \subseteq one /\ one \subseteq two /\ two \subseteq Reached(j, root)
      BY ReachedModels
<1>2. \A m \in Reached(j, root) : \A x \in FieldsOf(m) : k[x] = "value" <=> j[x] = "value"
      BY DEF ReachedFields
<1> HIDE DEF two, one
<1>3. Within(k, {root}) = Within(j, {root})
      BY <1>1, <1>2, SameWithin
<1>4. Within(k, one) = Within(j, one)
      BY <1>1, <1>2, SameWithin
<1>5. Within(k, two) = Within(j, two)
      BY <1>1, <1>2, SameWithin
<1> QED
    BY <1>3, <1>4, <1>5 DEF Reached, one, two

\* An object is neither null nor any of the texts that are no document.
LEMMA NoMarker ==
    ASSUME NEW ms \in SUBSET DOMAIN Models,
           NEW o \in [UNION {FieldsOf(m) : m \in ms} -> {"value", "zero", "null", "absent", Nil}]
    PROVE  o \notin {Malformed, JsonNull, Xml, Nil}
BY MarkersAssumption

\* A document that an object can be read from: each key it needs is there.
Legible(j, root) ==
    \A x \in ReachedFields(j, root) :
        j[x] \in {"value"} \cup Missing /\ (IsRequired(x) => j[x] # "absent")

LEMMA FieldModel == \A m \in DOMAIN Models : \A x \in FieldsOf(m) : x[1] = m
BY DEF FieldsOf

\* What UnmarshalJSON reads, MarshalJSON writes and UnmarshalJSON reads again.
LEMMA RoundTrip ==
    ASSUME NEW root \in DOMAIN Models, NEW j, Legible(j, root)
    PROVE  LET o == Decoded(j, root)
           IN /\ o # Nil
              /\ Unmarshals(Marshalled(o), root) /\ Decoded(Marshalled(o), root) = o
              /\ {x \in DOMAIN o : GetOk(o, x) = [value |-> "value", ok |-> TRUE]}
                    = {x \in ReachedFields(j, root) : j[x] = "value"}
<1> DEFINE D == ReachedFields(j, root)
           o == Decoded(j, root)
           k == Marshalled(o)
<1>1. Nil \notin {"value", "zero", "null", "absent"}
      BY NilAssumption
<1>2. \A x \in D : Zero(x[1])[x] = IF Held(x) = "value" THEN "zero" ELSE Nil
  <2> SUFFICES ASSUME NEW x \in D
               PROVE  Zero(x[1])[x] = IF Held(x) = "value" THEN "zero" ELSE Nil
      OBVIOUS
  <2>1. PICK m \in Reached(j, root) : x \in FieldsOf(m)
        BY DEF ReachedFields
  <2>2. x[1] = m
        BY <2>1, FieldModel, ReachedModels
  <2> QED
      BY <2>1, <2>2 DEF Zero
<1>3. o = [x \in D |-> IF j[x] \in Missing THEN Zero(x[1])[x] ELSE j[x]]
      BY DEF Decoded
<1>4. \A x \in D : /\ o[x] \in {"value", "zero", Nil}
                   /\ o[x] = "value" <=> j[x] = "value"
                   /\ j[x] # "value" => o[x] = Zero(x[1])[x]
      BY <1>1, <1>2, <1>3 DEF Legible, Missing
<1>5. DOMAIN o = D
      BY <1>3
<1> HIDE DEF o
<1>6. k = [x \in D |-> IF o[x] # Nil THEN o[x] ELSE IF IsRequired(x) THEN "null" ELSE "absent"]
      BY <1>5 DEF Marshalled
<1>7. \A x \in D : /\ k[x] \in {"value", "zero", "null", "absent"}
                   /\ k[x] = "value" <=> j[x] = "value"
                   /\ k[x] \in Missing <=> o[x] = Nil
                   /\ o[x] # Nil => k[x] = o[x]
                   /\ IsRequired(x) => k[x] # "absent"
      BY <1>1, <1>4, <1>6 DEF Missing
<1>8. k \in [D -> {"value", "zero", "null", "absent", Nil}]
      /\ o \in [D -> {"value", "zero", "null", "absent", Nil}]
      BY <1>3, <1>4, <1>6, <1>7 DEF o
<1>9. D = UNION {FieldsOf(m) : m \in Reached(j, root)} /\ Reached(j, root) \in SUBSET DOMAIN Models
      BY ReachedModels DEF ReachedFields
<1> HIDE DEF k, D
<1>10. k \notin {Malformed, JsonNull, Xml} /\ o # Nil
      BY <1>8, <1>9, NoMarker
<1>11. ReachedFields(k, root) = D
      BY <1>7, <1>9, SameReached DEF ReachedFields, D
<1>12. Unmarshals(k, root)
      BY <1>7, <1>10, <1>11 DEF Unmarshals, Mistakes
<1>13. Decoded(k, root) = o
  <2>1. Decoded(k, root) = [x \in D |-> IF k[x] \in Missing THEN Zero(x[1])[x] ELSE k[x]]
        BY <1>11 DEF Decoded
  <2>2. \A x \in D : (IF k[x] \in Missing THEN Zero(x[1])[x] ELSE k[x]) = o[x]
        BY <1>1, <1>4, <1>7
  <2>3. o = [x \in D |-> o[x]]
        BY <1>8
  <2> QED
      BY <2>1, <2>2, <2>3
<1>14. {x \in D : GetOk(o, x) = [value |-> "value", ok |-> TRUE]} = {x \in D : j[x] = "value"}
  <2>1. ASSUME NEW x \in D
        PROVE  GetOk(o, x) = [value |-> "value", ok |-> TRUE] <=> j[x] = "value"
        BY <1>1, <1>4 DEF GetOk
  <2> QED
      BY <2>1
<1> QED
    BY <1>5, <1>10, <1>12, <1>13, <1>14 DEF o, k, D

\* The struct that is left of an XML document is one of a legible document.
LEMMA ZeroDecoded ==
    ASSUME NEW root \in DOMAIN Models
    PROVE  \E j : Legible(j, root) /\ Decoded(j, root) = Zero(root)
<1> DEFINE j == [x \in FieldsOf(root) |-> IF IsRequired(x) THEN "null" ELSE "absent"]
<1>1. \A x \in FieldsOf(root) : j[x] # "value" /\ j[x] \in Missing /\ (IsRequired(x) => j[x] # "absent")
      BY DEF Missing
<1> HIDE DEF j
<1>2. Within(j, {root}) = {root}
      BY <1>1, ModelFacts DEF Within
<1>3. ReachedFields(j, root) = FieldsOf(root)
      BY <1>2 DEF ReachedFields, Reached
<1>4. Legible(j, root)
      BY <1>1, <1>3 DEF Legible
<1>5. Decoded(j, root) = Zero(root)
  <2>1. Decoded(j, root) = [x \in FieldsOf(root) |-> Zero(x[1])[x]]
        BY <1>1, <1>3 DEF Decoded
  <2>2. \A x \in FieldsOf(root) : x[1] = root
        BY FieldModel
  <2> QED
      BY <2>1, <2>2 DEF Zero
<1> QED
    BY <1>4, <1>5

----------------------------------------------------------------------------
(* Results *)

LEMMA ResponseModels ==
    \A op \in Operations : /\ ResponseModel[op] \in {"ResolveResponse", "ValidateResponse"}
                           /\ ResponseModel[op] \in DOMAIN Models
BY DEF ResponseModel, Models

\* What ResultIsAnswer says of answer a and the result resp of an operation.
AnsweredBy(a, resp, root) ==
    /\ a.status < 300
    /\ Unmarshals(Marshalled(resp), root) /\ Decoded(Marshalled(resp), root) = resp
    /\ \/ a.type = "xml"
       \/ /\ a.body \notin {Blank, Malformed, JsonNull, Xml}
          /\ \A x \in ReachedFields(a.body, root) : IsRequired(x) => a.body[x] # "absent"
          /\ {x \in DOMAIN resp : GetOk(resp, x) = [value |-> "value", ok |-> TRUE]}
                = {x \in ReachedFields(a.body, root) : a.body[x] = "value"}
AllAnswerWith ==
    \A c \in Callers : call[c].resp # Nil =>
        call[c].err = Nil /\ AnsweredBy(call[c].answer, call[c].resp, ResponseModel[call[c].op])

LEMMA AnswerWithMeans == ResultIsAnswer <=> AllAnswerWith
BY DEF ResultIsAnswer, AllAnswerWith, AnsweredBy

\* A document that unmarshals can be read.
LEMMA AnswerLegible ==
    ASSUME NEW c \in Callers, NEW a \in Answers[c], NEW op \in Operations,
           Unmarshals(a.body, ResponseModel[op]), a.body # Blank
    PROVE  Legible(a.body, ResponseModel[op])
<1>1. Readable(a.body, ResponseModel[op])
      BY AnswersAssumption, ResponseModels DEF Unmarshals
<1> QED
    BY <1>1 DEF Readable, Legible, Unmarshals, States, Missing, Mistakes

LEMMA SuccessResult ==
    ASSUME NEW c \in Callers, NEW a \in Answers[c], NEW op \in Operations, a.status < 300,
           ~NilAnswer(a), Decodes(a, ResponseModel[op])
    PROVE  /\ Result(a, ResponseModel[op]) # Nil
           /\ AnsweredBy(a, Result(a, ResponseModel[op]), ResponseModel[op])
<1> DEFINE root == ResponseModel[op]
<1>1. root \in DOMAIN Models
      BY ResponseModels
<1>2. CASE a.type = "xml"
  <2>1. Result(a, root) = Zero(root)
        BY <1>2 DEF Result
  <2>2. PICK j : Legible(j, root) /\ Decoded(j, root) = Zero(root)
        BY <1>1, ZeroDecoded
  <2> QED
      BY <1>1, <1>2, <2>1, <2>2, RoundTrip DEF AnsweredBy
<1>3. CASE a.type # "xml"
  <2>1. a.body # Blank /\ a.type \in {"json", "xml", "other"}
        BY AnswersAssumption DEF NilAnswer
  <2>2. Unmarshals(a.body, root)
    <3>1. CASE a.type = "json"
          BY <2>1, <3>1 DEF Decodes
    <3>2. CASE a.type = "other"
          BY <2>1, <3>2 DEF Decodes
    <3> QED
        BY <1>3, <2>1, <3>1, <3>2
  <2>3. Legible(a.body, root)
        BY <2>1, <2>2, AnswerLegible
  <2>4. Result(a, root) = Decoded(a.body, root)
        BY <1>3 DEF Result
  <2>5. /\ a.body \notin {Blank, Malformed, JsonNull, Xml}
        /\ \A x \in ReachedFields(a.body, root) : IsRequired(x) => a.body[x] # "absent"
        BY <2>1, <2>2 DEF Unmarshals
  <2> QED
      BY <1>1, <2>3, <2>4, <2>5, RoundTrip DEF AnsweredBy
<1> QED
    BY <1>2, <1>3

LEMMA ResultStep == Progress /\ AllAnswerWith /\ CallStep => AllAnswerWith'
<1> SUFFICES ASSUME Progress, AllAnswerWith, CallStep, NEW c \in Callers, call'[c].resp # Nil
             PROVE  /\ call'[c].err = Nil
                    /\ AnsweredBy(call'[c].answer, call'[c].resp, ResponseModel[call'[c].op])
    BY DEF AllAnswerWith
<1> USE DEF SameArguments, SameTraffic, SameResult
<1>1. CASE call'[c] = call[c]
      BY <1>1 DEF AllAnswerWith
<1>2. CASE Built(c) \/ Cancelled(c) \/ Sending(c) \/ Hearing(c) \/ Reading(c) \/ Failing(c) \/ Reporting(c)
      BY <1>2 DEF Built, Cancelled, Sending, Hearing, Reading, Failing, Reporting, Progress
<1>3. CASE Succeeding(c)
  <2> DEFINE a == call[c].answer
             op == call[c].op
             root == ResponseModel[op]
  <2>1. /\ a \in Answers[c] /\ op \in Operations /\ call'[c].answer = a /\ call'[c].op = op
        /\ a.status < 300
        BY <1>3 DEF Succeeding, Progress
  <2>2. /\ call'[c].resp = (IF ~NilAnswer(a) /\ Decodes(a, root) THEN Result(a, root) ELSE Nil)
        /\ call'[c].err = (IF NilAnswer(a) \/ Decodes(a, root) THEN Nil ELSE "decoding")
        BY <1>3 DEF Succeeding
  <2>3. ~NilAnswer(a) /\ Decodes(a, root) /\ call'[c].resp = Result(a, root) /\ call'[c].err = Nil
        BY <2>2
  <2> QED
      BY <2>1, <2>3, SuccessResult
<1> QED
    BY <1>1, <1>2, <1>3, EachCall DEF Moves

----------------------------------------------------------------------------
(* Requests of goroutines *)

\* What no object may hold.
Bad == IF RefusedDistinct THEN Refused(Root) ELSE {}

\* An object of the model: slices where they belong, and nothing refused.
Sane(o) == /\ DOMAIN o = FieldsOf(Root)
           /\ \A x \in FieldsOf(Root) : /\ Held(x) = "value" => o[x] \notin Lists \cup {Nil}
                                        /\ o[x] \notin Bad

Objects ==
    /\ Sane(object)
    /\ DOMAIN holder = {"value", "isSet"} /\ (holder.value \in {Nil, Shared} \/ Sane(holder.value))
    /\ lists \in [Lists -> Contents]
    /\ DOMAIN handed = Goroutines /\ \A g \in Goroutines : DOMAIN handed[g] = {"as", "touched"}

\* A request that is not sent yet is the one handed over, but for slices edited
\* in place.
ReadyAsBuilt ==
    \A g \in Goroutines : call[g].at = "ready" /\ call[g].request # Nil =>
        /\ Sane(call[g].request)
        /\ DOMAIN handed[g].as = FieldsOf(Root)
        /\ \A x \in FieldsOf(Root) :
              \/ InFull(call[g].request)[x] = handed[g].as[x]
              \/ call[g].request[x] \in Lists \cap handed[g].touched

\* What was sent holds nothing refused.
SentClean ==
    \A g \in Goroutines : call[g].sent # Nil =>
        \A x \in DOMAIN call[g].sent.body : call[g].sent.body[x] \notin Bad

LEMMA RequestFields ==
    ASSUME NEW root \in {"ResolveRequest", "ValidateRequest"}
    PROVE  \A j : ReachedFields(j, root) = FieldsOf(root)
<1> SUFFICES ASSUME NEW j
             PROVE  ReachedFields(j, root) = FieldsOf(root)
    OBVIOUS
<1>1. Models[root].nested = <<>>
  <2>1. CASE root = "ResolveRequest"
        BY <2>1 DEF Models, Model, ResolveRequest
  <2>2. CASE root = "ValidateRequest"
        BY <2>2 DEF Models, Model, ValidateRequest
  <2> QED
      BY <2>1, <2>2
<1>2. DOMAIN Models[root].nested = {}
      BY <1>1
<1>3. Within(j, {root}) = {root}
      BY <1>2 DEF Within
<1> QED
    BY <1>3 DEF ReachedFields, Reached

LEMMA RootFacts ==
    ASSUME ProgramTyped
    PROVE  /\ Root \in {"ResolveRequest", "ValidateRequest"}
           /\ \A x \in FieldsOf(Root) : Held(x) \in {"value", "slice"} /\ x[1] = Root /\ x \in Fields
           /\ \A j : ReachedFields(j, Root) = FieldsOf(Root)
<1>1. Root \in {"ResolveRequest", "ValidateRequest"}
      BY DEF ProgramTyped, Root, RequestModel
<1>2. ASSUME NEW x \in FieldsOf(Root)
      PROVE  Held(x) \in {"value", "slice"} /\ x[1] = Root /\ x \in Fields
  <2>1. PICK f \in DOMAIN Models[Root].struct : x = <<Root, f>>
        BY DEF FieldsOf
  <2>2. Models[Root].struct[f] \in {"value", "slice"} /\ Root \in DOMAIN Models
    <3>1. CASE Root = "ResolveRequest"
          BY <3>1 DEF Models, Model, ResolveRequest, ResolveRequestStruct
    <3>2. CASE Root = "ValidateRequest"
          BY <3>2 DEF Models, Model, ValidateRequest, ValidateRequestStruct
    <3> QED
        BY <1>1, <3>1, <3>2
  <2> QED
      BY <2>1, <2>2 DEF Held, Fields
<1>3. \A j : ReachedFields(j, Root) = FieldsOf(Root)
      BY <1>1, RequestFields
<1> QED
    BY <1>1, <1>2, <1>3

LEMMA Values ==
    ASSUME NEW docs, NEW root
    PROVE  /\ ValuesIn(docs, root) \cap Missing = {}
           /\ \A j \in docs : \A x \in FieldsOf(root) :
                 j[x] \notin Missing \cup Mistakes => j[x] \in ValuesIn(docs, root)
<1>1. ASSUME NEW j \in docs, NEW x \in FieldsOf(root)
      PROVE  j[x] \in UNION {{k[y] : y \in FieldsOf(root)} : k \in docs}
  <2>1. j[x] \in {j[y] : y \in FieldsOf(root)}
        OBVIOUS
  <2> QED
      BY <2>1
<1> QED
    BY <1>1 DEF ValuesIn

LEMMA BadFacts ==
    ASSUME ProgramTyped
    PROVE  Bad \cap (Strings \cup Lists \cup Contents \cup {Nil, "zero"} \cup Accepted(Root)
                       \cup Missing) = {}
<1>1. kind \in Operations
      BY DEF ProgramTyped
<1>2. Bad \cap Missing = {}
      BY Values DEF Bad, Refused
<1>3. RefusedDistinct =>
         Refused(Root) \cap (Strings \cup Lists \cup Contents \cup {Nil, "zero"} \cup Accepted(Root)) = {}
      BY <1>1 DEF RefusedDistinct, Root
<1> QED
    BY <1>2, <1>3 DEF Bad

LEMMA ZeroSane ==
    ASSUME ProgramTyped
    PROVE  Sane(Zero(Root))
BY BadFacts, LibraryAssumption, NilAssumption, RootFacts DEF Sane, Zero

\* UnmarshalJSON makes a sane object of a sane one.
LEMMA ReadSane ==
    ASSUME ProgramTyped, NEW o, Sane(o), NEW j \in Documents
    PROVE  Sane(ReadInto(o, j, Root))
<1>1. CASE ~Unmarshals(j, Root)
      BY <1>1 DEF ReadInto
<1>2. CASE Unmarshals(j, Root)
  <2>1. \A x \in FieldsOf(Root) : j[x] \notin Lists \cup {Nil}
        BY <1>2, RootFacts, LibraryAssumption DEF Unmarshals
  <2>2. ReadInto(o, j, Root) =
           [x \in FieldsOf(Root) |-> IF j[x] \in Missing THEN Zero(x[1])[x] ELSE j[x]]
        BY <1>2, RootFacts DEF ReadInto, Decoded
  <2>3. ASSUME NEW x \in FieldsOf(Root), j[x] \in Missing
        PROVE  /\ Zero(x[1])[x] \notin Lists \cup Bad
               /\ Held(x) = "value" => Zero(x[1])[x] # Nil
        BY <2>3, RootFacts, BadFacts, LibraryAssumption, NilAssumption DEF Zero
  <2>4. ASSUME NEW x \in FieldsOf(Root), j[x] \notin Missing
        PROVE  j[x] \in Accepted(Root)
    <3>1. j[x] \notin Mistakes
          BY <1>2, <2>4, RootFacts DEF Unmarshals
    <3>2. j \in {k \in Documents : Unmarshals(k, Root)}
          BY <1>2
    <3> QED
        BY <2>4, <3>1, <3>2, Values DEF Accepted
  <2> QED
      BY <2>1, <2>2, <2>3, <2>4, BadFacts DEF Sane
<1> QED
    BY <1>1, <1>2

LEMMA ObjectsInit ==
    ASSUME Init
    PROVE  Objects /\ ReadyAsBuilt /\ SentClean /\ SentAsBuilt
<1>1. ProgramTyped
      BY ProgramTypedInit
<1>2. /\ lists \in [Lists -> Contents]
      /\ handed \in Untouched
      BY LibraryAssumption DEF Init, LibraryInit, NoLibrary
<1>3. DOMAIN handed = Goroutines /\ \A g \in Goroutines : DOMAIN handed[g] = {"as", "touched"}
      BY <1>2 DEF Untouched
<1>4. Sane(Made(kind))
  <2>1. /\ (CHOOSE s \in Strings : TRUE) \in Strings /\ (CHOOSE l \in Lists : TRUE) \in Lists
        BY LibraryAssumption
  <2>2. \A x \in FieldsOf(Root) : Zero(Root)[x] = IF Held(x) = "value" THEN "zero" ELSE Nil
        BY DEF Zero
  <2> QED
      BY <1>1, NilAssumption, <2>1, <2>2, BadFacts, LibraryAssumption DEF Sane, Made, New, Root
<1>5. ASSUME LibraryInit
      PROVE  Objects
  <2>1. /\ object = Made(kind) /\ holder.value \in {Nil, Shared, Made(kind)}
        /\ DOMAIN holder = {"value", "isSet"}
    <3>1. PICK v \in {Nil, Shared, Made(kind)}, b \in BOOLEAN : holder = [value |-> v, isSet |-> b]
          BY <1>5 DEF LibraryInit
    <3>2. holder.value = v /\ DOMAIN holder = {"value", "isSet"}
          BY <3>1
    <3> QED
        BY <1>5, <3>2 DEF LibraryInit
  <2>2. Sane(object) /\ (holder.value \in {Nil, Shared} \/ Sane(holder.value))
        BY <1>4, <2>1
  <2> QED
      BY ONLY <1>2, <1>3, <2>1, <2>2 DEF Objects
<1>6. ASSUME NoLibrary
      PROVE  Objects
  <2>1. object = Zero(Root) /\ holder = [value |-> Nil, isSet |-> FALSE]
        BY <1>6 DEF NoLibrary
  <2>2. DOMAIN holder = {"value", "isSet"} /\ holder.value = Nil
        BY <2>1
  <2>3. Sane(object)
        BY <1>1, <2>1, ZeroSane
  <2> QED
      BY ONLY <1>2, <1>3, <2>2, <2>3 DEF Objects
<1>7. \A g \in Goroutines : call[g].at = "idle" /\ call[g].sent = Nil
      BY LibraryAssumption DEF Init, NoCall
<1> QED
    BY <1>5, <1>6, <1>7 DEF Init, ReadyAsBuilt, SentClean, SentAsBuilt

\* Steps are of three kinds for the variables goroutines share.
LEMMA LibraryCases ==
    ASSUME Base, [Next]_vars
    PROVE  \/ UNCHANGED libraryVars /\ \A g \in Goroutines : call'[g] = call[g] \/ (Moves(g) /\ ~Built(g))
           \/ Change /\ call' = call
           \/ \E g \in Goroutines : Ask(g)
<1> DEFINE Calm == \A g \in Goroutines : call'[g] = call[g] \/ (Moves(g) /\ ~Built(g))
<1>1. Shaped /\ Goroutines \subseteq Callers
      BY LibraryAssumption DEF Base
<1>2. ASSUME NEW g \in Goroutines, NEW h \in Callers, call[h].at # "idle",
             \A d \in Callers \ {h} : call'[d] = call[d]
      PROVE  call'[g] = call[g] \/ ~Built(g)
      BY <1>1, <1>2 DEF Built
<1>3. \A g \in Goroutines : call'[g] = call[g] \/ (g \in Users /\ Moves(g))
      BY <1>1, CallSteps, EachCall DEF Base
<1>4. CASE UNCHANGED vars
      BY <1>4 DEF vars, apiVars
<1>5. CASE ProgramStep
  <2>1. ~(main \in Goroutines) /\ Users = {main}
        BY <1>5, UsersAssumption DEF ProgramStep, Users
  <2> QED
      BY <1>3, <1>5, <2>1 DEF ProgramStep
<1>6. CASE LibraryStep
  <2>1. CASE Change
        BY <2>1 DEF Change, Set, EditInPlace, Unmarshal, HolderUnmarshal, HolderSet, Unsetting, apiVars
  <2>2. ASSUME NEW h \in Goroutines, CallerStep(h) \/ ((Network(h) \/ Cancel(h)) /\ UNCHANGED libraryVars)
        PROVE  UNCHANGED libraryVars /\ Calm
    <3>1. \A d \in Callers \ {h} : call'[d] = call[d]
      <4>1. CASE Own(h)
            BY <1>1, <4>1, OwnStep
      <4>2. CASE Network(h) \/ Cancel(h)
            BY <1>1, <4>2, NetworkStep
      <4>3. CASE Send(h)
        <5>1. PICK o : Prepare(h, o)
              BY <4>3 DEF Send
        <5> QED
            BY <1>1, <5>1 DEF Prepare, Shaped
      <4> QED
          BY <2>2, <4>1, <4>2, <4>3 DEF CallerStep
    <3>2. call[h].at # "idle"
          BY <2>2 DEF CallerStep, Send, Own, Network, Cancel, Prepare, NoServer, NoRequest,
                      Interrupted, ErrorAnswer, Success, CallFails, Respond, ReadBody, ReadFails, At
    <3>3. UNCHANGED libraryVars
          BY <2>2 DEF CallerStep
    <3> QED
        BY <1>1, <1>2, <1>3, <3>1, <3>2, <3>3
  <2>3. CASE \E g \in Goroutines : Ask(g)
        BY <2>3
  <2>4. CASE \E h \in Goroutines : CallerStep(h) \/ ((Network(h) \/ Cancel(h)) /\ UNCHANGED libraryVars)
        BY <2>2, <2>4
  <2>5. Library
        BY <1>6 DEF LibraryStep
  <2>6. \/ Change
        \/ \E g \in Goroutines : Ask(g)
        \/ \E g \in Goroutines : CallerStep(g) \/ ((Network(g) \/ Cancel(g)) /\ UNCHANGED libraryVars)
        BY <2>5 DEF Library
  <2> HIDE DEF Calm
  <2> QED
      BY ONLY <2>1, <2>3, <2>4, <2>6 DEF Calm
<1> QED
    BY <1>4, <1>5, <1>6 DEF Next, Done

LEMMA KindStep ==
    ASSUME [Next]_vars
    PROVE  kind' = kind /\ Root' = Root /\ Bad' = Bad
<1>1. kind' = kind
  <2>1. CASE UNCHANGED vars \/ Done
        BY <2>1 DEF Done, vars, libraryVars
  <2>2. CASE ProgramStep
        BY <2>2 DEF ProgramStep, libraryVars
  <2>3. CASE LibraryStep
        BY <2>3 DEF LibraryStep, Library, Change, Set, EditInPlace, Unmarshal, HolderUnmarshal,
                    HolderSet, Unsetting, Ask, CallerStep, libraryVars
  <2> QED
      BY <2>1, <2>2, <2>3 DEF Next
<1>2. Root' = Root
      BY <1>1 DEF Root
<1> QED
    BY <1>1, <1>2 DEF Bad

LEMMA ObjectsStep ==
    ASSUME Base, Objects, [Next]_vars
    PROVE  Objects'
<1>1. ProgramTyped /\ Root' = Root /\ Bad' = Bad
      BY KindStep DEF Base
<1>2. ASSUME NEW o, Sane(o)
      PROVE  Sane(o)'
      BY <1>1, <1>2 DEF Sane
<1>3. CASE UNCHANGED libraryVars
      BY <1>2, <1>3 DEF Objects, libraryVars
<1>4. ASSUME NEW g \in Goroutines, Ask(g)
      PROVE  Objects'
  <2>1. /\ UNCHANGED <<object, lists, holder>>
        /\ \E as : handed' = [handed EXCEPT ![g] = [as |-> as, touched |-> {}]]
        BY <1>4 DEF Ask
  <2>2. DOMAIN handed' = Goroutines /\ \A h \in Goroutines : DOMAIN handed'[h] = {"as", "touched"}
        BY <2>1 DEF Objects
  <2> QED
      BY <1>2, <2>1, <2>2 DEF Objects
<1>5. ASSUME NEW x \in DOMAIN object, NEW v, Set(x, v)
      PROVE  Objects'
  <2>1. /\ v \in Settable(x, Strings, Lists) /\ object' = [object EXCEPT ![x] = v]
        /\ UNCHANGED <<lists, holder, handed>>
        BY <1>5 DEF Set
  <2>2. x \in FieldsOf(Root) /\ (Held(x) = "value" => v \notin Lists \cup {Nil}) /\ v \notin Bad
        BY <1>1, <2>1, BadFacts, LibraryAssumption DEF Objects, Sane, Settable
  <2>3. Sane(object')
        BY <2>1, <2>2 DEF Objects, Sane
  <2> QED
      BY <1>2, <2>1, <2>3 DEF Objects
<1>6. ASSUME NEW l \in Lists, EditInPlace(l)
      PROVE  Objects'
  <2>1. PICK v \in Contents : lists' = [lists EXCEPT ![l] = v]
        BY <1>6 DEF EditInPlace
  <2>2. lists' \in [Lists -> Contents] /\ UNCHANGED <<object, holder>>
        BY <1>6, <2>1 DEF EditInPlace, Objects
  <2>3. DOMAIN handed' = Goroutines /\ \A h \in Goroutines : DOMAIN handed'[h] = {"as", "touched"}
        BY <1>6 DEF EditInPlace, Objects
  <2> QED
      BY <1>2, <2>2, <2>3 DEF Objects
<1>7. ASSUME NEW j \in Documents, Unmarshal(j)
      PROVE  Objects'
  <2>1. Sane(object')
        BY <1>1, <1>7, ReadSane DEF Unmarshal, Objects
  <2> QED
      BY <1>2, <1>7, <2>1 DEF Unmarshal, Objects
<1>8. ASSUME NEW j \in Documents, HolderUnmarshal(j)
      PROVE  Objects'
  <2>1. UNCHANGED <<lists, handed>>
        BY <1>8 DEF HolderUnmarshal
  <2>2. CASE j = JsonNull
    <3>1. holder' = [value |-> Nil, isSet |-> TRUE] /\ object' = object
          BY <1>8, <2>2 DEF HolderUnmarshal
    <3>2. holder'.value = Nil /\ DOMAIN holder' = {"value", "isSet"}
          BY <3>1
    <3> QED
        BY <1>2, <2>1, <3>1, <3>2 DEF Objects
  <2>3. CASE j # JsonNull /\ holder.value = Shared
    <3>1. holder' = [holder EXCEPT !.isSet = TRUE] /\ object' = ReadInto(object, j, Root)
          BY <1>8, <2>3 DEF HolderUnmarshal
    <3>2. holder'.value = Shared /\ DOMAIN holder' = {"value", "isSet"}
          BY <2>3, <3>1 DEF Objects
    <3>3. Sane(object')
          BY <1>1, <3>1, ReadSane DEF Objects
    <3> QED
        BY <1>2, <2>1, <3>2, <3>3 DEF Objects
  <2>4. CASE j # JsonNull /\ holder.value # Shared
    <3> DEFINE o == IF holder.value = Nil THEN Zero(Root) ELSE holder.value
               value == IF j = Malformed THEN holder.value ELSE ReadInto(o, j, Root)
    <3>1. holder' = [isSet |-> TRUE, value |-> value] /\ object' = object
          BY <1>8, <2>4 DEF HolderUnmarshal
    <3>2. Sane(o)
          BY <1>1, <2>4, ZeroSane DEF Objects
    <3>3. value \in {Nil, Shared} \/ Sane(value)
          BY <1>1, <3>2, ReadSane DEF Objects
    <3> HIDE DEF value
    <3>4. holder'.value = value /\ DOMAIN holder' = {"value", "isSet"}
          BY <3>1
    <3> QED
        BY <1>2, <2>1, <3>1, <3>3, <3>4 DEF Objects
  <2> QED
      BY <2>2, <2>3, <2>4
<1>9. ASSUME HolderSet \/ Unsetting
      PROVE  Objects'
  <2>1. PICK v \in {Nil, Shared}, b \in BOOLEAN : holder' = [value |-> v, isSet |-> b]
        BY <1>9 DEF HolderSet, Unsetting
  <2>2. holder'.value = v /\ DOMAIN holder' = {"value", "isSet"}
        BY <2>1
  <2>3. UNCHANGED <<object, lists, handed>>
        BY <1>9 DEF HolderSet, Unsetting
  <2> QED
      BY <1>2, <2>2, <2>3 DEF Objects
<1>10. CASE Change
      BY <1>10, <1>5, <1>6, <1>7, <1>8, <1>9 DEF Change
<1> QED
    BY <1>3, <1>4, <1>10, LibraryCases

\* What a step is for a goroutine's call: nothing, an edit of a slice, the call
\* being built, or a step of its own.
Untouching(g) == call'[g] = call[g] /\ handed'[g] = handed[g] /\ lists' = lists
Editing(g, l) ==
    /\ call'[g] = call[g]
    /\ \E v \in Contents : lists' = [lists EXCEPT ![l] = v]
    /\ handed'[g] = IF At(g, "ready") THEN [handed[g] EXCEPT !.touched = @ \cup {l}] ELSE handed[g]
Asking(g) ==
    /\ Built(g) /\ lists' = lists
    /\ call'[g].request # Nil =>
          Sane(call'[g].request) /\ handed'[g] = [as |-> InFull(call'[g].request), touched |-> {}]
Calling(g) == Moves(g) /\ ~Built(g) /\ handed' = handed /\ lists' = lists

LEMMA CallersCases ==
    ASSUME Base, Objects, [Next]_vars, NEW g \in Goroutines
    PROVE  Untouching(g) \/ (\E l \in Lists : Editing(g, l)) \/ Asking(g) \/ Calling(g)
<1>1. CASE /\ UNCHANGED libraryVars
           /\ \A h \in Goroutines : call'[h] = call[h] \/ (Moves(h) /\ ~Built(h))
      BY <1>1 DEF libraryVars, Untouching, Calling
<1>2. CASE Change /\ call' = call
  <2>1. CASE \E l \in Lists : EditInPlace(l)
    <3>1. PICK l \in Lists : EditInPlace(l)
          BY <2>1
    <3>2. Editing(g, l)
          BY <1>2, <3>1 DEF EditInPlace, Editing
    <3> QED
        BY <3>2
  <2>2. CASE ~\E l \in Lists : EditInPlace(l)
    <3>1. lists' = lists /\ handed' = handed
          BY <1>2, <2>2 DEF Change, Set, Unmarshal, HolderUnmarshal, HolderSet, Unsetting
    <3> QED
        BY <1>2, <3>1 DEF Untouching
  <2> QED
      BY <2>1, <2>2
<1>3. ASSUME NEW h \in Goroutines, Ask(h)
      PROVE  Untouching(g) \/ Asking(g)
  <2>1. PICK ctx \in Contexts[h], request \in {object, Gotten} :
           /\ Build(h, kind, ctx, request)
           /\ handed' = [handed EXCEPT ![h] = [as |-> IF request = Nil THEN Nil ELSE InFull(request),
                                               touched |-> {}]]
        BY <1>3 DEF Ask
  <2>2. lists' = lists
        BY <1>3 DEF Ask
  <2>3. /\ Built(h) /\ call'[h].request = request
        /\ \A d \in Callers \ {h} : call'[d] = call[d]
    <3>1. Shaped /\ h \in Callers /\ kind \in Operations
          BY LibraryAssumption DEF Base, ProgramTyped
    <3> QED
        BY <2>1, <3>1, Building
  <2>4. request # Nil => Sane(request)
    <3>1. CASE request = object
          BY <3>1 DEF Objects
    <3>2. CASE request = Gotten
          BY <3>2 DEF Objects, Gotten
    <3> QED
        BY <2>1, <3>1, <3>2
  <2>5. CASE g = h
    <3>1. request # Nil => handed'[h] = [as |-> InFull(request), touched |-> {}]
          BY <2>1 DEF Objects
    <3> QED
        BY <2>2, <2>3, <2>4, <2>5, <3>1 DEF Asking
  <2>6. CASE g # h
    <3>1. handed'[g] = handed[g]
          BY <2>1, <2>6 DEF Objects
    <3> QED
        BY <2>2, <2>3, <2>6, <3>1, LibraryAssumption DEF Untouching
  <2> QED
      BY <2>5, <2>6
<1> QED
    BY <1>1, <1>2, <1>3, LibraryCases

LEMMA ReadyAsBuiltStep ==
    ASSUME Base, Progress, Objects, ReadyAsBuilt, [Next]_vars
    PROVE  ReadyAsBuilt'
<1>1. Root' = Root /\ Bad' = Bad /\ Shaped' /\ CallStep
      BY KindStep, CallSteps DEF Base
<1>2. ASSUME NEW o, Sane(o)
      PROVE  Sane(o)'
      BY <1>1, <1>2 DEF Sane
<1> DEFINE AsBuilt(request, given, slices) ==
              /\ Sane(request) /\ DOMAIN given.as = FieldsOf(Root)
              /\ \A x \in FieldsOf(Root) :
                    \/ (IF request[x] \in Lists THEN slices[request[x]] ELSE request[x]) = given.as[x]
                    \/ request[x] \in Lists \cap given.touched
<1>3. \A g \in Goroutines : call[g].at = "ready" /\ call[g].request # Nil =>
         AsBuilt(call[g].request, handed[g], lists)
      BY DEF ReadyAsBuilt, InFull, Sane
<1>4. SUFFICES ASSUME NEW g \in Goroutines, call'[g].at = "ready", call'[g].request # Nil
               PROVE  AsBuilt(call'[g].request, handed'[g], lists')
  <2>1. ASSUME NEW g \in Goroutines, AsBuilt(call'[g].request, handed'[g], lists')
        PROVE  /\ Sane(call[g].request)' /\ DOMAIN handed'[g].as = FieldsOf(Root)
               /\ \A x \in FieldsOf(Root) : \/ InFull(call[g].request)'[x] = handed'[g].as[x]
                                          \/ call'[g].request[x] \in Lists \cap handed'[g].touched
    <3>1. Sane(call'[g].request) /\ DOMAIN call'[g].request = FieldsOf(Root)
          BY <2>1 DEF Sane
    <3>2. Sane(call[g].request)'
          BY <1>1, <3>1 DEF Sane
    <3> QED
        BY <2>1, <3>1, <3>2 DEF InFull
  <2> HIDE DEF AsBuilt
  <2> QED
      BY <1>1, <2>1 DEF ReadyAsBuilt
<1>5. CASE Untouching(g)
      BY <1>3, <1>4, <1>5 DEF Untouching
<1>6. ASSUME NEW l \in Lists, Editing(g, l)
      PROVE  AsBuilt(call'[g].request, handed'[g], lists')
  <2> DEFINE request == call[g].request
  <2>1. AsBuilt(request, handed[g], lists) /\ call'[g].request = request
        BY <1>3, <1>4, <1>6 DEF Editing
  <2>2. PICK v \in Contents : lists' = [lists EXCEPT ![l] = v]
        BY <1>6 DEF Editing
  <2>3. handed'[g].as = handed[g].as /\ handed'[g].touched = handed[g].touched \cup {l}
    <3>1. handed'[g] = [handed[g] EXCEPT !.touched = @ \cup {l}]
          BY <1>4, <1>6 DEF Editing, At
    <3> QED
        BY <3>1 DEF Objects
  <2>4. \A k \in Lists \ {l} : lists'[k] = lists[k]
        BY <2>2 DEF Objects
  <2> QED
      BY <2>1, <2>3, <2>4
<1>7. CASE Asking(g)
  <2>1. /\ Sane(call'[g].request) /\ lists' = lists
        /\ handed'[g].as = InFull(call'[g].request)
        BY <1>4, <1>7 DEF Asking
  <2> QED
      BY <2>1 DEF InFull, Sane
<1>8. CASE Calling(g)
  <2>1. call[g].at = "ready" /\ call'[g].request = call[g].request
        BY <1>4, <1>8 DEF Calling, Moves, Cancelled, Failing, Sending, Hearing, Reading, Reporting,
                          Succeeding, SameArguments
  <2> QED
      BY <1>3, <1>4, <1>8, <2>1 DEF Calling
<1> QED
    BY <1>5, <1>6, <1>7, <1>8, CallersCases

\* A request that was sent.
Sent == SentAsBuilt /\ SentClean

LEMMA SentStep ==
    ASSUME Base, Progress, Objects, ReadyAsBuilt, Sent, [Next]_vars
    PROVE  Sent'
<1>1. Root' = Root /\ Bad' = Bad /\ ProgramTyped
      BY KindStep DEF Base
<1>2. SUFFICES ASSUME NEW g \in Goroutines, call'[g].sent # Nil,
                      NEW x \in DOMAIN call'[g].sent.body
               PROVE  /\ \/ call'[g].sent.body[x] = Marshalled(handed'[g].as)[x]
                         \/ /\ Held(x) = "slice" /\ call'[g].request[x] \in handed'[g].touched
                            /\ call'[g].sent.body[x] \in Contents
                      /\ call'[g].sent.body[x] \notin Bad
      BY <1>1 DEF Sent, SentAsBuilt, SentClean, Marshalled
<1>3. ASSUME call'[g].sent = call[g].sent, call'[g].request = call[g].request,
             handed'[g] = handed[g]
      PROVE  /\ \/ call'[g].sent.body[x] = Marshalled(handed'[g].as)[x]
                \/ /\ Held(x) = "slice" /\ call'[g].request[x] \in handed'[g].touched
                   /\ call'[g].sent.body[x] \in Contents
             /\ call'[g].sent.body[x] \notin Bad
      BY <1>2, <1>3 DEF Sent, SentAsBuilt, SentClean
<1>4. CASE Untouching(g)
      BY <1>3, <1>4 DEF Untouching
<1>5. ASSUME NEW l \in Lists, Editing(g, l)
      PROVE  handed'[g] = handed[g] /\ call'[g] = call[g]
  <2>1. call[g].at # "ready"
        BY <1>2, <1>5, LibraryAssumption DEF Progress, Editing
  <2> QED
      BY <1>5, <2>1 DEF Editing, At
<1>6. ~Asking(g)
      BY <1>2 DEF Asking, Built
<1>7. CASE Calling(g) /\ ~Sending(g)
      BY <1>3, <1>7 DEF Calling, Moves, Cancelled, Failing, Hearing, Reading, Reporting,
                        Succeeding, SameArguments, SameTraffic
<1>8. CASE Calling(g) /\ Sending(g)
  <2> DEFINE request == call[g].request
             full == InFull(request)
             as == handed[g].as
  <2>1. pc = "off"
    <3>1. g # main /\ g \in Callers
          BY LibraryAssumption, UsersAssumption
    <3>2. call[g].at # "idle"
          BY <1>8 DEF Sending
    <3> QED
        BY <3>1, <3>2 DEF Base, Alone
  <2>2. /\ call[g].at = "ready" /\ request # Nil /\ call'[g].request = request
        /\ call'[g].sent.body = Marshalled(full) /\ handed'[g] = handed[g]
        BY <1>8, <2>1 DEF Calling, Sending, SameArguments
  <2>3. /\ Sane(request) /\ DOMAIN as = FieldsOf(Root)
        /\ \A y \in FieldsOf(Root) : full[y] = as[y] \/ request[y] \in Lists \cap handed[g].touched
        BY <2>2 DEF ReadyAsBuilt
  <2>4. DOMAIN full = FieldsOf(Root)
        BY <2>3 DEF InFull, Sane
  <2>5. full[x] = IF request[x] \in Lists THEN lists[request[x]] ELSE request[x]
        BY <1>2, <2>2, <2>4 DEF InFull, Marshalled
  <2>6. x \in FieldsOf(Root)
        BY <1>2, <2>2, <2>4 DEF Marshalled
  <2>7. request[x] \in Lists => full[x] \in Contents
        BY <2>5 DEF Objects
  <2> HIDE DEF full, as, request
  <2>8. call'[g].sent.body[x] \notin Bad
    <3>1. full[x] \notin Bad
          BY <1>1, <2>3, <2>5, <2>6, <2>7, BadFacts DEF Sane
    <3>2. call'[g].sent.body[x] \in {full[x]} \cup Missing
          BY <2>2, <2>4, <2>6 DEF Marshalled, Missing
    <3> QED
        BY <1>1, <3>1, <3>2, BadFacts
  <2>9. CASE full[x] = as[x]
    <3>1. Marshalled(full)[x] = Marshalled(as)[x]
          BY <2>3, <2>4, <2>6, <2>9 DEF Marshalled
    <3> QED
        BY <2>2, <2>8, <3>1 DEF as
  <2>10. CASE request[x] \in Lists \cap handed[g].touched
    <3>1. Held(x) = "slice"
          BY <1>1, <2>3, <2>6, <2>10, RootFacts DEF Sane
    <3>2. call'[g].sent.body[x] \in Contents
          BY <2>2, <2>4, <2>6, <2>7, <2>10, LibraryAssumption DEF Marshalled
    <3> QED
        BY <2>2, <2>8, <2>10, <3>1, <3>2 DEF request
  <2> QED
      BY <2>3, <2>6, <2>9, <2>10
<1> QED
    BY <1>3, <1>4, <1>5, <1>6, <1>7, <1>8, CallersCases

----------------------------------------------------------------------------
(* Settings of the program *)

\* What main has read of the command line: for each option the value of the last
\* argument for it, and that of the last file that gives it one.
SetSoFar(o) ==
    \/ settings[o] = Blank /\ \A i \in 1..(next - 1) : argv[i].name # o
    \/ \E i \in 1..(next - 1) :
          /\ argv[i].name = o /\ settings[o] = Cut(o, argv[i].value)
          /\ \A k \in 1..(next - 1) : argv[k].name = o => k <= i
Gives(i, o) == argv[i].name = "file" /\ argv[i].value[o] # Nil
ReadSoFar(o) ==
    \/ params[o] = Blank /\ \A i \in 1..(next - 1) : ~Gives(i, o)
    \/ \E i \in 1..(next - 1) :
          /\ Gives(i, o) /\ params[o] = argv[i].value[o]
          /\ \A k \in 1..(next - 1) : Gives(k, o) => k <= i
SettingsSoFar ==
    /\ argv \in Seq(Arguments)
    /\ pc = "args" => \A o \in Options : SetSoFar(o) /\ ReadSoFar(o)

\* The program's own steps, and all others.
LEMMA ProgramCases ==
    ASSUME Base, [Next]_vars
    PROVE  \/ SetOption \/ ReadFile \/ UnknownArgument \/ MissingValue \/ Fill \/ Refuse \/ Connect
           \/ Report
           \/ UNCHANGED programVars
BY DEF Next, Done, vars, ProgramStep, LibraryStep, Program

LEMMA GreatestIs ==
    ASSUME NEW S \in SUBSET Int, NEW m \in S, \A k \in S : k <= m
    PROVE  Max(S) = m
<1>1. m \in S /\ \A k \in S : m >= k
      OBVIOUS
<1>2. Max(S) \in S /\ \A k \in S : Max(S) >= k
      BY <1>1 DEF Max
<1>3. Max(S) \in Int /\ m \in Int /\ m <= Max(S) /\ Max(S) <= m
      BY <1>2
<1> QED
    BY <1>3

LEMMA SettingsSoFarInit == Init => SettingsSoFar
<1> SUFFICES ASSUME Init
             PROVE  SettingsSoFar
    OBVIOUS
<1>1. CASE ProgramInit
  <2>1. PICK n \in 0..MaxArguments : argv \in [1..n -> Arguments]
        BY <1>1 DEF ProgramInit, BoundedSeq, SeqOf
  <2>2. n \in Nat
        BY ProgramAssumption
  <2>3. argv \in Seq(Arguments)
        BY <2>1, <2>2
  <2>4. next = 1 /\ \A o \in Options : settings[o] = Blank /\ params[o] = Blank
        BY <1>1 DEF ProgramInit, Unset
  <2> QED
      BY <2>3, <2>4 DEF SettingsSoFar, SetSoFar, ReadSoFar
<1>2. CASE NoProgram
  <2>1. argv = <<>> /\ pc = "off"
        BY <1>2 DEF NoProgram
  <2> QED
      BY <2>1 DEF SettingsSoFar
<1> QED
    BY <1>1, <1>2 DEF Init

\* An argument for something else leaves an option as it is.
LEMMA KeptSetting ==
    ASSUME NEW o \in Options, SetSoFar(o), settings'[o] = settings[o], argv' = argv,
           next' = next + 1, next \in Nat \ {0}, argv[next].name # o
    PROVE  SetSoFar(o)'
<1>1. 1..(next' - 1) = 1..(next - 1) \cup {next}
      OBVIOUS
<1>2. CASE settings[o] = Blank /\ \A i \in 1..(next - 1) : argv[i].name # o
      BY <1>1, <1>2 DEF SetSoFar
<1>3. ASSUME NEW i \in 1..(next - 1), argv[i].name = o, settings[o] = Cut(o, argv[i].value),
             \A k \in 1..(next - 1) : argv[k].name = o => k <= i
      PROVE  SetSoFar(o)'
  <2>1. /\ i \in 1..(next' - 1) /\ argv'[i].name = o /\ settings'[o] = Cut(o, argv'[i].value)
        /\ \A k \in 1..(next' - 1) : argv'[k].name = o => k <= i
        BY <1>1, <1>3
  <2> QED
      BY <2>1 DEF SetSoFar
<1> QED
    BY <1>2, <1>3 DEF SetSoFar

LEMMA SettingsSoFarStep ==
    ASSUME Base, SettingsSoFar, [Next]_vars
    PROVE  SettingsSoFar'
<1>1. argv' = argv
      BY ProgramCases DEF SetOption, ReadFile, UnknownArgument, MissingValue, Fill, Refuse, Connect,
                          Report, programVars
<1>2. CASE UNCHANGED programVars
      BY <1>2 DEF programVars, SettingsSoFar, SetSoFar, ReadSoFar, Gives
<1>3. CASE UnknownArgument \/ MissingValue \/ Fill \/ Refuse \/ Connect \/ Report
      BY <1>1, <1>3 DEF UnknownArgument, MissingValue, Fill, Refuse, Connect, Report, End,
                        SettingsSoFar
<1>4. CASE SetOption
  <2> DEFINE name == Argument.name
             v == Cut(name, Argument.value)
  <2>1. /\ pc = "args" /\ next <= Len(argv) /\ name \in Options
        /\ settings' = [settings EXCEPT ![name] = v]
        /\ next' = next + 1 /\ params' = params /\ next \in Nat \ {0}
        BY <1>4 DEF SetOption, Base, ProgramTyped
  <2>2. /\ settings'[name] = v
        /\ \A o \in Options \ {name} : settings'[o] = settings[o]
        BY <2>1 DEF Base, ProgramTyped
  <2>3. name = argv[next].name /\ v = Cut(argv[next].name, argv[next].value) /\ name # "file"
        BY <2>1 DEF Argument, Options
  <2>4. 1..(next' - 1) = 1..(next - 1) \cup {next}
        BY <2>1
  <2> HIDE DEF name, v
  <2>5. ASSUME NEW o \in Options
        PROVE  SetSoFar(o)'
    <3>1. CASE o = name
      <4>1. /\ next \in 1..(next' - 1) /\ argv'[next].name = o
            /\ settings'[o] = Cut(o, argv'[next].value)
            /\ \A k \in 1..(next' - 1) : k <= next
            BY <1>1, <2>1, <2>2, <2>3, <2>4, <3>1
      <4> QED
          BY <4>1 DEF SetSoFar
    <3>2. CASE o # name
      <4>1. settings'[o] = settings[o] /\ argv[next].name # o
            BY <2>2, <2>3, <3>2
      <4> QED
          BY <1>1, <2>1, <4>1, KeptSetting DEF SettingsSoFar
    <3> QED
        BY <3>1, <3>2
  <2>6. ASSUME NEW o \in Options
        PROVE  ReadSoFar(o)'
        BY <1>1, <2>1, <2>3, <2>4 DEF ReadSoFar, Gives, SettingsSoFar
  <2> QED
      BY <1>1, <2>5, <2>6 DEF SettingsSoFar
<1>5. CASE ReadFile
  <2>1. /\ pc = "args" /\ next <= Len(argv) /\ argv[next].name = "file"
        /\ \A o \in Options : params'[o] = IF argv[next].value[o] = Nil THEN params[o]
                                           ELSE argv[next].value[o]
        /\ next' = next + 1 /\ settings' = settings /\ next \in Nat \ {0}
        BY <1>5 DEF ReadFile, Argument, Base, ProgramTyped
  <2>2. 1..(next' - 1) = 1..(next - 1) \cup {next}
        BY <2>1
  <2>3. ASSUME NEW o \in Options
        PROVE  SetSoFar(o)'
    <3>1. o # "file"
          BY DEF Options
    <3> QED
        BY <1>1, <2>1, <3>1, KeptSetting DEF SettingsSoFar
  <2>4. ASSUME NEW o \in Options
        PROVE  ReadSoFar(o)'
    <3>1. CASE argv[next].value[o] = Nil
          BY <1>1, <2>1, <2>2, <3>1 DEF ReadSoFar, Gives, SettingsSoFar
    <3>2. CASE argv[next].value[o] # Nil
          BY <1>1, <2>1, <2>2, <3>2 DEF ReadSoFar, Gives
    <3> QED
        BY <3>1, <3>2
  <2> QED
      BY <1>1, <2>3, <2>4 DEF SettingsSoFar
<1> QED
    BY <1>2, <1>3, <1>4, <1>5, ProgramCases

\* What LastSettingWins says of one option.
WinsFor(o) ==
    LET i == LastOf(o)
        named == i # 0 /\ Cut(o, argv[i].value) # Blank
        files == GivenIn(o)
    IN /\ named => settings[o] = Cut(o, argv[i].value)
       /\ ~named => LET v == IF files = {} THEN Blank ELSE argv[Max(files)].value[o]
                    IN settings[o] = (IF o = "uri" /\ v = Blank THEN Default ELSE v)

LEMMA Filling ==
    ASSUME Base, SettingsSoFar, Fill, NEW o \in Options
    PROVE  WinsFor(o)'
<1> DEFINE v == IF GivenIn(o) = {} THEN Blank ELSE argv[Max(GivenIn(o))].value[o]
<1>1. /\ pc = "args" /\ argv' = argv /\ next = Len(argv) + 1
      /\ settings'[o] = IF settings[o] # Blank THEN settings[o]
                        ELSE IF o = "uri" /\ params[o] = Blank THEN Default
                        ELSE params[o]
      BY DEF Fill, Base, ProgramTyped
<1>2. DOMAIN argv = 1..(next - 1) /\ 1..(next - 1) \subseteq Int
      BY <1>1 DEF SettingsSoFar
<1>3. params[o] = v
  <2>1. GivenIn(o) = {i \in 1..(next - 1) : Gives(i, o)}
        BY <1>2 DEF GivenIn, Gives
  <2>2. CASE params[o] = Blank /\ \A i \in 1..(next - 1) : ~Gives(i, o)
        BY <2>1, <2>2
  <2>3. ASSUME NEW i \in 1..(next - 1), Gives(i, o), params[o] = argv[i].value[o],
               \A k \in 1..(next - 1) : Gives(k, o) => k <= i
        PROVE  params[o] = v
    <3>1. Max(GivenIn(o)) = i
          BY <1>2, <2>1, <2>3, GreatestIs
    <3> QED
        BY <2>1, <2>3, <3>1
  <2> QED
      BY <1>1, <2>2, <2>3 DEF SettingsSoFar, ReadSoFar
<1>4. (LastOf(o))' = LastOf(o) /\ (GivenIn(o))' = GivenIn(o)
      BY <1>1 DEF LastOf, GivenIn
<1>5. ASSUME settings[o] = Blank, LastOf(o) # 0 => Cut(o, argv[LastOf(o)].value) = Blank
      PROVE  WinsFor(o)'
      BY <1>1, <1>3, <1>4, <1>5 DEF WinsFor
<1> HIDE DEF v
<1> DEFINE at == {i \in DOMAIN argv : argv[i].name = o}
<1>6. CASE settings[o] = Blank /\ \A i \in 1..(next - 1) : argv[i].name # o
  <2>1. LastOf(o) = 0
        BY <1>2, <1>6 DEF LastOf
  <2> QED
      BY <1>5, <1>6, <2>1
<1>7. ASSUME NEW i \in 1..(next - 1), argv[i].name = o, settings[o] = Cut(o, argv[i].value),
             \A k \in 1..(next - 1) : argv[k].name = o => k <= i
      PROVE  WinsFor(o)'
  <2>1. i \in at /\ at \in SUBSET Int /\ \A k \in at : k <= i
        BY <1>2, <1>7
  <2>2. LastOf(o) = Max(at)
        BY <2>1 DEF LastOf
  <2> HIDE DEF at
  <2>3. LastOf(o) = i /\ i # 0
        BY <2>1, <2>2, GreatestIs
  <2>4. CASE settings[o] = Blank
        BY <1>5, <1>7, <2>3, <2>4
  <2>5. CASE settings[o] # Blank
        BY <1>1, <1>4, <1>7, <2>3, <2>5 DEF WinsFor
  <2> QED
      BY <2>4, <2>5
<1> QED
    BY <1>1, <1>6, <1>7 DEF SettingsSoFar, SetSoFar

LEMMA LastSettingStep ==
    ASSUME Base, SettingsSoFar, LastSettingWins, [Next]_vars
    PROVE  LastSettingWins'
<1>1. CASE SetOption \/ ReadFile \/ UnknownArgument \/ MissingValue \/ Refuse \/ Report
      BY <1>1 DEF SetOption, ReadFile, UnknownArgument, MissingValue, Refuse, Report, End,
                  LastSettingWins
<1>2. CASE UNCHANGED <<argv, settings>> /\ (pc' \in {"check", "call"} => pc \in {"check", "call"})
      BY <1>2 DEF LastSettingWins, LastOf, GivenIn
<1>3. CASE Fill
  <2>1. \A o \in Options : WinsFor(o)'
        BY <1>3, Filling
  <2> QED
      BY <2>1 DEF LastSettingWins, WinsFor
<1>4. CASE Connect
      BY <1>2, <1>4 DEF Connect
<1> QED
    BY <1>1, <1>2, <1>3, <1>4, ProgramCases DEF programVars

----------------------------------------------------------------------------
(* The program's call *)

\* The program calls once it has connected, and only then.
LEMMA MainIdle ==
    ASSUME Base, [Next]_vars, call[main].at = "idle", ~Connect
    PROVE  call'[main] = call[main]
<1>1. CASE UNCHANGED vars \/ Done
      BY <1>1 DEF Done, vars, apiVars
<1>2. CASE ProgramStep
  <2>1. ~Execute
        BY DEF Execute, Prepare, Own, Network, NoServer, NoRequest, Interrupted, ErrorAnswer,
               Success, CallFails, Respond, ReadBody, ReadFails, At
  <2> QED
      BY <1>2, <2>1 DEF ProgramStep, Program, SetOption, ReadFile, UnknownArgument, MissingValue,
                        Fill, Refuse, Report, apiVars
<1>3. CASE LibraryStep
  <2>1. main \notin Users /\ main \in Callers
        BY <1>3, UsersAssumption, ProgramAssumption DEF LibraryStep, Users
  <2> QED
      BY <2>1, CallSteps, EachCall DEF Base
<1> QED
    BY <1>1, <1>2, <1>3 DEF Next

\* A request of the program is what is in the data it was given.
AsAsked(request, f, op, ctx, given) ==
    /\ f = Configured(given.uri.host, given.uri.scheme) /\ ctx = Background
    /\ given.data \in Texts /\ op = given.endpoint /\ op \in Operations
    /\ Decodable(op, given.data)
    /\ request = Decoded(given.data.json, RequestModel[op])
Destination(given) == IF given.uri.host # Blank THEN given.uri.host ELSE TestServer
Protocol(given) == IF given.uri.scheme # Blank THEN given.uri.scheme ELSE https
Asked ==
    LET mine == call[main]
    IN /\ mine.at # "idle" =>
             pc \in {"call", "ended"} /\ AsAsked(mine.request, cfg, mine.op, mine.ctx, settings)
       /\ mine.sent # Nil => /\ mine.at # "idle" /\ mine.sent.body = Marshalled(mine.request)
                             /\ mine.sent.host = Destination(settings)
                             /\ mine.sent.scheme = Protocol(settings)

LEMMA AskedStep ==
    ASSUME Base, Progress, WellConfigured, Asked, [Next]_vars
    PROVE  Asked'
<1> USE DEF Base
<1>1. main \in Callers
      BY ProgramAssumption
<1>2. CASE Connect
  <2> DEFINE op == settings.endpoint
             request == Decoded(settings.data.json, RequestModel[op])
  <2>1. /\ pc' = "call" /\ settings' = settings /\ Build(main, op, Background, request)
        /\ cfg' = Configured(settings.uri.host, settings.uri.scheme)
        BY <1>2 DEF Connect, Configured
  <2>2. op \in Operations /\ settings.data \in Texts /\ Decodable(op, settings.data)
        BY <1>2, NotRefused DEF Connect
  <2> HIDE DEF request
  <2>3. /\ call'[main].op = op /\ call'[main].ctx = Background /\ call'[main].request = request
        /\ call'[main].sent = Nil
        BY <1>1, <2>1, <2>2, Building DEF Built
  <2>4. AsAsked(call'[main].request, cfg', call'[main].op, call'[main].ctx, settings')
        BY <2>1, <2>2, <2>3 DEF AsAsked, request
  <2> QED
      BY <2>1, <2>3, <2>4 DEF Asked
<1>3. CASE call[main].at = "idle" /\ ~Connect
  <2>1. call'[main] = call[main] /\ call[main].sent = Nil
        BY <1>1, <1>3, MainIdle DEF Progress
  <2> QED
      BY <1>3, <2>1 DEF Asked
<1>4. CASE call[main].at # "idle"
  <2>1. pc \in {"call", "ended"} /\ main \notin Goroutines
        BY <1>4, UsersAssumption DEF Asked
  <2>2. settings' = settings /\ cfg' = cfg /\ pc' \in {"call", "ended"}
    <3>1. ~Connect
          BY <2>1 DEF Connect
    <3> QED
        BY <2>1, <3>1, CfgStep, ProgramCases
           DEF SetOption, ReadFile, UnknownArgument, MissingValue, Fill, Refuse, Report, End,
               programVars
  <2>3. AsAsked(call[main].request, cfg, call[main].op, call[main].ctx, settings)
        BY <1>4 DEF Asked
  <2>4. CASE call'[main] = call[main]
        BY <2>2, <2>3, <2>4 DEF Asked
  <2>5. CASE Moves(main) /\ ~Sending(main)
    <3>1. /\ SameArguments(main) /\ call'[main].sent = call[main].sent
          /\ call'[main].at # "idle"
          BY <1>4, <2>5 DEF Moves, Built, Cancelled, Failing, Hearing, Reading, Reporting,
                            Succeeding, SameTraffic
    <3> QED
        BY <1>4, <2>2, <2>3, <3>1 DEF Asked, SameArguments
  <2>6. CASE Sending(main)
    <3> DEFINE url == ServerUrl(call[main].ctx, call[main].op)
               servers == ServersOf(cfg, call[main].op)
               ctx == call[main].ctx
               op == call[main].op
    <3>1. /\ SameArguments(main) /\ call'[main].at # "idle" /\ url # Nil
          /\ call'[main].sent.body = Marshalled(call[main].request)
          /\ call'[main].sent.host = Override(cfg.host, url.host)
          /\ call'[main].sent.scheme = Override(cfg.scheme, url.scheme)
          BY <2>1, <2>6 DEF Sending
    <3>2. cfg.host = settings.uri.host /\ cfg.scheme = settings.uri.scheme
          BY <2>3, ConfiguredFields DEF AsAsked
    <3>3. servers = NewConfiguration.servers /\ DOMAIN servers = 1..1
      <4>1. cfg.operationServers = <<>> /\ cfg.servers = NewConfiguration.servers
            BY <2>3, ConfiguredFields DEF AsAsked
      <4> QED
          BY <4>1, NewServers DEF ServersOf
    <3>4. PICK i \in DOMAIN servers : /\ url.host \in Allowed(servers[i].host, ctx, op)
                                     /\ url.scheme \in Allowed(servers[i].scheme, ctx, op)
          BY <3>1, ServerChosen
    <3>5. /\ Allowed(NewConfiguration.servers[1].host, ctx, op) = {TestServer}
          /\ Allowed(NewConfiguration.servers[1].scheme, ctx, op) = {https}
      <4>1. /\ NewConfiguration.servers[1].host = Part("tcr-address", TestServer, {})
            /\ NewConfiguration.servers[1].scheme = Part("protocol", https, {})
            BY DEF NewConfiguration
      <4>2. GivenBy(ctx, op) = <<>>
        <5>1. ctx.operationVariables = <<>> /\ ctx.variables = <<>>
              BY <2>3 DEF AsAsked, Background
        <5> QED
            BY <5>1 DEF GivenBy
      <4> QED
          BY <4>1, <4>2 DEF Allowed, Part
    <3>6. url.host = TestServer /\ url.scheme = https
      <4>1. i = 1
            BY <3>3, <3>4
      <4> QED
          BY <3>3, <3>4, <3>5, <4>1
    <3>7. /\ call'[main].sent.host = Destination(settings)
          /\ call'[main].sent.scheme = Protocol(settings)
          BY <3>1, <3>2, <3>6 DEF Override, Destination, Protocol
    <3> QED
        BY <2>2, <2>3, <3>1, <3>7 DEF Asked, SameArguments
  <2> QED
      BY <1>1, <2>4, <2>5, <2>6, CallSteps, EachCall
<1> QED
    BY <1>2, <1>3, <1>4

\* What is asked is complete.
LEMMA AskedComplete ==
    ASSUME Asked, Progress
    PROVE  RequestComplete
<1> DEFINE sent == call[main].sent
           op == call[main].op
           root == RequestModel[op]
           j == settings.data.json
<1> SUFFICES ASSUME sent # Nil
             PROVE  /\ \A x \in FieldsOf(root) : /\ IsRequired(x) => j[x] # "absent"
                                                 /\ j[x] = "value" <=> sent.body[x] = "value"
                    /\ Unmarshals(sent.body, root)
                    /\ sent.host = Destination(settings)
    BY DEF RequestComplete, Destination
<1>1. /\ sent.body = Marshalled(Decoded(j, root)) /\ sent.host = Destination(settings)
      /\ settings.data \in Texts /\ op \in Operations /\ Unmarshals(j, root)
      BY DEF Asked, AsAsked, Decodable
<1>2. root \in {"ResolveRequest", "ValidateRequest"} /\ root \in DOMAIN Models
      BY <1>1 DEF RequestModel, Models
<1> HIDE DEF sent, op, root, j
<1>3. Readable(j, root)
  <2>1. j \notin {Malformed, JsonNull}
        BY <1>1 DEF Unmarshals
  <2> QED
      BY <1>1, <1>2, <2>1, ProgramAssumption DEF j
<1>4. Legible(j, root)
      BY <1>1, <1>3 DEF Readable, Legible, Unmarshals, States, Missing, Mistakes
<1>5. Unmarshals(sent.body, root)
      BY <1>1, <1>2, <1>4, RoundTrip
<1>6. FieldsOf(root) \subseteq ReachedFields(j, root)
      BY DEF ReachedFields, Reached, Within
<1>7. ASSUME NEW x \in FieldsOf(root)
      PROVE  /\ IsRequired(x) => j[x] # "absent"
             /\ j[x] = "value" <=> sent.body[x] = "value"
  <2>1. x \in ReachedFields(j, root)
        BY <1>6
  <2>2. /\ IsRequired(x) => j[x] # "absent"
        /\ j[x] \in {"value"} \cup Missing
        BY <1>4, <2>1 DEF Legible
  <2>3. sent.body[x] = Marshalled(Decoded(j, root))[x] /\ x \in DOMAIN Decoded(j, root)
        BY <1>1, <2>1 DEF Decoded
  <2>4. CASE j[x] = "value"
        BY <2>1, <2>2, <2>3, <2>4, NilAssumption DEF Decoded, Marshalled, Missing
  <2>5. CASE j[x] # "value"
    <3>1. Decoded(j, root)[x] = Zero(x[1])[x] /\ x[1] = root
          BY <1>2, <2>1, <2>2, <2>5, FieldModel DEF Decoded
    <3>2. Zero(root)[x] \in {"zero", Nil}
          BY DEF Zero
    <3> QED
        BY <2>2, <2>3, <2>5, <3>1, <3>2, NilAssumption DEF Marshalled
  <2> QED
      BY <2>2, <2>4, <2>5
<1> QED
    BY <1>1, <1>5, <1>7

----------------------------------------------------------------------------
(* Crashes *)

\* Nothing came of a call only if the answer was empty or null.
EmptyAnswer(a) == a # Nil /\ a.status < 300 /\ a.body \in {Blank, JsonNull}
NothingFromNothing ==
    \A c \in Callers : call[c].at = "done" /\ call[c].err = Nil /\ call[c].resp = Nil =>
        EmptyAnswer(call[c].answer)

LEMMA NothingStep == Progress /\ NothingFromNothing /\ CallStep => NothingFromNothing'
<1> SUFFICES ASSUME Progress, NothingFromNothing, CallStep, NEW c \in Callers,
                    call'[c].at = "done", call'[c].err = Nil, call'[c].resp = Nil
             PROVE  EmptyAnswer(call'[c].answer)
    BY DEF NothingFromNothing, EmptyAnswer
<1>1. CASE call'[c] = call[c]
      BY <1>1 DEF NothingFromNothing
<1>2. CASE Built(c) \/ Cancelled(c) \/ Sending(c) \/ Hearing(c) \/ Reading(c)
      BY <1>2 DEF Built, Cancelled, Sending, Hearing, Reading
<1>3. CASE Failing(c) \/ Reporting(c)
      BY <1>3, NilAssumption DEF Failing, Reporting, ErrorValues
<1>4. CASE Succeeding(c)
  <2> DEFINE a == call[c].answer
             root == ResponseModel[call[c].op]
  <2>1. /\ a \in Answers[c] /\ a # Nil /\ call[c].op \in Operations
        /\ call'[c].answer = a /\ a.status < 300
        /\ call'[c].resp = (IF ~NilAnswer(a) /\ Decodes(a, root) THEN Result(a, root) ELSE Nil)
        /\ call'[c].err = (IF NilAnswer(a) \/ Decodes(a, root) THEN Nil ELSE "decoding")
        BY <1>4 DEF Succeeding, SameTraffic, Progress
  <2>2. NilAnswer(a) \/ Decodes(a, root)
        BY <2>1, NilAssumption DEF ErrorValues
  <2>3. NilAnswer(a)
        BY <2>1, <2>2, SuccessResult
  <2> QED
      BY <2>1, <2>3 DEF NilAnswer, EmptyAnswer
<1> QED
    BY <1>1, <1>2, <1>3, <1>4, EachCall DEF Moves

\* When the program has ended, its call has; before that it has no end.
Ended == /\ pc = "ended" => call[main].at \in {"idle", "done"}
         /\ pc # "ended" => end = Nil

\* main has a code of its own for each check.
LEMMA RefusalIsNoCrash ==
    ASSUME ProgramTyped
    PROVE  Refusal # "panic"
<1>1. settings.endpoint \in Operations \cup {other, Blank}
      BY DEF ProgramTyped, Options, Given
<1>2. Blank \notin Operations \cup {other} /\ Nil # "panic"
      BY ArgumentsAssumption, ProgramAssumption DEF Given, Options, Ends
<1>3. CASE settings.endpoint = Blank
      BY <1>2, <1>3, ProgramAssumption DEF Refusal
<1>4. CASE settings.endpoint = other
      BY <1>2, <1>4, ProgramAssumption DEF Refusal
<1>5. CASE settings.endpoint \in Operations /\ settings.data = Blank
      BY <1>2, <1>5, ProgramAssumption DEF Refusal
<1>6. CASE settings.endpoint \in Operations /\ settings.data # Blank
      BY <1>2, <1>6, ProgramAssumption DEF Refusal
<1> QED
    BY <1>1, <1>3, <1>4, <1>5, <1>6

LEMMA EndedStep ==
    ASSUME Base, SettingsSoFar, Ended, NothingFromNothing, CrashExplained, [Next]_vars
    PROVE  Ended' /\ CrashExplained'
<1> USE DEF Base
<1>1. CASE pc = "ended"
  <2>1. call'[main] = call[main]
    <3>1. CASE UNCHANGED vars \/ Done
          BY <3>1 DEF Done, vars, apiVars
    <3>2. CASE ProgramStep
      <4>1. ~Execute
            BY <1>1 DEF Ended, Execute, Prepare, Own, Network, NoServer, NoRequest, Interrupted,
                        ErrorAnswer, Success, CallFails, Respond, ReadBody, ReadFails, At
      <4> QED
          BY <1>1, <3>2, <4>1 DEF ProgramStep, Program, SetOption, ReadFile, UnknownArgument,
                                  MissingValue, Fill, Refuse, Connect, Report
    <3>3. CASE LibraryStep
          BY <1>1, <3>3 DEF LibraryStep
    <3> QED
        BY <3>1, <3>2, <3>3 DEF Next
  <2>2. pc' = "ended" /\ end' = end /\ argv' = argv
        BY <1>1, ProgramCases DEF SetOption, ReadFile, UnknownArgument, MissingValue, Fill, Refuse,
                                  Connect, Report, programVars
  <2> QED
      BY <1>1, <2>1, <2>2 DEF Ended, CrashExplained
<1>2. CASE pc # "ended" /\ (UNCHANGED programVars \/ SetOption \/ ReadFile \/ Fill \/ Connect)
  <2>1. pc' # "ended" /\ end' = Nil
        BY <1>2 DEF Ended, programVars, SetOption, ReadFile, Fill, Connect
  <2> QED
      BY <2>1, ProgramAssumption DEF Ended, CrashExplained, Ends
<1>3. CASE UnknownArgument
  <2>1. /\ pc' = "ended" /\ end' = "exit1" /\ call'[main].at = "idle"
        BY <1>3 DEF UnknownArgument, End, Alone, apiVars
  <2> QED
      BY <2>1 DEF Ended, CrashExplained
<1>4. CASE Refuse
  <2>1. /\ pc' = "ended" /\ end' = Refusal /\ call'[main].at = "idle"
        BY <1>4 DEF Refuse, End, Alone, apiVars
  <2> QED
      BY <2>1, RefusalIsNoCrash DEF Ended, CrashExplained
<1>5. CASE MissingValue
  <2>1. /\ pc' = "ended" /\ call'[main].at = "idle" /\ argv' = argv
        /\ argv[next].value = NoValue /\ next <= Len(argv)
        BY <1>5 DEF MissingValue, End, Alone, apiVars, Argument
  <2>2. next \in DOMAIN argv
        BY <2>1 DEF SettingsSoFar, ProgramTyped
  <2> QED
      BY <2>1, <2>2 DEF Ended, CrashExplained
<1>6. CASE Report
  <2>1. /\ pc' = "ended" /\ call' = call /\ call[main].at = "done"
        /\ end' = "panic" => call[main].err = Nil /\ call[main].resp = Nil
        BY <1>6 DEF Report, End, At, apiVars
  <2>2. end' = "panic" => EmptyAnswer(call[main].answer)
        BY <2>1, ProgramAssumption DEF NothingFromNothing
  <2> QED
      BY <2>1, <2>2 DEF Ended, CrashExplained, EmptyAnswer
<1> QED
    BY <1>1, <1>2, <1>3, <1>4, <1>5, <1>6, ProgramCases

----------------------------------------------------------------------------
(* Types *)

TypedCalls ==
    \A c \in Callers :
        /\ call[c].cancelled \in BOOLEAN /\ call[c].model \in BOOLEAN
        /\ call[c].err \in ErrorValues \cup {Nil}
        /\ call[c].resp # Nil => DOMAIN call[c].resp \subseteq Fields
        /\ c \notin Goroutines \cup {main} => call[c].at = "idle"

LEMMA ResultFields ==
    ASSUME NEW a, NEW op \in Operations
    PROVE  DOMAIN Result(a, ResponseModel[op]) \subseteq Fields
<1> DEFINE root == ResponseModel[op]
<1>1. root \in DOMAIN Models
      BY ResponseModels
<1> HIDE DEF root
<1>2. FieldsOf(root) \subseteq Fields
      BY <1>1 DEF Fields
<1>3. Reached(a.body, root) \subseteq DOMAIN Models
      BY <1>1, ReachedModels
<1>4. ReachedFields(a.body, root) \subseteq Fields
      BY <1>3 DEF ReachedFields, Fields
<1>5. DOMAIN Zero(root) = FieldsOf(root) /\ DOMAIN Decoded(a.body, root) = ReachedFields(a.body, root)
      BY DEF Zero, Decoded
<1>6. Result(a, root) \in {Zero(root), Decoded(a.body, root)}
      BY DEF Result
<1>7. CASE Result(a, root) = Zero(root)
      BY <1>2, <1>5, <1>7 DEF root
<1>8. CASE Result(a, root) = Decoded(a.body, root)
      BY <1>4, <1>5, <1>8 DEF root
<1> QED
    BY <1>6, <1>7, <1>8

LEMMA TypedCallsStep == Progress /\ TypedCalls /\ CallStep => TypedCalls'
<1> SUFFICES ASSUME Progress, TypedCalls, CallStep, NEW c \in Callers
             PROVE  /\ call'[c].cancelled \in BOOLEAN /\ call'[c].model \in BOOLEAN
                    /\ call'[c].err \in ErrorValues \cup {Nil}
                    /\ call'[c].resp # Nil => DOMAIN call'[c].resp \subseteq Fields
                    /\ c \notin Goroutines \cup {main} => call'[c].at = "idle"
    BY DEF TypedCalls
<1>1. c \notin Goroutines \cup {main} => call'[c].at = "idle"
      BY EachCall DEF TypedCalls, Users
<1>2. /\ call[c].cancelled \in BOOLEAN /\ call[c].model \in BOOLEAN
      /\ call[c].err \in ErrorValues \cup {Nil}
      /\ call[c].resp # Nil => DOMAIN call[c].resp \subseteq Fields
      BY DEF TypedCalls
<1> USE DEF SameArguments, SameResult
<1>3. CASE call'[c] = call[c]
      BY <1>1, <1>2, <1>3
<1>4. CASE Built(c)
      BY <1>1, <1>4 DEF Built
<1>5. CASE Cancelled(c) \/ Sending(c) \/ Hearing(c) \/ Reading(c)
      BY <1>1, <1>2, <1>5 DEF Cancelled, Sending, Hearing, Reading
<1>6. CASE Failing(c)
      BY <1>1, <1>2, <1>6 DEF Failing, ErrorValues
<1>7. CASE Reporting(c)
      BY <1>1, <1>2, <1>7 DEF Reporting, ErrorValues
<1>8. CASE Succeeding(c)
  <2> DEFINE a == call[c].answer
             op == call[c].op
             root == ResponseModel[op]
  <2>1. op \in Operations
        BY <1>8 DEF Succeeding, Progress
  <2>2. /\ call'[c].resp \in {Nil, Result(a, root)} /\ call'[c].err \in {Nil, "decoding"}
        /\ call'[c].model = call[c].model /\ call'[c].cancelled \in {call[c].cancelled, TRUE}
        BY <1>8 DEF Succeeding
  <2>3. call'[c].cancelled \in BOOLEAN /\ call'[c].model \in BOOLEAN
        BY <1>2, <2>2
  <2>4. call'[c].err \in ErrorValues \cup {Nil}
        BY <2>2 DEF ErrorValues
  <2>5. call'[c].resp # Nil => DOMAIN call'[c].resp \subseteq Fields
    <3>1. DOMAIN Result(a, root) \subseteq Fields
          BY <2>1, ResultFields
    <3> QED
        BY <2>2, <3>1
  <2> QED
      BY <1>1, <2>3, <2>4, <2>5
<1> QED
    BY <1>3, <1>4, <1>5, <1>6, <1>7, <1>8, EachCall DEF Moves

TypedProgram == Len(argv) <= MaxArguments /\ end \in Ends \cup {Nil}

LEMMA TypedProgramStep ==
    ASSUME Base, TypedProgram, [Next]_vars
    PROVE  TypedProgram'
<1>1. ASSUME Refuse
      PROVE  Refusal \in Ends \cup {Nil}
  <2>1. settings.endpoint \in Operations \cup {other, Blank}
        BY DEF Base, ProgramTyped, Options, Given
  <2>2. Blank \notin Operations \cup {other}
        BY ArgumentsAssumption DEF Given, Options
  <2>3. CASE settings.endpoint = Blank
        BY <2>2, <2>3, ProgramAssumption DEF Refusal, Ends
  <2>4. CASE settings.endpoint = other
        BY <2>2, <2>4, ProgramAssumption DEF Refusal, Ends
  <2>5. CASE settings.endpoint \in Operations /\ settings.data = Blank
        BY <2>2, <2>5, ProgramAssumption DEF Refusal, Ends
  <2>6. CASE settings.endpoint \in Operations /\ settings.data # Blank
        BY <2>2, <2>6, ProgramAssumption DEF Refusal, Ends
  <2> QED
      BY <2>1, <2>3, <2>4, <2>5, <2>6
<1>2. argv' = argv
      BY ProgramCases DEF SetOption, ReadFile, UnknownArgument, MissingValue, Fill, Refuse, Connect,
                          Report, programVars
<1>3. end' \in Ends \cup {Nil}
      BY <1>1, ProgramCases DEF TypedProgram, SetOption, ReadFile, UnknownArgument, MissingValue,
                                Fill, Refuse, Connect, Report, End, Ends, programVars
<1> QED
    BY <1>2, <1>3 DEF TypedProgram

\* Goroutines ask for one operation, in contexts of theirs, of the client they
\* share.
TypedLibrary ==
    /\ holder.isSet \in BOOLEAN /\ edits \in 0..MaxEdits
    /\ \A g \in Goroutines : handed[g].touched \subseteq Lists
    /\ pc = "off" => cfg \in Configurations
    /\ \A g \in Goroutines : /\ call[g].at # "idle" => call[g].op = kind /\ call[g].ctx \in Contexts[g]
                             /\ call[g].sent # Nil =>
                                   /\ call[g].at # "idle"
                                   /\ DOMAIN call[g].sent.body = FieldsOf(Root)
                                   /\ Addressed =>
                                        call[g].sent.host # Blank /\ call[g].sent.scheme # Blank

LEMMA TypedVariables ==
    ASSUME Base, Objects, TypedLibrary, [Next]_vars
    PROVE  /\ holder'.isSet \in BOOLEAN /\ edits' \in 0..MaxEdits
           /\ \A g \in Goroutines : handed'[g].touched \subseteq Lists
           /\ pc' = "off" => cfg' \in Configurations
<1>1. MaxEdits \in Nat
      BY LibraryAssumption
<1>2. pc' = "off" => cfg' \in Configurations
  <2>1. pc' = "off" => pc = "off" /\ ~Connect
        BY ProgramCases DEF SetOption, ReadFile, UnknownArgument, MissingValue, Fill, Refuse,
                            Connect, Report, End, programVars
  <2> QED
      BY <2>1, CfgStep DEF TypedLibrary
<1>3. CASE UNCHANGED libraryVars
      BY <1>2, <1>3 DEF libraryVars, TypedLibrary
<1>4. ASSUME NEW h \in Goroutines, Ask(h)
      PROVE  /\ holder'.isSet \in BOOLEAN /\ edits' \in 0..MaxEdits
             /\ \A g \in Goroutines : handed'[g].touched \subseteq Lists
  <2>1. /\ holder' = holder /\ edits' = edits
        /\ \E as : handed' = [handed EXCEPT ![h] = [as |-> as, touched |-> {}]]
        BY <1>4 DEF Ask
  <2>2. PICK as : handed' = [handed EXCEPT ![h] = [as |-> as, touched |-> {}]]
        BY <2>1
  <2>3. ASSUME NEW g \in Goroutines
        PROVE  handed'[g].touched \subseteq Lists
        BY <2>2 DEF Objects, TypedLibrary
  <2> QED
      BY <2>1, <2>3 DEF TypedLibrary
<1>5. CASE Change
  <2>1. edits' \in 0..MaxEdits
    <3>1. Edit
          BY <1>5 DEF Change, Set, EditInPlace, Unmarshal, HolderUnmarshal, HolderSet, Unsetting
    <3> QED
        BY <1>1, <3>1 DEF Edit, TypedLibrary
  <2>2. ASSUME NEW l \in Lists, EditInPlace(l)
        PROVE  holder' = holder /\ \A g \in Goroutines : handed'[g].touched \subseteq Lists
    <3>1. \A g \in Goroutines :
             \/ handed'[g] = [handed[g] EXCEPT !.touched = @ \cup {l}]
             \/ handed'[g] = handed[g]
          BY <2>2 DEF EditInPlace
    <3>2. ASSUME NEW g \in Goroutines
          PROVE  handed'[g].touched \subseteq Lists
      <4>1. DOMAIN handed[g] = {"as", "touched"} /\ handed[g].touched \subseteq Lists
            BY DEF Objects, TypedLibrary
      <4> QED
          BY <3>1, <4>1
    <3> QED
        BY <2>2, <3>2 DEF EditInPlace
  <2>3. ASSUME NEW j \in Documents, HolderUnmarshal(j)
        PROVE  holder'.isSet \in BOOLEAN /\ handed' = handed
    <3>1. DOMAIN holder = {"value", "isSet"}
          BY DEF Objects
    <3>2. \/ \E v : holder' = [value |-> v, isSet |-> TRUE]
          \/ holder' = [holder EXCEPT !.isSet = TRUE]
          \/ \E v : holder' = [isSet |-> TRUE, value |-> v]
      <4>1. CASE j = JsonNull
            BY <2>3, <4>1 DEF HolderUnmarshal
      <4>2. CASE j # JsonNull /\ holder.value = Shared
            BY <2>3, <4>2 DEF HolderUnmarshal
      <4>3. CASE j # JsonNull /\ holder.value # Shared
            BY <2>3, <4>3 DEF HolderUnmarshal
      <4> QED
          BY <4>1, <4>2, <4>3
    <3>3. holder'.isSet = TRUE
          BY <3>1, <3>2
    <3> QED
        BY <2>3, <3>3 DEF HolderUnmarshal
  <2>4. ASSUME HolderSet \/ Unsetting
        PROVE  holder'.isSet \in BOOLEAN /\ handed' = handed
    <3>1. PICK v \in {Nil, Shared}, b \in BOOLEAN : holder' = [value |-> v, isSet |-> b]
          BY <2>4 DEF HolderSet, Unsetting
    <3>2. holder'.isSet = b
          BY <3>1
    <3> QED
        BY <2>4, <3>2 DEF HolderSet, Unsetting
  <2>5. ASSUME \/ \E x \in DOMAIN object, v \in Strings \cup Lists \cup {Nil} : Set(x, v)
               \/ \E j \in Documents : Unmarshal(j)
        PROVE  holder' = holder /\ handed' = handed
        BY <2>5 DEF Set, Unmarshal
  <2>6. \/ \E x \in DOMAIN object, v \in Strings \cup Lists \cup {Nil} : Set(x, v)
        \/ \E j \in Documents : Unmarshal(j)
        \/ \E l \in Lists : EditInPlace(l)
        \/ \E j \in Documents : HolderUnmarshal(j)
        \/ HolderSet \/ Unsetting
        BY <1>5 DEF Change
  <2>7. /\ holder'.isSet \in BOOLEAN
        /\ handed' = handed \/ \A g \in Goroutines : handed'[g].touched \subseteq Lists
    <3>1. CASE \/ \E x \in DOMAIN object, v \in Strings \cup Lists \cup {Nil} : Set(x, v)
               \/ \E j \in Documents : Unmarshal(j)
          BY <2>5, <3>1 DEF TypedLibrary
    <3>2. CASE \E l \in Lists : EditInPlace(l)
          BY <2>2, <3>2 DEF TypedLibrary
    <3>3. CASE (\E j \in Documents : HolderUnmarshal(j)) \/ HolderSet \/ Unsetting
          BY <2>3, <2>4, <3>3
    <3> QED
        BY <2>6, <3>1, <3>2, <3>3
  <2> QED
      BY <1>2, <2>1, <2>7 DEF TypedLibrary
<1> QED
    BY <1>2, <1>3, <1>4, <1>5, LibraryCases

LEMMA TypedLibraryStep ==
    ASSUME Base, Progress, Objects, ReadyAsBuilt, TypedLibrary, [Next]_vars
    PROVE  TypedLibrary'
<1>1. /\ kind' = kind /\ Root' = Root /\ Addressed' = Addressed /\ ProgramTyped
      /\ Shaped' /\ CallStep
      BY KindStep, CallSteps DEF Base, Addressed
<1>2. SUFFICES ASSUME NEW g \in Goroutines
               PROVE  /\ call'[g].at # "idle" =>
                            call'[g].op = kind /\ call'[g].ctx \in Contexts[g]
                      /\ call'[g].sent # Nil =>
                            /\ call'[g].at # "idle"
                            /\ DOMAIN call'[g].sent.body = FieldsOf(Root)
                            /\ Addressed =>
                                  call'[g].sent.host # Blank /\ call'[g].sent.scheme # Blank
      BY <1>1, TypedVariables DEF TypedLibrary
<1>3. g \in Callers /\ g # main
      BY LibraryAssumption, UsersAssumption
<1>4. /\ call[g].at # "idle" => call[g].op = kind /\ call[g].ctx \in Contexts[g]
      /\ call[g].sent # Nil => /\ call[g].at # "idle"
                               /\ DOMAIN call[g].sent.body = FieldsOf(Root)
                               /\ Addressed =>
                                    call[g].sent.host # Blank /\ call[g].sent.scheme # Blank
      BY DEF TypedLibrary
<1>5. CASE call'[g] = call[g]
      BY <1>4, <1>5
<1>6. CASE Built(g)
  <2>1. PICK h \in Goroutines : Ask(h)
        BY <1>6, <1>3, LibraryCases DEF Built
  <2>2. PICK ctx \in Contexts[h], request \in {object, Gotten} : Build(h, kind, ctx, request)
        BY <2>1 DEF Ask
  <2>3. /\ call'[h].op = kind /\ call'[h].ctx = ctx
        /\ \A d \in Callers \ {h} : call'[d] = call[d]
    <3>1. Shaped /\ h \in Callers /\ kind \in Operations
          BY <1>1, LibraryAssumption DEF Base, ProgramTyped
    <3> QED
        BY <2>2, <3>1, Building
  <2>4. g = h
        BY <1>3, <1>6, <2>3 DEF Built
  <2> QED
      BY <1>6, <2>2, <2>3, <2>4 DEF Built
<1>7. CASE Moves(g) /\ ~Built(g) /\ ~Sending(g)
      BY <1>4, <1>7 DEF Moves, Cancelled, Failing, Hearing, Reading, Reporting, Succeeding,
                        SameArguments, SameTraffic
<1>8. CASE Sending(g)
  <2> DEFINE ctx == call[g].ctx
             op == call[g].op
             url == ServerUrl(ctx, op)
             request == call[g].request
  <2>1. pc = "off"
        BY <1>3, <1>8 DEF Sending, Base, Alone
  <2>2. /\ call[g].at = "ready" /\ call'[g].at = "wait" /\ url # Nil /\ request # Nil
        /\ call'[g].op = op /\ call'[g].ctx = ctx
        /\ call'[g].sent.host = Override(cfg.host, url.host)
        /\ call'[g].sent.scheme = Override(cfg.scheme, url.scheme)
        /\ call'[g].sent.body = Marshalled(InFull(request))
        BY <1>8, <2>1 DEF Sending, SameArguments
  <2>3. op = kind /\ op \in Operations /\ ctx \in Contexts[g] /\ cfg \in Configurations
        BY <1>1, <1>4, <2>1, <2>2 DEF TypedLibrary, ProgramTyped
  <2>4. DOMAIN call'[g].sent.body = FieldsOf(Root)
        BY <2>2 DEF ReadyAsBuilt, Sane, InFull, Marshalled
  <2>5. url = UrlFor(cfg, ctx, op)
        BY DEF ServerUrl
  <2> HIDE DEF url, ctx, op
  <2>6. Addressed => call'[g].sent.host # Blank /\ call'[g].sent.scheme # Blank
        BY <2>2, <2>3, <2>5 DEF Addressed, Override
  <2> QED
      BY <2>2, <2>3, <2>4, <2>6
<1> QED
    BY <1>1, <1>3, <1>5, <1>6, <1>7, <1>8, EachCall

----------------------------------------------------------------------------
(* Theorems *)

\* The inductive invariant: of calls, of the program and of the library.
CallInv == Base /\ Progress /\ ErrorCarriesModel /\ AllAnswerWith /\ NothingFromNothing
           /\ WellConfigured /\ AllWellSent /\ TypedCalls
ProgramInv == SettingsSoFar /\ LastSettingWins /\ Asked /\ Ended /\ CrashExplained
              /\ TypedProgram
LibraryInv == Objects /\ ReadyAsBuilt /\ Sent /\ TypedLibrary
Inv == CallInv /\ ProgramInv /\ LibraryInv

\* The invariant holds throughout.
THEOREM Invariant == Spec => []Inv
<1>1. Init => Inv
  <2> SUFFICES ASSUME Init
               PROVE  Inv
      OBVIOUS
  <2>1. \A c \in Callers : /\ call[c].at = "idle" /\ call[c].sent = Nil /\ call[c].answer = Nil
                           /\ call[c].resp = Nil /\ call[c].err = Nil
                           /\ call[c].model = FALSE /\ call[c].cancelled = FALSE
        BY DEF Init, NoCall
  <2>2. ErrorCarriesModel /\ AllAnswerWith /\ NothingFromNothing /\ AllWellSent
        BY <2>1 DEF ErrorCarriesModel, AllAnswerWith, NothingFromNothing, AllWellSent, At
  <2>3. CallInv
        BY <2>1, <2>2, BaseInit, ProgressInit, WellConfiguredInit DEF CallInv, TypedCalls
  <2>4. pc \in {"args", "off"} /\ end = Nil
        BY DEF Init, ProgramInit, NoProgram
  <2>5. LastSettingWins /\ CrashExplained
        BY <2>4, ProgramAssumption DEF LastSettingWins, CrashExplained, Ends
  <2>6. Asked /\ Ended
        BY <2>1, <2>4, ProgramAssumption DEF Asked, Ended
  <2>7. TypedProgram
    <3>1. Len(argv) <= MaxArguments
      <4>1. CASE ProgramInit
        <5>1. PICK n \in 0..MaxArguments : argv \in [1..n -> Arguments]
              BY <4>1 DEF ProgramInit, BoundedSeq, SeqOf
        <5>2. n \in Nat /\ n <= MaxArguments
              BY ProgramAssumption
        <5>3. Len(argv) = n
              BY <5>1, <5>2
        <5> QED
            BY <5>2, <5>3
      <4>2. CASE NoProgram
            BY <4>2, ProgramAssumption DEF NoProgram
      <4> QED
          BY <4>1, <4>2 DEF Init
    <3> QED
        BY <2>4, <3>1 DEF TypedProgram
  <2>8. TypedLibrary
    <3>1. \A g \in Goroutines : handed[g].touched = {}
      <4>1. handed \in Untouched
            BY DEF Init, LibraryInit, NoLibrary
      <4> QED
          BY <4>1 DEF Untouched
    <3>2. holder.isSet \in BOOLEAN
      <4>1. \/ holder = [value |-> Nil, isSet |-> FALSE]
            \/ \E v : holder = [value |-> v, isSet |-> TRUE]
            BY DEF Init, LibraryInit, NoLibrary
      <4>2. ASSUME NEW v, holder = [value |-> v, isSet |-> TRUE]
            PROVE  holder.isSet = TRUE
            BY <4>2
      <4>3. ASSUME holder = [value |-> Nil, isSet |-> FALSE]
            PROVE  holder.isSet = FALSE
            BY <4>3
      <4> QED
          BY <4>1, <4>2, <4>3
    <3>3. edits \in 0..MaxEdits
      <4>1. edits = 0
            BY DEF Init, LibraryInit, NoLibrary
      <4> QED
          BY <4>1, LibraryAssumption
    <3>4. pc = "off" => cfg \in Configurations
          BY DEF Init, ProgramInit
    <3> QED
        BY <2>1, <3>1, <3>2, <3>3, <3>4, LibraryAssumption DEF TypedLibrary
  <2> QED
      BY <2>3, <2>5, <2>6, <2>7, <2>8, SettingsSoFarInit, ObjectsInit
         DEF Inv, ProgramInv, LibraryInv, Sent
<1>2. Inv /\ [Next]_vars => Inv'
  <2> SUFFICES ASSUME Inv, [Next]_vars
               PROVE  Inv'
      OBVIOUS
  <2>1. Base /\ CallStep
        BY CallSteps DEF Inv, CallInv, Base
  <2>2. CallInv'
        BY <2>1, BaseStep, ProgressStep, ErrorsStep, ResultStep, NothingStep, WellConfiguredStep,
           DestinationStep, TypedCallsStep DEF Inv, CallInv
  <2>3. ProgramInv'
        BY <2>1, SettingsSoFarStep, LastSettingStep, AskedStep, EndedStep, TypedProgramStep
           DEF Inv, CallInv, ProgramInv
  <2>4. LibraryInv'
        BY <2>1, ObjectsStep, ReadyAsBuiltStep, SentStep, TypedLibraryStep
           DEF Inv, CallInv, LibraryInv
  <2> QED
      BY <2>2, <2>3, <2>4 DEF Inv
<1> QED
    BY <1>1, <1>2, PTL DEF Spec

\* Every variable has its type; hosts and schemes are not blank if no context
\* leads to a blank one.
THEOREM TypeCorrect == Addressed /\ Spec => []TypeOK
<1> SUFFICES ASSUME Addressed
             PROVE  Spec => []TypeOK
    OBVIOUS
<1>1. Inv => TypeOK
  <2> SUFFICES ASSUME Inv
               PROVE  TypeOK
      OBVIOUS
  <2> USE DEF Inv, CallInv, ProgramInv, LibraryInv
  <2>1. ASSUME NEW c \in Callers
        PROVE  CallTypeOK(c)
    <3> DEFINE sent == call[c].sent
               root == RequestModel[call[c].op]
    <3>1. ASSUME sent # Nil
          PROVE  sent.host # Blank /\ sent.scheme # Blank /\ DOMAIN sent.body \subseteq FieldsOf(root)
      <4>1. c \in Goroutines \cup {main} /\ call[c].at # "idle"
            BY <3>1 DEF TypedCalls, Progress
      <4>2. CASE c = main
        <5> DEFINE j == settings.data.json
        <5>1. /\ sent.host = Destination(settings) /\ sent.scheme = Protocol(settings)
              /\ call[c].op \in Operations /\ sent.body = Marshalled(Decoded(j, root))
              BY <3>1, <4>1, <4>2 DEF Asked, AsAsked
        <5>2. sent.host # Blank /\ sent.scheme # Blank
              BY <5>1, ProgramAssumption DEF Destination, Protocol
        <5>3. root \in {"ResolveRequest", "ValidateRequest"}
              BY <5>1 DEF RequestModel
        <5> HIDE DEF sent, root, j
        <5>4. DOMAIN sent.body = FieldsOf(root)
              BY <5>1, <5>3, RequestFields DEF Decoded, Marshalled
        <5> QED
            BY <5>2, <5>4 DEF sent, root
      <4>3. CASE c \in Goroutines
        <5>1. /\ call[c].op = kind /\ DOMAIN sent.body = FieldsOf(Root)
              /\ sent.host # Blank /\ sent.scheme # Blank
              BY <3>1, <4>1, <4>3 DEF TypedLibrary
        <5> QED
            BY <5>1 DEF Root
      <4> QED
          BY <4>1, <4>2, <4>3
    <3>2. /\ call[c].at \in Labels
          /\ call[c].at # "idle" => call[c].op \in Operations
          /\ call[c].answer \in Answers[c] \cup {Nil}
          BY DEF Progress
    <3> QED
        BY <3>1, <3>2 DEF CallTypeOK, TypedCalls, Labels
  <2>2. ProgramTypeOK
    <3>1. ASSUME NEW s \in {settings, params}
          PROVE  /\ s.uri = Blank \/ s.uri \in Uris
                 /\ s.endpoint \in Operations \cup {other, Blank}
                 /\ s.data = Blank \/ s.data \in Texts
      <4>1. s["uri"] \in Uris \cup {Blank} /\ s["endpoint"] \in Operations \cup {other, Blank}
            BY DEF Base, ProgramTyped, Options, Given
      <4>2. s["data"] \in Texts \cup {Blank}
            BY DEF Base, ProgramTyped, Options, Given
      <4> QED
          BY <4>1, <4>2
    <3> QED
        BY <3>1 DEF ProgramTypeOK, Base, ProgramTyped, SettingsSoFar, TypedProgram
  <2>3. LibraryTypeOK
        BY DEF LibraryTypeOK, Base, ProgramTyped, Objects, Sane, TypedLibrary
  <2> QED
      BY <2>1, <2>2, <2>3 DEF TypeOK
<1> QED
    BY <1>1, Invariant, PTL

\* An error carries the server's Error only for statuses the operation documents
\* and answers with the keys of one; an answer that failed is always reported
\* (ErrorAnswer: api_trusted_content_resolver.go and client.go).
THEOREM ErrorsCarryModels == Spec => []ErrorCarriesModel
<1>1. Inv => ErrorCarriesModel
      BY DEF Inv, CallInv
<1> QED
    BY <1>1, Invariant, PTL

\* What is returned as a result is an answer that succeeded, with every required
\* key and each value in its place, and survives being written and read again
\* (Success, decode and the UnmarshalJSON and ToMap of the models).
THEOREM ResultsAreAnswers == Spec => []ResultIsAnswer
<1>1. Inv => ResultIsAnswer
      BY AnswerWithMeans DEF Inv, CallInv
<1> QED
    BY <1>1, Invariant, PTL

\* A request goes where the configuration and the context say
\* (ServerURLWithContext and prepareRequest), whatever contexts there are.
THEOREM SentWhereChosenAlways == Spec => []SentWhereChosen
<1>1. Inv => SentWhereChosen
      BY WellSentMeans DEF Inv, CallInv
<1> QED
    BY <1>1, Invariant, PTL

\* What is sent is what the builder was given, but for slices edited in place
\* since, for any number of goroutines and edits (the builders in
\* api_trusted_content_resolver.go and the setters of the models).
THEOREM SentIsAsBuilt == Spec => []SentAsBuilt
<1>1. Inv => SentAsBuilt
      BY DEF Inv, LibraryInv, Sent
<1> QED
    BY <1>1, Invariant, PTL

\* A document that UnmarshalJSON refuses leaves no trace in objects or requests,
\* if what is in it can be told from everything else.
THEOREM RejectedLeavesNoTrace == RefusedDistinct /\ Spec => []NoTraceOfRejected
<1> SUFFICES ASSUME RefusedDistinct
             PROVE  Spec => []NoTraceOfRejected
    OBVIOUS
<1>1. Inv => NoTraceOfRejected
  <2> SUFFICES ASSUME Inv
               PROVE  NoTraceOfRejected
      OBVIOUS
  <2>1. Bad = Refused(Root)
        BY DEF Bad
  <2>2. \A x \in DOMAIN object : object[x] \notin Bad
        BY DEF Inv, LibraryInv, Objects, Sane
  <2>3. holder.value \notin {Nil, Shared} =>
           \A x \in DOMAIN holder.value : holder.value[x] \notin Bad
        BY DEF Inv, LibraryInv, Objects, Sane
  <2>4. SentClean
        BY DEF Inv, LibraryInv, Sent
  <2> QED
      BY <2>1, <2>2, <2>3, <2>4 DEF NoTraceOfRejected, SentClean
<1> QED
    BY <1>1, Invariant, PTL

\* Options get the value of the last argument for them, else of the last file
\* that has one, else the default (main.go), for command lines of any length.
THEOREM LastSettingsWin == Spec => []LastSettingWins
<1>1. Inv => LastSettingWins
      BY DEF Inv, ProgramInv
<1> QED
    BY <1>1, Invariant, PTL

\* Only complete requests are sent, to the server the URI names (main.go).
THEOREM RequestsComplete == Spec => []RequestComplete
<1>1. Inv => RequestComplete
      BY AskedComplete DEF Inv, CallInv, ProgramInv
<1> QED
    BY <1>1, Invariant, PTL

\* Only an argument without a value and an empty or null answer crash the
\* program (main.go).
THEOREM CrashesExplained == Spec => []CrashExplained
<1>1. Inv => CrashExplained
      BY DEF Inv, ProgramInv
<1> QED
    BY <1>1, Invariant, PTL
=============================================================================
