------------------------------- MODULE GoLibrary -------------------------------
(***************************************************************************)
(* Programs that use the Go package as a library: goroutines that share an *)
(* APIClient, as its comment recommends, and the variable they build their *)
(* requests from.  They edit the variable with its setters, through the    *)
(* slices it refers to, and by unmarshalling, also through a Nullable that *)
(* holds a pointer to it.  A goroutine makes one call.  Statements of      *)
(* different goroutines on the shared variable do not overlap: that they   *)
(* lock it is up to their program.                                         *)
(***************************************************************************)
EXTENDS GoApi

CONSTANTS
    Goroutines,
    Contexts,       \* Contexts[g]: the contexts g may call with, Nil a nil one
    Configurations, \* of the shared client
    Strings,        \* what string fields are set to
    Lists,          \* slices
    Contents,       \* what is in them
    Documents,      \* what is unmarshalled
    Shared,         \* the address of the variable
    MaxEdits        \* bound on the number of edits of the variable

ASSUME LibraryAssumption ==
    /\ Goroutines \subseteq Callers /\ MaxEdits \in Nat
    /\ {} \notin {Strings, Lists, Contents}
    /\ (Strings \cup {"zero", Nil}) \cap Lists = {} /\ Nil \notin Strings \cup Contents
    /\ \A j \in Documents : \/ j \in {Malformed, JsonNull}
                            \/ DOMAIN j = Fields /\ \A x \in Fields : j[x] \notin Lists \cup {Nil}
    /\ \A f \in Configurations :
          \A servers \in {f.servers} \cup {f.operationServers[op] : op \in DOMAIN f.operationServers} :
              Len(servers) \in Nat /\ DOMAIN servers = 1..Len(servers)

VARIABLES
    kind,     \* the operation they ask for
    object,   \* the variable: a ResolveRequest or a ValidateRequest
    lists,    \* lists[l]: what is in slice l
    holder,   \* a NullableResolveRequest or NullableValidateRequest
    edits,    \* how often the variable, a slice or the holder was changed
    handed    \* history: the request as it was when g gave it to the builder,
              \* and the slices it referred to that were edited since

libraryVars == <<kind, object, lists, holder, edits, handed>>

Root == RequestModel[kind]

\* The object with what its slices refer to.
InFull(o) == [x \in DOMAIN o |-> IF o[x] \in Lists THEN lists[o[x]] ELSE o[x]]

LibraryTypeOK ==
    /\ kind \in Operations
    /\ DOMAIN object = FieldsOf(Root)
    /\ \A x \in FieldsOf(Root) : Held(x) = "value" => object[x] \notin Lists \cup {Nil}
    /\ lists \in [Lists -> Contents]
    /\ holder.isSet \in BOOLEAN
    /\ holder.value \in {Nil, Shared} \/ DOMAIN holder.value = FieldsOf(Root)
    /\ edits \in 0..MaxEdits
    /\ \A g \in Goroutines : handed[g].touched \subseteq Lists

Made(op) == New(RequestModel[op],
                [x \in FieldsOf(RequestModel[op]) |->
                    IF Held(x) = "value" THEN CHOOSE s \in Strings : TRUE ELSE CHOOSE l \in Lists : TRUE])

Untouched == [Goroutines -> {[as |-> Nil, touched |-> {}]}]

NoLibrary ==
    /\ kind = resolve /\ object = Zero(Root)
    /\ lists = [l \in Lists |-> CHOOSE v \in Contents : TRUE]
    /\ holder = [value |-> Nil, isSet |-> FALSE]
    /\ edits = 0 /\ handed \in Untouched

\* The holder is new, of the variable, or of another request.
LibraryInit ==
    /\ kind \in Operations /\ object = Made(kind)
    /\ lists = [l \in Lists |-> CHOOSE v \in Contents : TRUE]
    /\ holder \in {[value |-> Nil, isSet |-> FALSE]} \cup
                 {[value |-> v, isSet |-> TRUE] : v \in {Shared, Made(kind)}}
    /\ edits = 0 /\ handed \in Untouched

----------------------------------------------------------------------------
(* The shared variable *)

Edit == edits < MaxEdits /\ edits' = edits + 1

Set(x, v) ==
    /\ Edit
    /\ v \in Settable(x, Strings, Lists)
    /\ object' = [object EXCEPT ![x] = v]
    /\ UNCHANGED <<apiVars, kind, lists, holder, handed>>

\* An element of a slice is assigned, as the getters return the slice itself.
\* Built requests that refer to it share it.
EditInPlace(l) ==
    /\ Edit
    /\ \E v \in Contents : v # lists[l] /\ lists' = [lists EXCEPT ![l] = v]
    /\ handed' = [g \in Goroutines |->
                    IF At(g, "ready") THEN [handed[g] EXCEPT !.touched = @ \cup {l}] ELSE handed[g]]
    /\ UNCHANGED <<apiVars, kind, object, holder>>

\* json.Unmarshal(j, &object)
Unmarshal(j) ==
    /\ Edit
    /\ object' = ReadInto(object, j, Root)
    /\ UNCHANGED <<apiVars, kind, lists, holder, handed>>

----------------------------------------------------------------------------
(* The Nullable *)

HolderSet ==
    /\ Edit
    /\ holder' = [value |-> Shared, isSet |-> TRUE]
    /\ UNCHANGED <<apiVars, kind, object, lists, handed>>

Unsetting ==
    /\ Edit
    /\ holder' = [value |-> Nil, isSet |-> FALSE]
    /\ UNCHANGED <<apiVars, kind, object, lists, handed>>

\* It is set whatever comes of it.  A null drops the pointer; anything else is
\* read into what the pointer refers to, or into a new object.
HolderUnmarshal(j) ==
    /\ Edit
    /\ IF j = JsonNull
       THEN holder' = [value |-> Nil, isSet |-> TRUE] /\ UNCHANGED object
       ELSE IF holder.value = Shared
       THEN holder' = [holder EXCEPT !.isSet = TRUE] /\ object' = ReadInto(object, j, Root)
       ELSE /\ holder' = [isSet |-> TRUE,
                          value |-> IF j = Malformed THEN holder.value
                                    ELSE ReadInto(IF holder.value = Nil THEN Zero(Root) ELSE holder.value,
                                                  j, Root)]
            /\ UNCHANGED object
    /\ UNCHANGED <<apiVars, kind, lists, handed>>

----------------------------------------------------------------------------
(* Calls *)

\* What Get of the holder points to.
Gotten == IF holder.value = Shared THEN object ELSE holder.value

Ask(g) ==
    /\ \E ctx \in Contexts[g], request \in {object, Gotten} :
          /\ Build(g, kind, ctx, request)
          /\ handed' = [handed EXCEPT ![g] = [as |-> IF request = Nil THEN Nil ELSE InFull(request),
                                              touched |-> {}]]
    /\ UNCHANGED <<cfg, kind, object, lists, holder, edits>>

\* Mutant: the builder keeps a pointer to the caller's variable.
KeepsPointer(g) == object

\* What the request holds when it is executed: its own copy of the struct.
Kept(g) == call[g].request

Send(g) == call[g].request # Nil /\ Prepare(g, InFull(Kept(g)))

\* A goroutine executes what it has built; the network owes it nothing.
CallerStep(g) == (Send(g) \/ Own(g)) /\ UNCHANGED libraryVars

\* What changes nothing is a stuttering step.
Change == /\ \/ \E x \in DOMAIN object, v \in Strings \cup Lists \cup {Nil} : Set(x, v)
             \/ \E l \in Lists : EditInPlace(l)
             \/ \E j \in Documents : Unmarshal(j) \/ HolderUnmarshal(j)
             \/ HolderSet \/ Unsetting
          /\ <<object, lists, holder>>' # <<object, lists, holder>>

Library ==
    \/ Change
    \/ \E g \in Goroutines : \/ Ask(g) \/ CallerStep(g)
                             \/ (Network(g) \/ Cancel(g)) /\ UNCHANGED libraryVars

\* No context a goroutine has leads to a blank host or scheme where the
\* configuration has none.
Addressed ==
    \A f \in Configurations, g \in Goroutines, op \in Operations : \A ctx \in Contexts[g] :
        LET url == UrlFor(f, ctx, op)
        IN url # Nil => /\ f.host = Blank => url.host # Blank
                        /\ f.scheme = Blank => url.scheme # Blank

----------------------------------------------------------------------------
(* Properties *)

\* What is sent is the request as it was when it was built, whatever became of
\* the variable, the holder or the other goroutine's call since; only what is in
\* a slice may be as it was edited in place.
SentAsBuilt ==
    \A g \in Goroutines : call[g].sent # Nil =>
        \A x \in DOMAIN call[g].sent.body :
            \/ call[g].sent.body[x] = Marshalled(handed[g].as)[x]
            \/ /\ Held(x) = "slice" /\ call[g].request[x] \in handed[g].touched
               /\ call[g].sent.body[x] \in Contents

\* What is in documents, and in those that UnmarshalJSON of a model accepts and
\* refuses.
ValuesIn(docs, root) ==
    (UNION {{j[x] : x \in FieldsOf(root)} : j \in docs}) \ (Missing \cup Mistakes)
Accepted(root) == ValuesIn({j \in Documents : Unmarshals(j, root)}, root)
Refused(root) ==
    ValuesIn({j \in Documents \ {Malformed, JsonNull} : ~Unmarshals(j, root)}, root)

\* A document that is refused leaves no trace: not in the variable, not in an
\* object of the holder, and not in any request.
NoTraceOfRejected ==
    LET Trace(o) == \E x \in DOMAIN o : o[x] \in Refused(Root)
    IN /\ ~Trace(object)
       /\ holder.value \notin {Nil, Shared} => ~Trace(holder.value)
       /\ \A g \in Goroutines : call[g].sent # Nil => ~Trace(call[g].sent.body)

\* What refused documents hold can be told from everything else.
RefusedDistinct ==
    \A op \in Operations :
        LET root == RequestModel[op]
        IN Refused(root) \cap (Strings \cup Lists \cup Contents \cup {Nil, "zero"} \cup Accepted(root)) = {}

\* A call whose context has ended returns, even if the server never answers: it
\* is the only bound the package puts on a call.
CancelledCallsReturn ==
    \A g \in Goroutines : call[g].cancelled ~> At(g, "done")
===============================================================================
