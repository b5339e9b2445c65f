------------------------------- MODULE GoModels -------------------------------
(***************************************************************************)
(* The models of the Go package (clients/go/tcr): which fields a struct    *)
(* holds and how, what its accessors return, and its way to JSON and back. *)
(*                                                                         *)
(* A document is a function from fields, pairs of model and name, to what  *)
(* it holds there; an object is one from fields to values.  Objects of one *)
(* model have the same shape wherever they occur in a document; fields of  *)
(* models the document does not reach do not matter.                       *)
(***************************************************************************)
EXTENDS Integers, Sequences

CONSTANTS
    Blank,          \* the empty string, also an empty text
    Malformed,      \* in place of a document: neither JSON nor XML
    JsonNull, Xml,  \* the text null, and any XML document
    Nil             \* a nil pointer, slice or map

----------------------------------------------------------------------------
(* The structs: a field is held by value, or by pointer, slice or map.     *)

ErrorStruct == [code |-> "value", message |-> "value"]
ResolvedTrustListStruct == [vcUri |-> "pointer", tlUri |-> "pointer",
                            trustList |-> "map", vcVerified |-> "value"]
ResolvedDocStruct == [document |-> "map", endpoints |-> "slice", didVerified |-> "value"]
ResolvedDidStruct == [did |-> "value", resolvedDoc |-> "pointer", error |-> "pointer"]
ResolvedPointerStruct == [pointer |-> "value", dids |-> "slice", error |-> "pointer"]
ResolveResponseStruct == [trustSchemePointers |-> "slice", resolvedResults |-> "slice"]
ValidateResponseStruct == [didVerified |-> "value", endpoints |-> "slice"]
ResolveRequestStruct == [issuer |-> "value", trustSchemePointers |-> "slice",
                         endpointTypes |-> "slice"]
ValidateRequestStruct == [issuer |-> "value", did |-> "value", endpoints |-> "slice"]

(* With the keys UnmarshalJSON asks for and the models of nested objects.  *)
Model(struct, required, nested) ==
    [struct |-> struct, required |-> required, nested |-> nested]

Error == Model(ErrorStruct, {"code", "message"}, <<>>)
ResolvedTrustList == Model(ResolvedTrustListStruct, {"vcVerified"}, <<>>)
ResolvedDoc == Model(ResolvedDocStruct, {"document", "didVerified"},
                     [endpoints |-> "ResolvedTrustList"])
ResolvedDid == Model(ResolvedDidStruct, {"did"},
                     [resolvedDoc |-> "ResolvedDoc", error |-> "Error"])
ResolvedPointer == Model(ResolvedPointerStruct, {"pointer"}, [error |-> "Error"])
ResolveResponse == Model(ResolveResponseStruct, {"trustSchemePointers"},
                         [trustSchemePointers |-> "ResolvedPointer",
                          resolvedResults |-> "ResolvedDid"])
ValidateResponse == Model(ValidateResponseStruct, {"didVerified"},
                          [endpoints |-> "ResolvedTrustList"])
ResolveRequest == Model(ResolveRequestStruct, {"issuer", "trustSchemePointers"}, <<>>)
ValidateRequest == Model(ValidateRequestStruct, {"issuer", "did", "endpoints"}, <<>>)

Models == [Error |-> Error, ResolvedTrustList |-> ResolvedTrustList,
           ResolvedDoc |-> ResolvedDoc, ResolvedDid |-> ResolvedDid,
           ResolvedPointer |-> ResolvedPointer, ResolveResponse |-> ResolveResponse,
           ValidateResponse |-> ValidateResponse, ResolveRequest |-> ResolveRequest,
           ValidateRequest |-> ValidateRequest]

FieldsOf(root) == {<<root, f>> : f \in DOMAIN Models[root].struct}
Fields == UNION {FieldsOf(m) : m \in DOMAIN Models}
Held(x) == Models[x[1]].struct[x[2]]
IsRequired(x) == x[2] \in Models[x[1]].required

\* A field may be missing, null, of the wrong JSON type, or have a value; a
\* list of objects may also hold a null.
Missing == {"absent", "null"}
Mistakes == {"wrong", "nullItem"}
States == {"value"} \cup Missing \cup Mistakes

\* What stands for a text that is no document, or for no object at all, is not
\* one: neither as it is read nor as it is written.
ASSUME MarkersAssumption ==
    \A ms \in SUBSET DOMAIN Models :
        {Malformed, JsonNull, Xml, Nil}
            \cap [UNION {FieldsOf(m) : m \in ms} -> {"value", "zero", "null", "absent", Nil}] = {}

----------------------------------------------------------------------------
(* Accessors *)

\* A struct nothing was assigned to: New...WithDefaults.
Zero(root) == [x \in FieldsOf(root) |-> IF Held(x) = "value" THEN "zero" ELSE Nil]

\* New... takes the required fields in order of declaration.
New(root, given) == [x \in FieldsOf(root) |-> IF IsRequired(x) THEN given[x] ELSE Zero(root)[x]]

\* Get...Ok: an optional field is there unless it is nil, a required one in any
\* case.
GetOk(o, x) == [value |-> o[x], ok |-> IsRequired(x) \/ o[x] # Nil]

\* What Set... may be given: slices and maps are kept as they come and may be
\* nil; of anything else the field gets a copy, or a pointer to one.
Settable(x, values, references) ==
    IF Held(x) \in {"slice", "map"} THEN references \cup {Nil} ELSE values

----------------------------------------------------------------------------
(* JSON *)

\* The models of the objects in document j of model root: they nest three deep.
Within(j, ms) == ms \cup UNION {{Models[m].nested[f] :
                                   f \in {f \in DOMAIN Models[m].nested : j[<<m, f>>] = "value"}} :
                                m \in ms}
Reached(j, root) == Within(j, Within(j, Within(j, {root})))
ReachedFields(j, root) == UNION {FieldsOf(m) : m \in Reached(j, root)}

\* Whatever of j can be reached from a root has one of the states.
Readable(j, root) == \A x \in ReachedFields(j, root) : j[x] \in States

\* Mutant: ignores required keys.
UnmarshalsAnything(j, root) ==
    /\ j \notin {Malformed, JsonNull, Xml}
    /\ \A x \in ReachedFields(j, root) : j[x] \notin Mistakes

\* UnmarshalJSON checks that the keys of the required fields exist, in every
\* object; encoding/json fails on a wrong type, and a null in a list of
\* objects is an object without any key.
Unmarshals(j, root) ==
    /\ j \notin {Malformed, JsonNull, Xml}
    /\ \A x \in ReachedFields(j, root) :
          /\ IsRequired(x) => j[x] # "absent"
          /\ j[x] \notin Mistakes

\* What is read: null leaves a field as it was made.
Decoded(j, root) ==
    [x \in ReachedFields(j, root) |-> IF j[x] \in Missing THEN Zero(x[1])[x] ELSE j[x]]

\* Mutant: fields are assigned as they are read, before a mistake is found.
ReadPiecemeal(o, j, root) ==
    IF j \in {Malformed, JsonNull, Xml} THEN o
    ELSE [x \in DOMAIN o |-> IF j[x] \in Mistakes \cup {"absent"} THEN o[x]
                             ELSE Decoded(j, root)[x]]

\* UnmarshalJSON of an object: it reads into another one and assigns that.
ReadInto(o, j, root) == IF Unmarshals(j, root) THEN Decoded(j, root) ELSE o

\* Mutant: a null list is left out although its key is required.
MarshalledOmitEmpty(o) == [x \in DOMAIN o |-> IF o[x] = Nil THEN "absent" ELSE o[x]]

\* ToMap leaves out an optional field that is nil.
Marshalled(o) ==
    [x \in DOMAIN o |-> IF o[x] # Nil THEN o[x] ELSE IF IsRequired(x) THEN "null" ELSE "absent"]
===============================================================================
