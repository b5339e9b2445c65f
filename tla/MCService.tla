------------------------------ MODULE MCService ------------------------------
(* ResolutionService with two pointers that may lead to the same DIDs, one DID *)
(* with two endpoints and one that names none, one, or the same one twice.     *)
EXTENDS ResolutionService

CONSTANTS p, q, d1, d2, e1, e2

Lists == {<<p, q>>}
EndpointLists == [d \in Dids |-> IF d = d1 THEN {<<e1, e2>>} ELSE {<<>>, <<e1>>, <<e1, e1>>}]
==============================================================================
