-------------------------- MODULE TrustListVerdict --------------------------
(***************************************************************************)
(* What TLResolver promises its callers, whatever the interleaving: a call *)
(* is answered once; a verified answer means the attested content really   *)
(* was published at the address asked for; a list that is returned was     *)
(* published somewhere.                                                    *)
(***************************************************************************)
EXTENDS TrustListData

VARIABLES published, req, answer

vars == <<published, req, answer>>

Pending(t) == req[t] # Nil /\ answer[t] = Nil

Permitted(r) ==
    {Null, Threw} \cup
    {a \in Results :
        /\ a.verified => r.hash \in Hashes /\ r.hash.of \in published[r.uri]
        /\ a.list # Nil => \E u \in Uris : a.list \in published[u]}

Init ==
    /\ published \in [Uris -> SUBSET Contents]
    /\ req = [t \in Threads |-> Nil]
    /\ answer = [t \in Threads |-> Nil]

Ask(t) ==
    /\ ~Pending(t)
    /\ \E r \in Requests : req' = [req EXCEPT ![t] = r]
    /\ answer' = [answer EXCEPT ![t] = Nil]
    /\ UNCHANGED published

Reply(t) ==
    /\ Pending(t)
    /\ \E a \in Permitted(req[t]) : answer' = [answer EXCEPT ![t] = a]
    /\ UNCHANGED <<published, req>>

Publish(u) ==
    /\ \E c \in Contents : published' = [published EXCEPT ![u] = @ \cup {c}]
    /\ UNCHANGED <<req, answer>>

Next == \/ \E t \in Threads : Ask(t) \/ Reply(t)
        \/ \E u \in Uris : Publish(u)

Spec == Init /\ [][Next]_vars
=============================================================================
