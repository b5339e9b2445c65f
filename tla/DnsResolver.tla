---------------------------- MODULE DnsResolver ----------------------------
(***************************************************************************)
(* DNSResolver.resolveDomain: the recursive walk along PTR records that    *)
(* collects the DIDs of URI records, with its call stack made explicit.    *)
(* The order in which a HashSet of PTR targets is walked is arbitrary, and *)
(* any query may be answered, be answered with an error code (an empty     *)
(* result for the code), or raise an IOException.                          *)
(***************************************************************************)
EXTENDS Naturals, Sequences, PointerResolution

VARIABLES
    pc,         \* idle; call: resolveDomain(processed, arg) is entered;
                \* loop: the for loop of the innermost call
    arg,        \* the domain of the call, after fixUri
    processed,  \* the domains whose PTR records have been read
    stack,      \* the calls under way, innermost first
    gathered    \* history: every DID a URI query of this resolution returned

vars == <<zone, pointer, faulty, outcome, pc, arg, processed, stack, gathered>>

Frames == [domain : Names, todo : SUBSET Names, results : SUBSET Dids, errors : BOOLEAN]

TypeOK ==
    /\ zone \in Zones
    /\ pointer \in Names \cup {Nil}
    /\ faulty \in BOOLEAN
    /\ outcome \in Outcomes \cup {Nil}
    /\ pc \in {"idle", "call", "loop"}
    /\ arg \in Names \cup {Nil}
    /\ processed \in SUBSET Names
    /\ stack \in Seq(Frames)
    /\ gathered \in SUBSET Dids

Init == /\ AInit
        /\ pc = "idle" /\ arg = Nil
        /\ processed = {} /\ stack = <<>> /\ gathered = {}

Top == stack[1]

\* Mutant: records of the answer that are no PTR records leave a null behind.
FrameUnfiltered(d, us) ==
    [domain |-> d, todo |-> us \cup {Nil}, results |-> {}, errors |-> FALSE]

Frame(d, us) == [domain |-> d, todo |-> us, results |-> {}, errors |-> FALSE]

\* The exception leaves every call: nothing on the way out catches it.
Throw == /\ outcome' = Failed
         /\ pc' = "idle" /\ arg' = Nil /\ stack' = <<>>
         /\ processed' = {} /\ gathered' = {}
         /\ UNCHANGED <<zone, pointer>>

----------------------------------------------------------------------------
\* The public resolveDomain, with a fresh set of processed domains.
Resolve(p) ==
    /\ pc = "idle"
    /\ pointer' = p /\ faulty' = FALSE /\ outcome' = Nil
    /\ pc' = "call" /\ arg' = Fix[p]
    /\ processed' = {} /\ gathered' = {}
    /\ UNCHANGED <<zone, stack>>

\* A domain that has been processed contributes the empty set.
Prune ==
    /\ pc = "call" /\ arg \in processed
    /\ pc' = "loop" /\ arg' = Nil
    /\ UNCHANGED <<zone, pointer, faulty, outcome, processed, stack, gathered>>

\* Mutant: a domain counts as processed only once its loop is over.
QueryPtrUnmarked ==
    /\ pc = "call" /\ arg \notin processed /\ arg \notin zone.illegal
    /\ \E us \in {zone.ptr[arg], {}} :
          /\ stack' = <<Frame(arg, us)>> \o stack
          /\ faulty' = (faulty \/ us # zone.ptr[arg])
    /\ pc' = "loop" /\ arg' = Nil
    /\ UNCHANGED <<zone, pointer, outcome, processed, gathered>>

\* resolvePtr answers; an error code is an empty answer.
QueryPtr ==
    /\ pc = "call" /\ arg \notin processed /\ arg \notin zone.illegal
    /\ \E us \in {zone.ptr[arg], {}} :
          /\ stack' = <<Frame(arg, us)>> \o stack
          /\ faulty' = (faulty \/ us # zone.ptr[arg])
    /\ processed' = processed \cup {arg}
    /\ pc' = "loop" /\ arg' = Nil
    /\ UNCHANGED <<zone, pointer, outcome, gathered>>

\* An IOException becomes a DnsException; an illegal name throws on its own.
\* Either way the calls around it are abandoned with what they had found.
PtrFails ==
    /\ pc = "call" /\ arg \notin processed
    /\ faulty' = TRUE
    /\ Throw

\* One turn of the loop: resolveUri of the target as it was spelled, then the
\* recursive call with it.
NextUri(n, ds, failed) ==
    /\ stack' = [stack EXCEPT ![1] =
                    [Top EXCEPT !.todo = @ \ {n}, !.results = @ \cup ds,
                                !.errors = @ \/ failed]]
    /\ gathered' = gathered \cup ds
    /\ faulty' = (faulty \/ failed \/ ds # zone.uri[n])
    /\ pc' = "call" /\ arg' = Fix[n]
    /\ UNCHANGED <<zone, pointer, outcome, processed>>

\* Mutant: the URI records of the fixed name are read.
QueryFixedUri(n) ==
    /\ pc = "loop" /\ n \in Top.todo
    /\ \E ds \in {zone.uri[Fix[n]], {}} : NextUri(n, ds, FALSE)

QueryUri(n) ==
    /\ pc = "loop" /\ n \in Top.todo
    /\ \E ds \in {zone.uri[n], {}} : NextUri(n, ds, FALSE)

\* The IOException is kept in errors and the recursion goes on.
UriFails(n) ==
    /\ pc = "loop" /\ n \in Top.todo
    /\ NextUri(n, {}, TRUE)

\* The loop is over: the call throws if it has errors and nothing else.
Hopeless == Top.results = {} /\ Top.errors

\* Mutant: a domain that gave nothing but errors is tried again.
GiveUpRetries ==
    /\ pc = "loop" /\ Top.todo = {} /\ Hopeless
    /\ pc' = "call" /\ arg' = Top.domain
    /\ stack' = Tail(stack) /\ processed' = processed \ {Top.domain}
    /\ UNCHANGED <<zone, pointer, faulty, outcome, gathered>>

GiveUp == /\ pc = "loop" /\ Top.todo = {} /\ Hopeless
          /\ UNCHANGED faulty
          /\ Throw

\* Mutant: the results of the recursive call replace those found before.
ReturnInstead ==
    /\ pc = "loop" /\ Top.todo = {} /\ ~Hopeless
    /\ Len(stack) > 1
    /\ stack' = [Tail(stack) EXCEPT ![1].results = Top.results]
    /\ UNCHANGED <<zone, pointer, faulty, outcome, pc, arg, processed, gathered>>

\* Mutant: only the calls under way count as processed.
ReturnForgets ==
    /\ pc = "loop" /\ Top.todo = {} /\ ~Hopeless
    /\ Len(stack) > 1
    /\ stack' = [Tail(stack) EXCEPT ![1].results = @ \cup Top.results]
    /\ processed' = processed \ {Top.domain}
    /\ UNCHANGED <<zone, pointer, faulty, outcome, pc, arg, gathered>>

\* Or it returns its results to the call around it.
Return ==
    /\ pc = "loop" /\ Top.todo = {} /\ ~Hopeless
    /\ Len(stack) > 1
    /\ stack' = [Tail(stack) EXCEPT ![1].results = @ \cup Top.results]
    /\ UNCHANGED <<zone, pointer, faulty, outcome, pc, arg, processed, gathered>>

ReturnToCaller ==
    /\ pc = "loop" /\ Top.todo = {} /\ ~Hopeless
    /\ Len(stack) = 1
    /\ outcome' = Found(Top.results)
    /\ pc' = "idle" /\ stack' = <<>> /\ processed' = {}
    /\ UNCHANGED <<zone, pointer, faulty, arg, gathered>>

----------------------------------------------------------------------------
Step == \/ Prune \/ QueryPtr \/ PtrFails
        \/ \E n \in Names : QueryUri(n) \/ UriFails(n)
        \/ GiveUp \/ Return \/ ReturnToCaller

Next == (\E p \in Names : Resolve(p)) \/ Step

Spec == Init /\ [][Next]_vars

\* The request thread runs, and dnsjava ends every query by an answer or by a
\* timeout exception.
FairSpec == Spec /\ WF_vars(Step)

----------------------------------------------------------------------------
(* Properties *)

\* No domain is being resolved twice at once: PTR cycles do not recurse, and
\* the call stack is no deeper than the number of domains.
NoRecursion ==
    \A i, j \in 1..Len(stack) : stack[i].domain = stack[j].domain => i = j

\* A result holds every DID any query returned: no call on the way back drops
\* what a nested call found, and none is reported that no query returned.
NothingLost ==
    outcome # Nil /\ outcome.kind = "dids" => outcome.dids = gathered

\* Each query brings the end of a resolution nearer, however targets are shared
\* and whatever fails: no domain is processed again and no PTR record is followed
\* again, so that a resolution queries each domain and each record at most once.
ToFollow == UNION {{<<stack[i].domain, n>> : n \in stack[i].todo} : i \in 1..Len(stack)}
Nearer ==
    \/ processed \subseteq processed' /\ processed' # processed
    \/ /\ processed' = processed
       /\ \/ ToFollow' \subseteq ToFollow /\ ToFollow' # ToFollow
          \/ /\ ToFollow' = ToFollow
             /\ \/ Len(stack') < Len(stack)
                \/ stack' = stack /\ pc = "call" /\ pc' = "loop"
EndsNearer == [][pc # "idle" /\ pc' # "idle" => Nearer]_vars

\* Every resolution ends, whatever cycles the PTR records form.
ResolutionEnds == pc = "call" ~> pc = "idle"

\* The walk implements its promise.
ImplementsPointerResolution == ASpec
=============================================================================
