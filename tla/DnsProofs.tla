------------------------------ MODULE DnsProofs ------------------------------
(***************************************************************************)
(* Proofs about DnsResolver, for every content of DNS: any number of names *)
(* and any PTR graph over them.  The walk never recurses into a domain it  *)
(* is already in, loses nothing on its way back, comes to an end within a  *)
(* number of steps that the number of names bounds, and implements         *)
(* PointerResolution.                                                      *)
(***************************************************************************)
EXTENDS DnsResolver, FiniteSetTheorems, SequenceTheorems, TLAPS

USE FixAssumption, ZonesAssumption, NilAssumption

Running == pc # "idle"

\* The domains that have been read and the one that is about to be.
Reached == processed \cup ({arg} \ {Nil})

\* What the control state says of the other variables.
Control ==
    /\ pc = "call" <=> arg # Nil
    /\ ~Running => stack = <<>> /\ (pointer = Nil \/ outcome # Nil)
    /\ Running => pointer \in Names /\ outcome = Nil
    /\ pc = "loop" => stack # <<>>
    /\ pc = "call" /\ stack = <<>> => processed = {}

\* The calls under way: each of a domain that counts as processed, each still
\* to walk some of its PTR targets, and one that keeps an error saw a query fail.
Calls ==
    \A i \in 1..Len(stack) :
        /\ stack[i].domain \in processed
        /\ stack[i].todo \subseteq zone.ptr[stack[i].domain]
        /\ stack[i].errors => faulty

\* The results of the calls under way are what was gathered.
Gathered ==
    /\ Running => gathered = UNION {stack[i].results : i \in 1..Len(stack)}
    /\ NothingLost

\* Only where the pointer leads is read, and only DIDs published there are found.
Sound ==
    Running =>
        /\ \A S \in SUBSET Names : Closed(zone, pointer, S) => Reached \subseteq S
        /\ gathered \subseteq DidsOf(zone, processed)

\* While no query went wrong, a PTR target of a processed domain has been
\* followed and its DIDs are gathered, or a call under way will see to it.
Complete ==
    Running /\ ~faulty =>
        /\ Fix[pointer] \in Reached
        /\ \A d \in processed : \A n \in zone.ptr[d] :
              \/ \E i \in 1..Len(stack) : stack[i].domain = d /\ n \in stack[i].todo
              \/ Fix[n] \in Reached /\ zone.uri[n] \subseteq gathered

Inv == TypeOK /\ Control /\ Calls /\ NoRecursion /\ Gathered /\ Sound /\ Complete

----------------------------------------------------------------------------
(* The call stack as a sequence, innermost call first *)

LEMMA PushSeq ==
    ASSUME NEW T, NEW s \in Seq(T), NEW e \in T
    PROVE  /\ <<e>> \o s \in Seq(T) /\ Len(<<e>> \o s) = Len(s) + 1
           /\ (<<e>> \o s)[1] = e
           /\ \A i \in 1..Len(s) : (<<e>> \o s)[i + 1] = s[i]
           /\ \A i \in 2..(Len(s) + 1) : i - 1 \in 1..Len(s) /\ (<<e>> \o s)[i] = s[i - 1]
OBVIOUS

LEMMA TopSeq ==
    ASSUME NEW T, NEW s \in Seq(T), s # <<>>, NEW e \in T
    PROVE  /\ Len(s) \in Nat /\ Len(s) >= 1 /\ 1 \in 1..Len(s) /\ s[1] \in T
           /\ [s EXCEPT ![1] = e] \in Seq(T) /\ Len([s EXCEPT ![1] = e]) = Len(s)
           /\ [s EXCEPT ![1] = e][1] = e
           /\ \A i \in 1..Len(s) : i # 1 => [s EXCEPT ![1] = e][i] = s[i]
OBVIOUS

LEMMA PopSeq ==
    ASSUME NEW T, NEW s \in Seq(T), s # <<>>
    PROVE  /\ Tail(s) \in Seq(T) /\ Len(Tail(s)) = Len(s) - 1
           /\ \A i \in 1..Len(Tail(s)) : i + 1 \in 1..Len(s) /\ Tail(s)[i] = s[i + 1]
OBVIOUS

LEMMA ZoneParts ==
    ASSUME TypeOK
    PROVE  /\ zone.ptr \in [Names -> SUBSET Names] /\ zone.uri \in [Names -> SUBSET Dids]
           /\ Fix \in [Names -> Names]
BY DEF TypeOK, ZoneType

LEMMA StackParts ==
    ASSUME TypeOK, NEW i \in 1..Len(stack)
    PROVE  /\ stack[i] \in Frames /\ stack[i].domain \in Names
           /\ stack[i].todo \subseteq Names /\ stack[i].results \subseteq Dids
<1>1. stack[i] \in Frames
      BY DEF TypeOK
<1> QED
    BY <1>1 DEF Frames

\* What each step that changes the stack leaves on it.
LEMMA Pushed ==
    ASSUME TypeOK, NEW us \in SUBSET Names, arg \in Names,
           stack' = <<Frame(arg, us)>> \o stack
    PROVE  /\ stack' \in Seq(Frames) /\ Len(stack') = Len(stack) + 1
           /\ stack'[1] = Frame(arg, us) /\ Frame(arg, us) \in Frames
           /\ \A i \in 1..Len(stack) : stack'[i + 1] = stack[i]
           /\ \A i \in 2..Len(stack') : i - 1 \in 1..Len(stack) /\ stack'[i] = stack[i - 1]
<1>1. Frame(arg, us) \in Frames
      BY DEF Frame, Frames
<1>2. stack \in Seq(Frames)
      BY DEF TypeOK
<1> QED
    BY <1>1, <1>2, PushSeq

LEMMA Looped ==
    ASSUME TypeOK, stack # <<>>, NEW n \in Names, NEW ds \in SUBSET Dids,
           NEW failed \in BOOLEAN, NextUri(n, ds, failed)
    PROVE  /\ stack' \in Seq(Frames) /\ Len(stack') = Len(stack)
           /\ Len(stack) \in Nat /\ 1 \in 1..Len(stack)
           /\ stack'[1].domain = Top.domain
           /\ stack'[1].todo = Top.todo \ {n}
           /\ stack'[1].results = Top.results \cup ds
           /\ stack'[1].errors = (Top.errors \/ failed)
           /\ \A i \in 1..Len(stack) : i # 1 => stack'[i] = stack[i]
<1>1. stack \in Seq(Frames) /\ Top \in Frames
      BY DEF TypeOK, Top
<1> DEFINE e == [Top EXCEPT !.todo = @ \ {n}, !.results = @ \cup ds,
                            !.errors = @ \/ failed]
<1>2. /\ e \in Frames /\ e.domain = Top.domain /\ e.todo = Top.todo \ {n}
      /\ e.results = Top.results \cup ds /\ e.errors = (Top.errors \/ failed)
      BY <1>1 DEF Frames
<1>3. stack' = [stack EXCEPT ![1] = e]
      BY Zenon DEF NextUri, Top
<1> HIDE DEF e
<1> QED
    BY <1>1, <1>2, <1>3, TopSeq

LEMMA Popped ==
    ASSUME TypeOK, Len(stack) > 1,
           stack' = [Tail(stack) EXCEPT ![1].results = @ \cup Top.results]
    PROVE  /\ stack' \in Seq(Frames) /\ Len(stack') = Len(stack) - 1
           /\ Len(stack) \in Nat /\ 1 \in 1..Len(stack')
           /\ stack'[1].domain = stack[2].domain
           /\ stack'[1].todo = stack[2].todo
           /\ stack'[1].results = stack[2].results \cup Top.results
           /\ stack'[1].errors = stack[2].errors
           /\ \A i \in 2..Len(stack') : stack'[i] = stack[i + 1]
           /\ \A i \in 1..Len(stack') : i + 1 \in 1..Len(stack)
<1> DEFINE rest == Tail(stack)
           e == [stack[2] EXCEPT !.results = @ \cup Top.results]
<1>1. stack \in Seq(Frames) /\ Len(stack) \in Nat /\ Top \in Frames /\ stack[2] \in Frames
      BY DEF TypeOK, Top
<1>2. /\ rest \in Seq(Frames) /\ Len(rest) = Len(stack) - 1
      /\ \A i \in 1..Len(rest) : i + 1 \in 1..Len(stack) /\ rest[i] = stack[i + 1]
      BY <1>1, PopSeq
<1>3. /\ e \in Frames /\ e.domain = stack[2].domain /\ e.todo = stack[2].todo
      /\ e.results = stack[2].results \cup Top.results /\ e.errors = stack[2].errors
      BY <1>1 DEF Frames
<1>4. rest[1] = stack[2] /\ rest # <<>>
      BY <1>1, <1>2
<1>5. stack' = [rest EXCEPT ![1] = e]
      BY <1>4
<1> HIDE DEF rest, e
<1>6. /\ stack' \in Seq(Frames) /\ Len(stack') = Len(rest) /\ stack'[1] = e
      /\ \A i \in 1..Len(rest) : i # 1 => stack'[i] = rest[i]
  <2>1. rest \in Seq(Frames) /\ rest # <<>> /\ e \in Frames
        BY <1>2, <1>3, <1>4
  <2>2. /\ [rest EXCEPT ![1] = e] \in Seq(Frames) /\ Len([rest EXCEPT ![1] = e]) = Len(rest)
        /\ [rest EXCEPT ![1] = e][1] = e
        /\ \A i \in 1..Len(rest) : i # 1 => [rest EXCEPT ![1] = e][i] = rest[i]
        BY ONLY <2>1, TopSeq
  <2> QED
      BY ONLY <2>2, <1>5
<1> QED
    BY <1>1, <1>2, <1>3, <1>6

\* The loop steps: a target that is left is a name, and so is what becomes of it.
LEMMA LoopFacts ==
    ASSUME TypeOK, Control, pc = "loop"
    PROVE  /\ stack # <<>> /\ Len(stack) \in Nat /\ 1 \in 1..Len(stack)
           /\ Top \in Frames /\ Top.domain \in Names /\ Top.todo \subseteq Names
           /\ Top.results \subseteq Dids /\ arg = Nil
           /\ \A n \in Top.todo : n \in Names /\ Fix[n] \in Names /\ Fix[n] # Nil
                                  /\ zone.uri[n] \subseteq Dids
<1>1. stack # <<>> /\ arg = Nil /\ stack \in Seq(Frames)
      BY DEF Control, TypeOK
<1>2. Len(stack) \in Nat /\ 1 \in 1..Len(stack)
      BY <1>1
<1> QED
    BY <1>1, <1>2, StackParts, ZoneParts DEF Top

LEMMA TypeInit == Init => TypeOK /\ Control
<1> SUFFICES ASSUME Init
             PROVE  TypeOK /\ Control
    OBVIOUS
<1>1. Control
      BY DEF Init, AInit, Control, Running
<1>2. stack \in Seq(Frames) /\ pc \in {"idle", "call", "loop"}
      BY DEF Init
<1>3. faulty \in BOOLEAN /\ outcome \in Outcomes \cup {Nil}
      BY DEF Init, AInit
<1> QED
    BY <1>1, <1>2, <1>3 DEF Init, AInit, TypeOK

LEMMA TypeStep == TypeOK /\ Control /\ [Next]_vars => TypeOK' /\ Control'
<1> SUFFICES ASSUME TypeOK, Control, [Next]_vars
             PROVE  TypeOK' /\ Control'
    OBVIOUS
<1> USE ZoneParts
<1>1. CASE UNCHANGED vars
      BY <1>1 DEF vars, TypeOK, Control, Running
<1>2. ASSUME NEW p \in Names, Resolve(p)
      PROVE  TypeOK' /\ Control'
      BY <1>2 DEF Resolve, TypeOK, Control, Running
<1>3. CASE Prune
      BY <1>3 DEF Prune, TypeOK, Control, Running
<1>4. CASE QueryPtr
  <2>1. arg \in Names /\ arg # Nil
        BY <1>4 DEF QueryPtr, Control, TypeOK
  <2>2. PICK us \in {zone.ptr[arg], {}} : stack' = <<Frame(arg, us)>> \o stack
        BY <1>4 DEF QueryPtr
  <2>3. us \in SUBSET Names
        BY <2>1, <2>2
  <2>4. stack' \in Seq(Frames) /\ Len(stack') = Len(stack) + 1
        BY <2>1, <2>2, <2>3, Pushed
  <2>5. stack' # <<>>
        BY <2>4 DEF TypeOK
  <2> QED
      BY <1>4, <2>1, <2>4, <2>5 DEF QueryPtr, TypeOK, Control, Running
<1>5. CASE PtrFails
      BY <1>5 DEF PtrFails, Throw, TypeOK, Control, Running, Outcomes
<1>6. ASSUME NEW n \in Names, QueryUri(n) \/ UriFails(n)
      PROVE  TypeOK' /\ Control'
  <2>1. pc = "loop" /\ n \in Top.todo
        BY <1>6 DEF QueryUri, UriFails
  <2>2. PICK ds \in SUBSET Dids, failed \in BOOLEAN : NextUri(n, ds, failed)
        BY <1>6, <2>1, LoopFacts DEF QueryUri, UriFails
  <2>3. stack' \in Seq(Frames) /\ stack' # <<>>
        BY <2>1, <2>2, LoopFacts, Looped
  <2> QED
      BY <2>1, <2>2, <2>3, LoopFacts DEF NextUri, TypeOK, Control, Running
<1>7. CASE GiveUp
      BY <1>7 DEF GiveUp, Throw, TypeOK, Control, Running, Outcomes
<1>8. CASE Return
  <2>1. Len(stack) > 1 /\ stack' = [Tail(stack) EXCEPT ![1].results = @ \cup Top.results]
        BY <1>8 DEF Return
  <2>2. stack' \in Seq(Frames) /\ 1 \in 1..Len(stack')
        BY <2>1, Popped
  <2>3. stack' # <<>>
        BY <2>2
  <2> QED
      BY <1>8, <2>2, <2>3 DEF Return, TypeOK, Control, Running
<1>9. CASE ReturnToCaller
  <2>1. Found(Top.results) \in Outcomes /\ Found(Top.results) # Nil
        BY <1>9, LoopFacts DEF ReturnToCaller, Outcomes
  <2>2. arg = Nil
        BY <1>9, LoopFacts DEF ReturnToCaller
  <2> QED
      BY <1>9, <2>1, <2>2 DEF ReturnToCaller, TypeOK, Control, Running
<1> QED
    BY <1>1, <1>2, <1>3, <1>4, <1>5, <1>6, <1>7, <1>8, <1>9 DEF Next, Step

----------------------------------------------------------------------------
\* The domains of the stack, its open targets and its errors stay as they should.
LEMMA CallsStep ==
    ASSUME TypeOK, Control, Calls, NoRecursion, [Next]_vars
    PROVE  Calls' /\ NoRecursion'
<1> USE ZoneParts
<1>0. stack \in Seq(Frames) /\ Len(stack) \in Nat
      BY DEF TypeOK
<1>1. CASE UNCHANGED vars
      BY <1>1 DEF vars, Calls, NoRecursion
<1>2. ASSUME NEW p \in Names, Resolve(p)
      PROVE  Calls' /\ NoRecursion'
      BY <1>2 DEF Resolve, Calls, NoRecursion, Control, Running
<1>3. CASE Prune
      BY <1>3 DEF Prune, Calls, NoRecursion
<1>4. CASE QueryPtr
  <2>1. arg \in Names
        BY <1>4 DEF QueryPtr, Control, TypeOK
  <2>2. PICK us \in {zone.ptr[arg], {}} : stack' = <<Frame(arg, us)>> \o stack
        BY <1>4 DEF QueryPtr
  <2>3. us \in SUBSET Names /\ us \subseteq zone.ptr[arg]
        BY <2>1, <2>2
  <2>4. /\ Len(stack') = Len(stack) + 1 /\ stack'[1] = Frame(arg, us)
        /\ \A i \in 2..Len(stack') : i - 1 \in 1..Len(stack) /\ stack'[i] = stack[i - 1]
        BY <2>1, <2>2, <2>3, Pushed
  <2>5. /\ stack'[1].domain = arg /\ stack'[1].todo = us /\ ~stack'[1].errors
        BY <2>4 DEF Frame
  <2>6. faulty => faulty'
        BY <1>4 DEF QueryPtr
  <2>7. arg \notin processed /\ processed' = processed \cup {arg} /\ zone' = zone
        BY <1>4 DEF QueryPtr
  <2>8. ASSUME NEW i \in 1..Len(stack')
        PROVE  /\ stack'[i].domain \in processed'
               /\ stack'[i].todo \subseteq zone'.ptr[stack'[i].domain]
               /\ stack'[i].errors => faulty'
    <3>1. CASE i = 1
          BY <2>3, <2>5, <2>7, <3>1
    <3>2. CASE i # 1
      <4>1. i \in 2..Len(stack')
            BY <3>2, <2>4, <1>0
      <4> QED
          BY <4>1, <2>4, <2>6, <2>7 DEF Calls
    <3> QED
        BY <3>1, <3>2
  <2>9. ASSUME NEW i \in 1..Len(stack'), NEW j \in 1..Len(stack'),
               stack'[i].domain = stack'[j].domain
        PROVE  i = j
    <3>1. \A k \in 1..Len(stack') : k = 1 \/ k \in 2..Len(stack')
          BY <2>4, <1>0
    <3>2. \A k \in 2..Len(stack') : stack'[k].domain \in processed
          BY <2>4 DEF Calls
    <3>3. CASE i = 1 \/ j = 1
          BY <2>5, <2>7, <2>9, <3>1, <3>2, <3>3
    <3>4. CASE i # 1 /\ j # 1
          BY <1>0, <2>4, <2>9, <3>1, <3>4 DEF NoRecursion
    <3> QED
        BY <3>3, <3>4
  <2> QED
      BY <2>8, <2>9 DEF Calls, NoRecursion
<1>5. CASE PtrFails
      BY <1>5 DEF PtrFails, Throw, Calls, NoRecursion
<1>6. ASSUME NEW n \in Names, QueryUri(n) \/ UriFails(n)
      PROVE  Calls' /\ NoRecursion'
  <2>1. pc = "loop" /\ n \in Top.todo /\ stack # <<>>
        BY <1>6, LoopFacts DEF QueryUri, UriFails
  <2>2. PICK ds \in SUBSET Dids, failed \in BOOLEAN : NextUri(n, ds, failed)
        BY <1>6, <2>1, LoopFacts DEF QueryUri, UriFails
  <2>3. /\ Len(stack') = Len(stack) /\ 1 \in 1..Len(stack)
        /\ stack'[1].domain = Top.domain /\ stack'[1].todo \subseteq Top.todo
        /\ stack'[1].errors = (Top.errors \/ failed)
        /\ \A i \in 1..Len(stack) : i # 1 => stack'[i] = stack[i]
        BY <2>1, <2>2, Looped
  <2>4. /\ faulty \/ failed => faulty'
        /\ processed' = processed /\ zone' = zone
        BY <2>2 DEF NextUri
  <2>5. \A i \in 1..Len(stack) : stack'[i].domain = stack[i].domain
        BY <2>3 DEF Top
  <2>6. ASSUME NEW i \in 1..Len(stack)
        PROVE  /\ stack'[i].todo \subseteq stack[i].todo
               /\ stack'[i].errors => stack[i].errors \/ failed
        BY <2>3 DEF Top
  <2> QED
      BY <2>3, <2>4, <2>5, <2>6 DEF Calls, NoRecursion
<1>7. CASE GiveUp
      BY <1>7 DEF GiveUp, Throw, Calls, NoRecursion
<1>8. CASE Return
  <2>1. Len(stack) > 1 /\ stack' = [Tail(stack) EXCEPT ![1].results = @ \cup Top.results]
        BY <1>8 DEF Return
  <2>2. /\ Len(stack') = Len(stack) - 1
        /\ stack'[1].domain = stack[2].domain /\ stack'[1].todo = stack[2].todo
        /\ stack'[1].errors = stack[2].errors
        /\ \A i \in 2..Len(stack') : stack'[i] = stack[i + 1]
        /\ \A i \in 1..Len(stack') : i + 1 \in 1..Len(stack)
        BY <2>1, Popped
  <2>3. ASSUME NEW i \in 1..Len(stack')
        PROVE  /\ i + 1 \in 1..Len(stack)
               /\ stack'[i].domain = stack[i + 1].domain
               /\ stack'[i].todo = stack[i + 1].todo
               /\ stack'[i].errors = stack[i + 1].errors
        BY <1>0, <2>2
  <2>4. processed' = processed /\ zone' = zone /\ faulty' = faulty
        BY <1>8 DEF Return
  <2>5. Calls'
        BY <2>3, <2>4 DEF Calls
  <2>6. NoRecursion'
        BY <2>3 DEF NoRecursion
  <2> QED
      BY <2>5, <2>6
<1>9. CASE ReturnToCaller
      BY <1>9 DEF ReturnToCaller, Calls, NoRecursion
<1> QED
    BY <1>1, <1>2, <1>3, <1>4, <1>5, <1>6, <1>7, <1>8, <1>9 DEF Next, Step

----------------------------------------------------------------------------
\* What a call adds to its results is gathered, and a call that returns hands its
\* results on.
LEMMA GatheredStep ==
    ASSUME TypeOK, Control, Gathered, [Next]_vars
    PROVE  Gathered'
<1> USE ZoneParts
<1> DEFINE Results(s) == UNION {s[i].results : i \in 1..Len(s)}
<1>0. stack \in Seq(Frames) /\ Len(stack) \in Nat
      BY DEF TypeOK
<1>1. CASE UNCHANGED vars
      BY <1>1 DEF vars, Running, Gathered, NothingLost
<1>2. ASSUME NEW p \in Names, Resolve(p)
      PROVE  Gathered'
  <2>1. stack' = <<>> /\ gathered' = {} /\ outcome' = Nil
        BY <1>2 DEF Resolve, Control, Running
  <2>2. Results(stack') = {}
        BY <2>1
  <2> QED
      BY <2>1, <2>2 DEF Gathered, NothingLost
<1>3. CASE Prune
      BY <1>3 DEF Prune, Running, Gathered, NothingLost
<1>4. CASE QueryPtr
  <2>1. arg \in Names
        BY <1>4 DEF QueryPtr, Control, TypeOK
  <2>2. PICK us \in {zone.ptr[arg], {}} : stack' = <<Frame(arg, us)>> \o stack
        BY <1>4 DEF QueryPtr
  <2>3. us \in SUBSET Names
        BY <2>1, <2>2
  <2>4. /\ Len(stack') = Len(stack) + 1 /\ stack'[1].results = {}
        /\ \A i \in 1..Len(stack) : stack'[i + 1] = stack[i]
        /\ \A i \in 2..Len(stack') : i - 1 \in 1..Len(stack) /\ stack'[i] = stack[i - 1]
        BY <2>1, <2>2, <2>3, Pushed DEF Frame
  <2>5. ASSUME NEW x \in Results(stack)
        PROVE  x \in Results(stack')
    <3>1. PICK i \in 1..Len(stack) : x \in stack[i].results
          BY <2>5
    <3>2. i + 1 \in 1..Len(stack') /\ x \in stack'[i + 1].results
          BY <1>0, <2>4, <3>1
    <3> QED
        BY <3>2
  <2>6. ASSUME NEW x \in Results(stack')
        PROVE  x \in Results(stack)
    <3>1. PICK i \in 1..Len(stack') : x \in stack'[i].results
          BY <2>6
    <3>2. i \in 2..Len(stack')
          BY <1>0, <2>4, <3>1
    <3>3. i - 1 \in 1..Len(stack) /\ x \in stack[i - 1].results
          BY <2>4, <3>1, <3>2
    <3> QED
        BY <3>3
  <2>7. Running /\ outcome' = outcome /\ gathered' = gathered
        BY <1>4 DEF QueryPtr, Running
  <2> QED
      BY <2>5, <2>6, <2>7 DEF Gathered, NothingLost
<1>5. CASE PtrFails
      BY <1>5 DEF PtrFails, Throw, Failed, Running, Gathered, NothingLost
<1>6. ASSUME NEW n \in Names, QueryUri(n) \/ UriFails(n)
      PROVE  Gathered'
  <2>1. pc = "loop" /\ n \in Top.todo /\ stack # <<>>
        BY <1>6, LoopFacts DEF QueryUri, UriFails
  <2>2. PICK ds \in SUBSET Dids, failed \in BOOLEAN : NextUri(n, ds, failed)
        BY <1>6, <2>1, LoopFacts DEF QueryUri, UriFails
  <2>3. /\ Len(stack') = Len(stack) /\ 1 \in 1..Len(stack)
        /\ stack'[1].results = stack[1].results \cup ds
        /\ \A i \in 1..Len(stack) : i # 1 => stack'[i] = stack[i]
    <3>1. /\ Len(stack') = Len(stack) /\ 1 \in 1..Len(stack)
          /\ stack'[1].results = Top.results \cup ds
          /\ \A i \in 1..Len(stack) : i # 1 => stack'[i] = stack[i]
          BY ONLY TypeOK, n \in Names, ds \in SUBSET Dids, failed \in BOOLEAN, <2>1, <2>2, Looped
    <3> QED
        BY <3>1 DEF Top
  <2>4. Results(stack') \subseteq Results(stack) \cup ds
        BY <2>3
  <2>5. Results(stack) \subseteq Results(stack')
    <3>1. \A i \in 1..Len(stack) : stack[i].results \subseteq stack'[i].results
          BY <2>3
    <3> QED
        BY <2>3, <3>1
  <2>6. ds \subseteq Results(stack')
        BY <2>3
  <2>7. Running /\ outcome' = outcome /\ gathered' = gathered \cup ds
        BY <2>1, <2>2 DEF NextUri, Running
  <2> QED
      BY <2>4, <2>5, <2>6, <2>7 DEF Control, Gathered, NothingLost
<1>7. CASE GiveUp
      BY <1>7 DEF GiveUp, Throw, Failed, Running, Gathered, NothingLost
<1>8. CASE Return
  <2>1. Len(stack) > 1 /\ stack' = [Tail(stack) EXCEPT ![1].results = @ \cup Top.results]
        BY <1>8 DEF Return
  <2>2. /\ Len(stack') = Len(stack) - 1 /\ 1 \in 1..Len(stack')
        /\ stack'[1].results = stack[2].results \cup stack[1].results
        /\ \A i \in 2..Len(stack') : stack'[i] = stack[i + 1]
        /\ \A i \in 1..Len(stack') : i + 1 \in 1..Len(stack)
        BY <2>1, Popped DEF Top
  <2>3. ASSUME NEW x \in Results(stack)
        PROVE  x \in Results(stack')
    <3>1. PICK i \in 1..Len(stack) : x \in stack[i].results
          BY <2>3
    <3>2. CASE i \in {1, 2}
          BY <2>2, <3>1, <3>2
    <3>3. CASE i \notin {1, 2}
      <4>1. i - 1 \in 2..Len(stack') /\ i - 1 \in 1..Len(stack') /\ (i - 1) + 1 = i
            BY <1>0, <2>2, <3>1, <3>3
      <4>2. stack'[i - 1] = stack[i]
            BY <2>2, <4>1
      <4> QED
          BY <3>1, <4>1, <4>2
    <3> QED
        BY <3>2, <3>3
  <2>4. ASSUME NEW x \in Results(stack')
        PROVE  x \in Results(stack)
    <3>1. PICK i \in 1..Len(stack') : x \in stack'[i].results
          BY <2>4
    <3>2. CASE i = 1
      <4>1. 1 \in 1..Len(stack) /\ 2 \in 1..Len(stack)
            BY <1>0, <2>1
      <4> QED
          BY <2>2, <3>1, <3>2, <4>1
    <3>3. CASE i # 1
      <4>1. i \in 2..Len(stack')
            BY <1>0, <2>2, <3>1, <3>3
      <4>2. i + 1 \in 1..Len(stack) /\ x \in stack[i + 1].results
            BY <2>2, <3>1, <4>1
      <4> QED
          BY <4>2
    <3> QED
        BY <3>2, <3>3
  <2>5. Running /\ outcome' = outcome /\ gathered' = gathered
        BY <1>8 DEF Return, Running
  <2> QED
      BY <2>3, <2>4, <2>5 DEF Gathered, NothingLost
<1>9. CASE ReturnToCaller
  <2>1. Results(stack) = Top.results
    <3>1. 1..Len(stack) = {1}
          BY <1>9 DEF ReturnToCaller
    <3> QED
        BY <3>1 DEF Top
  <2>2. /\ outcome' = Found(Top.results) /\ Running /\ ~Running'
        /\ gathered' = gathered
        BY <1>9 DEF ReturnToCaller, Running
  <2> QED
      BY <2>1, <2>2 DEF Found, Gathered, NothingLost
<1> QED
    BY <1>1, <1>2, <1>3, <1>4, <1>5, <1>6, <1>7, <1>8, <1>9 DEF Next, Step

----------------------------------------------------------------------------
\* More processed domains have more DIDs.
LEMMA DidsOfMonotone ==
    ASSUME NEW z, NEW S, NEW T, S \subseteq T
    PROVE  DidsOf(z, S) \subseteq DidsOf(z, T)
BY DEF DidsOf

LEMMA SoundStep ==
    ASSUME TypeOK, Control, Calls, Sound, [Next]_vars
    PROVE  Sound'
<1> USE ZoneParts
<1>1. CASE UNCHANGED vars
      BY <1>1 DEF vars, Running, Sound, Reached, Closed, DidsOf
<1>2. ASSUME NEW p \in Names, Resolve(p)
      PROVE  Sound'
      BY <1>2 DEF Resolve, Sound, Reached, Closed
<1>3. CASE Prune
      BY <1>3 DEF Prune, Sound, Running, Reached, Closed, DidsOf
<1>4. CASE QueryPtr
  <2>1. /\ Running /\ processed' = processed \cup {arg} /\ arg' = Nil
        /\ zone' = zone /\ pointer' = pointer /\ gathered' = gathered
        BY <1>4 DEF QueryPtr, Running
  <2>2. Reached' \subseteq Reached
        BY <1>4, <2>1 DEF Reached, Control, QueryPtr
  <2>3. \A S \in SUBSET Names : Closed(zone, pointer, S) => Reached' \subseteq S
        BY <2>1, <2>2 DEF Sound
  <2>4. gathered \subseteq DidsOf(zone, processed')
        BY <2>1, DidsOfMonotone DEF Sound
  <2> QED
      BY <2>1, <2>3, <2>4 DEF Sound, Closed, DidsOf
<1>5. CASE PtrFails
      BY <1>5 DEF PtrFails, Throw, Sound, Running
<1>6. ASSUME NEW n \in Names, QueryUri(n) \/ UriFails(n)
      PROVE  Sound'
  <2>1. pc = "loop" /\ n \in Top.todo /\ 1 \in 1..Len(stack)
        BY <1>6, LoopFacts DEF QueryUri, UriFails
  <2>2. PICK ds \in {zone.uri[n], {}}, failed \in BOOLEAN : NextUri(n, ds, failed)
        BY <1>6, <2>1 DEF QueryUri, UriFails
  <2>3. Top.domain \in processed /\ n \in zone.ptr[Top.domain]
        BY <2>1 DEF Calls, Top
  <2>4. zone.uri[n] \subseteq DidsOf(zone, processed)
        BY <2>3 DEF DidsOf
  <2>5. /\ Running /\ processed' = processed /\ arg' = Fix[n]
        /\ zone' = zone /\ pointer' = pointer /\ gathered' = gathered \cup ds
        BY <2>1, <2>2 DEF NextUri, Running
  <2>6. gathered' \subseteq DidsOf(zone, processed)
        BY <2>2, <2>4, <2>5 DEF Sound
  <2>7. ASSUME NEW S \in SUBSET Names, Closed(zone, pointer, S)
        PROVE  Reached' \subseteq S
    <3>1. Reached \subseteq S
          BY <2>5, <2>7 DEF Sound
    <3>2. Fix[n] \in S
          BY <2>3, <2>7, <3>1 DEF Closed, Reached
    <3> QED
        BY <2>5, <3>1, <3>2 DEF Reached
  <2> QED
      BY <2>5, <2>6, <2>7 DEF Sound, Closed, DidsOf
<1>7. CASE GiveUp
      BY <1>7 DEF GiveUp, Throw, Sound, Running
<1>8. CASE Return
      BY <1>8 DEF Return, Sound, Running, Reached, Closed, DidsOf
<1>9. CASE ReturnToCaller
      BY <1>9 DEF ReturnToCaller, Sound, Running
<1> QED
    BY <1>1, <1>2, <1>3, <1>4, <1>5, <1>6, <1>7, <1>8, <1>9 DEF Next, Step

----------------------------------------------------------------------------
LEMMA CompleteStep ==
    ASSUME TypeOK, Control, Calls, Complete, [Next]_vars
    PROVE  Complete'
<1> USE ZoneParts
<1>0. stack \in Seq(Frames) /\ Len(stack) \in Nat /\ faulty \in BOOLEAN
      BY DEF TypeOK
<1>1. CASE UNCHANGED vars
      BY <1>1 DEF vars, Running, Complete, Reached
<1>2. ASSUME NEW p \in Names, Resolve(p)
      PROVE  Complete'
      BY <1>2 DEF Resolve, Complete, Reached
<1>3. CASE Prune
      BY <1>3 DEF Prune, Complete, Running, Reached
<1>4. CASE QueryPtr
  <2> SUFFICES ASSUME ~faulty'
               PROVE  Complete'
      BY DEF Complete
  <2>1. arg \in Names /\ arg # Nil
        BY <1>4 DEF QueryPtr, Control, TypeOK
  <2>2. stack' = <<Frame(arg, zone.ptr[arg])>> \o stack /\ ~faulty
        BY <1>4 DEF QueryPtr
  <2>3. zone.ptr[arg] \in SUBSET Names
        BY <2>1
  <2>4. /\ Len(stack') = Len(stack) + 1
        /\ stack'[1] = Frame(arg, zone.ptr[arg])
        /\ \A i \in 1..Len(stack) : stack'[i + 1] = stack[i]
        BY <2>1, <2>2, <2>3, Pushed
  <2>5. 1 \in 1..Len(stack') /\ \A i \in 1..Len(stack) : i + 1 \in 1..Len(stack')
        BY <1>0, <2>4
  <2>6. /\ Running /\ processed' = processed \cup {arg} /\ arg' = Nil
        /\ zone' = zone /\ pointer' = pointer /\ gathered' = gathered
        BY <1>4 DEF QueryPtr, Running
  <2>7. Reached' = Reached
        BY <2>1, <2>6 DEF Reached
  <2>8. ASSUME NEW d \in processed', NEW n \in zone.ptr[d]
        PROVE  \/ \E i \in 1..Len(stack') : stack'[i].domain = d /\ n \in stack'[i].todo
               \/ Fix[n] \in Reached /\ zone.uri[n] \subseteq gathered
    <3>1. CASE d = arg
          BY <2>4, <2>5, <2>8, <3>1 DEF Frame
    <3>2. CASE d # arg
      <4>1. \/ \E i \in 1..Len(stack) : stack[i].domain = d /\ n \in stack[i].todo
            \/ Fix[n] \in Reached /\ zone.uri[n] \subseteq gathered
            BY <2>2, <2>6, <2>8, <3>2 DEF Complete
      <4> QED
          BY <2>4, <2>5, <4>1
    <3> QED
        BY <3>1, <3>2
  <2> QED
      BY <2>2, <2>6, <2>7, <2>8 DEF Complete
<1>5. CASE PtrFails
      BY <1>5 DEF PtrFails, Throw, Complete, Running
<1>6. ASSUME NEW n \in Names, QueryUri(n) \/ UriFails(n)
      PROVE  Complete'
  <2> SUFFICES ASSUME ~faulty'
               PROVE  Complete'
      BY DEF Complete
  <2>1. pc = "loop" /\ n \in Top.todo /\ stack # <<>> /\ arg = Nil
        BY <1>6, LoopFacts DEF QueryUri, UriFails
  <2>2. zone.uri[n] \in SUBSET Dids /\ FALSE \in BOOLEAN
        OBVIOUS
  <2>3. NextUri(n, zone.uri[n], FALSE) /\ ~faulty
        BY <1>6 DEF QueryUri, UriFails, NextUri
  <2>4. /\ Len(stack') = Len(stack) /\ 1 \in 1..Len(stack)
        /\ stack'[1].domain = Top.domain /\ stack'[1].todo = Top.todo \ {n}
        /\ \A i \in 1..Len(stack) : i # 1 => stack'[i] = stack[i]
        BY ONLY TypeOK, n \in Names, <2>1, <2>2, <2>3, Looped
  <2>5. /\ Running /\ processed' = processed /\ arg' = Fix[n] /\ Fix[n] # Nil
        /\ zone' = zone /\ pointer' = pointer /\ gathered' = gathered \cup zone.uri[n]
        BY <2>1, <2>3, LoopFacts DEF NextUri, Running
  <2>6. Reached \subseteq Reached' /\ Fix[n] \in Reached'
        BY <2>1, <2>5 DEF Reached
  <2>7. ASSUME NEW d \in processed, NEW m \in zone.ptr[d], m # n
        PROVE  \/ \E i \in 1..Len(stack') : stack'[i].domain = d /\ m \in stack'[i].todo
               \/ Fix[m] \in Reached' /\ zone.uri[m] \subseteq gathered'
    <3>1. \/ \E i \in 1..Len(stack) : stack[i].domain = d /\ m \in stack[i].todo
          \/ Fix[m] \in Reached /\ zone.uri[m] \subseteq gathered
          BY <2>3, <2>5, <2>7 DEF Complete
    <3>2. ASSUME NEW i \in 1..Len(stack), stack[i].domain = d, m \in stack[i].todo
          PROVE  stack'[i].domain = d /\ m \in stack'[i].todo
          BY <2>4, <2>7, <3>2 DEF Top
    <3> QED
        BY <2>4, <2>5, <2>6, <3>1, <3>2
  <2>8. zone.uri[n] \subseteq gathered'
        BY <2>5
  <2>9. Fix[pointer] \in Reached'
        BY <2>3, <2>5, <2>6 DEF Complete
  <2> QED
      BY <2>5, <2>6, <2>7, <2>8, <2>9 DEF Complete
<1>7. CASE GiveUp
      BY <1>7 DEF GiveUp, Throw, Complete, Running
<1>8. CASE Return
  <2>1. Len(stack) > 1 /\ stack' = [Tail(stack) EXCEPT ![1].results = @ \cup Top.results]
        BY <1>8 DEF Return
  <2>2. /\ Len(stack') = Len(stack) - 1
        /\ stack'[1].domain = stack[2].domain /\ stack'[1].todo = stack[2].todo
        /\ \A i \in 2..Len(stack') : stack'[i] = stack[i + 1]
        BY <2>1, Popped
  <2>3. /\ zone' = zone /\ pointer' = pointer /\ faulty' = faulty /\ pc' = pc
        /\ arg' = arg /\ processed' = processed /\ gathered' = gathered
        /\ Top.todo = {} /\ Running
        BY <1>8 DEF Return, Running
  <2>4. ASSUME NEW i \in 1..Len(stack), NEW m \in stack[i].todo
        PROVE  \E j \in 1..Len(stack') : /\ stack'[j].domain = stack[i].domain
                                         /\ m \in stack'[j].todo
    <3>1. i # 1
          BY <2>3, <2>4 DEF Top
    <3>2. i - 1 \in 1..Len(stack') /\ (i = 2 \/ i - 1 \in 2..Len(stack')) /\ (i - 1) + 1 = i
          BY <1>0, <2>2, <3>1
    <3>3. stack'[i - 1].domain = stack[i].domain /\ stack'[i - 1].todo = stack[i].todo
      <4>1. CASE i = 2
            BY <2>2, <4>1
      <4>2. CASE i - 1 \in 2..Len(stack')
        <5>1. stack'[i - 1] = stack[i]
              BY <2>2, <3>2, <4>2
        <5> QED
            BY <5>1
      <4> QED
          BY <3>2, <4>1, <4>2
    <3> QED
        BY <2>4, <3>2, <3>3
  <2>5. Reached' = Reached
        BY <2>3 DEF Reached
  <2>6. ASSUME ~faulty, NEW d \in processed, NEW m \in zone.ptr[d]
        PROVE  \/ \E j \in 1..Len(stack') : stack'[j].domain = d /\ m \in stack'[j].todo
               \/ Fix[m] \in Reached /\ zone.uri[m] \subseteq gathered
    <3>1. CASE \E i \in 1..Len(stack) : stack[i].domain = d /\ m \in stack[i].todo
          BY <2>4, <3>1
    <3> QED
        BY <2>3, <2>6, <3>1 DEF Complete
  <2> QED
      BY <2>3, <2>5, <2>6 DEF Complete
<1>9. CASE ReturnToCaller
      BY <1>9 DEF ReturnToCaller, Complete, Running
<1> QED
    BY <1>1, <1>2, <1>3, <1>4, <1>5, <1>6, <1>7, <1>8, <1>9 DEF Next, Step

LEMMA InvInit == Init => Inv
<1> SUFFICES ASSUME Init
             PROVE  Inv
    OBVIOUS
<1>1. stack = <<>> /\ ~Running /\ outcome = Nil /\ Len(stack) = 0
      BY DEF Init, AInit, Running
<1> QED
    BY <1>1, TypeInit
    DEF Inv, Calls, NoRecursion, Gathered, NothingLost, Sound, Complete

LEMMA InvStep == Inv /\ [Next]_vars => Inv'
BY TypeStep, CallsStep, GatheredStep, SoundStep, CompleteStep DEF Inv

----------------------------------------------------------------------------
(* Every step is a step of PointerResolution, or changes nothing it can see *)

\* The names the walk has processed when it is over are closed under PTR records
\* unless a query went wrong: what it gathered is what the pointer leads to.
LEMMA AnswerIsPublished ==
    ASSUME Inv, ReturnToCaller
    PROVE  /\ Top.results \in SUBSET Published(zone, pointer)
           /\ ~faulty => Top.results = Published(zone, pointer)
<1>1. /\ pc = "loop" /\ Running /\ Len(stack) = 1 /\ Top.todo = {}
      /\ arg = Nil /\ Top.results \subseteq Dids /\ pointer \in Names
      BY LoopFacts DEF ReturnToCaller, Inv, Running, Control
<1>2. gathered = Top.results
  <2>1. 1..Len(stack) = {1}
        BY <1>1
  <2>2. gathered = UNION {stack[i].results : i \in 1..Len(stack)}
        BY <1>1 DEF Inv, Gathered
  <2> QED
      BY <2>1, <2>2 DEF Top
<1>3. processed \subseteq Names /\ Reached = processed
      BY <1>1 DEF Inv, TypeOK, Reached
<1>4. ASSUME NEW x \in gathered
      PROVE  x \in Published(zone, pointer)
  <2>1. ASSUME NEW S \in SUBSET Names, Closed(zone, pointer, S)
        PROVE  x \in DidsOf(zone, S)
    <3>1. processed \subseteq S
          BY <1>1, <1>3, <2>1 DEF Inv, Sound
    <3> QED
        BY <1>1, <1>4, <3>1, DidsOfMonotone DEF Inv, Sound
  <2> QED
      BY <1>1, <1>2, <1>4, <2>1 DEF Published
<1>5. ASSUME ~faulty, NEW x \in Published(zone, pointer)
      PROVE  x \in gathered
  <2>1. ASSUME NEW d \in processed, NEW n \in zone.ptr[d]
        PROVE  Fix[n] \in processed /\ zone.uri[n] \subseteq gathered
    <3>1. ~\E i \in 1..Len(stack) : n \in stack[i].todo
          BY <1>1 DEF Top
    <3> QED
        BY <1>1, <1>3, <1>5, <2>1, <3>1 DEF Inv, Complete
  <2>2. Closed(zone, pointer, processed)
        BY <1>1, <1>3, <1>5, <2>1 DEF Closed, Inv, Complete
  <2>3. x \in DidsOf(zone, processed)
        BY <1>3, <1>5, <2>2 DEF Published
  <2> QED
      BY <2>1, <2>3 DEF DidsOf
<1> QED
    BY <1>2, <1>4, <1>5

LEMMA StepRefines == Inv /\ [Next]_vars => [ANext]_avars
<1> SUFFICES ASSUME Inv, [Next]_vars
             PROVE  [ANext]_avars
    OBVIOUS
<1> USE DEF ANext, avars
<1>0. TypeOK /\ Control /\ faulty \in BOOLEAN
      BY DEF Inv, TypeOK
<1>1. CASE UNCHANGED vars
      BY <1>1 DEF vars
<1>2. ASSUME NEW p \in Names, Resolve(p)
      PROVE  Ask
      BY <1>0, <1>2 DEF Resolve, Ask, Control, Running
<1>3. CASE Prune
      BY <1>3 DEF Prune
<1>4. CASE QueryPtr
  <2>1. UNCHANGED <<zone, pointer, outcome>> /\ (faulty' = faulty \/ faulty' = TRUE)
        BY <1>0, <1>4 DEF QueryPtr
  <2>2. pointer # Nil /\ outcome = Nil
        BY <1>0, <1>4 DEF QueryPtr, Control, Running
  <2> QED
      BY <2>1, <2>2 DEF Fault
<1>5. CASE PtrFails
  <2>1. pointer # Nil /\ outcome = Nil
        BY <1>0, <1>5 DEF PtrFails, Control, Running
  <2>2. Fail
        BY <1>5, <2>1 DEF PtrFails, Throw, Fail
  <2> QED
      BY <2>2
<1>6. ASSUME NEW n \in Names, QueryUri(n) \/ UriFails(n)
      PROVE  [ANext]_avars
  <2>1. UNCHANGED <<zone, pointer, outcome>> /\ (faulty' = faulty \/ faulty' = TRUE)
        BY <1>0, <1>6 DEF QueryUri, UriFails, NextUri
  <2>2. pointer # Nil /\ outcome = Nil
        BY <1>0, <1>6 DEF QueryUri, UriFails, Control, Running
  <2> QED
      BY <2>1, <2>2 DEF Fault
<1>7. CASE GiveUp
  <2>1. pointer # Nil /\ outcome = Nil /\ 1 \in 1..Len(stack)
        BY <1>0, <1>7, LoopFacts DEF GiveUp, Control, Running
  <2>2. faulty
        BY <1>7, <2>1 DEF GiveUp, Hopeless, Inv, Calls, Top
  <2>3. Fail
        BY <1>0, <1>7, <2>1, <2>2 DEF GiveUp, Throw, Fail
  <2> QED
      BY <2>3
<1>8. CASE Return
      BY <1>8 DEF Return
<1>9. CASE ReturnToCaller
  <2>1. pointer # Nil /\ outcome = Nil
        BY <1>0, <1>9 DEF ReturnToCaller, Control, Running
  <2>2. Answer
        BY <1>9, <2>1, AnswerIsPublished DEF ReturnToCaller, Answer
  <2> QED
      BY <2>2
<1> QED
    BY <1>1, <1>2, <1>3, <1>4, <1>5, <1>6, <1>7, <1>8, <1>9 DEF Next, Step

----------------------------------------------------------------------------
(* Every step but the first of a resolution brings its end nearer *)

LEMMA Following ==
    \A d, n : <<d, n>> \in ToFollow <=>
                \E i \in 1..Len(stack) : stack[i].domain = d /\ n \in stack[i].todo
<1> SUFFICES ASSUME NEW d, NEW n
             PROVE  <<d, n>> \in ToFollow <=>
                       \E i \in 1..Len(stack) : stack[i].domain = d /\ n \in stack[i].todo
    OBVIOUS
<1>1. <<d, n>> \in ToFollow <=>
         \E i \in 1..Len(stack) : \E m \in stack[i].todo : <<d, n>> = <<stack[i].domain, m>>
      BY DEF ToFollow
<1> QED
    BY <1>1

\* A target is followed once, as only one call under way is of its domain.
LEMMA FollowedOnce ==
    ASSUME TypeOK, Control, NoRecursion, NEW n \in Names, QueryUri(n) \/ UriFails(n)
    PROVE  /\ processed' = processed /\ ToFollow' \subseteq ToFollow /\ ToFollow' # ToFollow
           /\ pc = "loop" /\ pc' = "call" /\ Len(stack') = Len(stack)
<1>1. pc = "loop" /\ n \in Top.todo /\ stack # <<>>
      BY LoopFacts DEF QueryUri, UriFails
<1>2. PICK ds \in SUBSET Dids, failed \in BOOLEAN : NextUri(n, ds, failed)
      BY <1>1, LoopFacts DEF QueryUri, UriFails
<1>3. /\ Len(stack') = Len(stack) /\ 1 \in 1..Len(stack)
      /\ stack'[1].domain = stack[1].domain /\ stack'[1].todo = stack[1].todo \ {n}
      /\ \A i \in 1..Len(stack) : i # 1 => stack'[i] = stack[i]
      BY <1>1, <1>2, Looped DEF Top
<1>4. ToFollow' \subseteq ToFollow
      BY <1>3 DEF ToFollow
<1>5. <<stack[1].domain, n>> \in ToFollow
      BY <1>1, <1>3, Following DEF Top
<1>6. <<stack[1].domain, n>> \notin ToFollow'
  <2>1. \A i \in 1..Len(stack') : ~(stack'[i].domain = stack[1].domain /\ n \in stack'[i].todo)
        BY <1>3 DEF NoRecursion
  <2> QED
      BY <2>1 DEF ToFollow
<1> QED
    BY <1>1, <1>2, <1>3, <1>4, <1>5, <1>6 DEF NextUri

\* A call that returns has nothing left to follow.
LEMMA Returned ==
    ASSUME TypeOK, Return
    PROVE  /\ processed' = processed /\ ToFollow' = ToFollow
           /\ Len(stack') = Len(stack) - 1 /\ Len(stack') < Len(stack)
<1>1. /\ Len(stack) > 1 /\ processed' = processed /\ stack[1].todo = {}
      /\ stack' = [Tail(stack) EXCEPT ![1].results = @ \cup Top.results]
      BY DEF Return, Top
<1>2. /\ Len(stack') = Len(stack) - 1 /\ Len(stack) \in Nat
      /\ stack'[1].domain = stack[2].domain /\ stack'[1].todo = stack[2].todo
      /\ \A i \in 2..Len(stack') : stack'[i] = stack[i + 1]
      BY <1>1, Popped
<1>3. \A i \in 1..Len(stack') : /\ i + 1 \in 1..Len(stack)
                                /\ stack'[i].domain = stack[i + 1].domain
                                /\ stack'[i].todo = stack[i + 1].todo
  <2>1. \A i \in 1..Len(stack') : i = 1 \/ i \in 2..Len(stack')
        BY <1>2
  <2> QED
      BY <1>2, <2>1
<1>4. \A i \in 1..Len(stack) : i # 1 => i - 1 \in 1..Len(stack') /\ (i - 1) + 1 = i
      BY <1>2
<1>5. ToFollow' = ToFollow
  <2>1. ToFollow' \subseteq ToFollow
    <3> SUFFICES ASSUME NEW i \in 1..Len(stack'), NEW n \in stack'[i].todo
                 PROVE  <<stack'[i].domain, n>> \in ToFollow
        BY DEF ToFollow
    <3> QED
        BY <1>3 DEF ToFollow
  <2>2. \A i \in 1..Len(stack) : stack[i].todo # {} =>
            \E j \in 1..Len(stack') : /\ stack'[j].domain = stack[i].domain
                                      /\ stack'[j].todo = stack[i].todo
    <3> SUFFICES ASSUME NEW i \in 1..Len(stack), stack[i].todo # {}
                 PROVE  \E j \in 1..Len(stack') : /\ stack'[j].domain = stack[i].domain
                                                  /\ stack'[j].todo = stack[i].todo
        OBVIOUS
    <3>1. i - 1 \in 1..Len(stack') /\ (i - 1) + 1 = i
          BY <1>1, <1>4
    <3> QED
        BY <1>3, <3>1
  <2>3. ToFollow \subseteq ToFollow'
    <3> SUFFICES ASSUME NEW i \in 1..Len(stack), NEW n \in stack[i].todo
                 PROVE  <<stack[i].domain, n>> \in ToFollow'
        BY DEF ToFollow
    <3>1. PICK j \in 1..Len(stack') : /\ stack'[j].domain = stack[i].domain
                                     /\ stack'[j].todo = stack[i].todo
          BY <2>2
    <3> QED
        BY <3>1 DEF ToFollow
  <2> QED
      BY <2>1, <2>3
<1> QED
    BY <1>1, <1>2, <1>5

LEMMA NearerStep ==
    ASSUME Inv, Next, Running, Running'
    PROVE  Nearer
<1> USE DEF Inv
<1>1. ASSUME NEW p \in Names, Resolve(p)
      PROVE  FALSE
      BY <1>1 DEF Resolve, Running
<1>2. CASE Prune
      BY <1>2 DEF Prune, Nearer, ToFollow
<1>3. CASE QueryPtr
      BY <1>3 DEF QueryPtr, Nearer
<1>4. CASE PtrFails \/ GiveUp \/ ReturnToCaller
      BY <1>4 DEF PtrFails, GiveUp, ReturnToCaller, Throw, Running
<1>5. ASSUME NEW n \in Names, QueryUri(n) \/ UriFails(n)
      PROVE  Nearer
      BY <1>5, FollowedOnce DEF Nearer
<1>6. CASE Return
      BY <1>6, Returned DEF Nearer
<1> QED
    BY <1>1, <1>2, <1>3, <1>4, <1>5, <1>6 DEF Next, Step

----------------------------------------------------------------------------
(* With finitely many names: how deep the recursion gets, how many steps it takes *)

\* What is left of a resolution: each name may still be processed, which takes a
\* query and a return and adds a record for each name; a record takes a query and
\* a call, which is pruned or makes another query.
PerName == 2 * Cardinality(Names) + 2
Left == Cardinality(Names \ processed) * PerName + 2 * Cardinality(ToFollow)
            + Len(stack) + (IF pc = "call" THEN 1 ELSE 0)

\* What is left when a resolution starts.
Bound == Cardinality(Names) * PerName + 1

LEMMA FiniteParts ==
    ASSUME TypeOK, IsFiniteSet(Names)
    PROVE  /\ IsFiniteSet(Names \ processed) /\ Cardinality(Names \ processed) \in Nat
           /\ IsFiniteSet(ToFollow) /\ Cardinality(ToFollow) \in Nat
           /\ Cardinality(Names) \in Nat /\ PerName \in Nat /\ Len(stack) \in Nat
<1>1. ToFollow \in SUBSET (Names \X Names)
      BY StackParts DEF ToFollow
<1>2. IsFiniteSet(Names \X Names)
      BY FS_Product
<1>3. IsFiniteSet(ToFollow)
      BY <1>1, <1>2, FS_Subset
<1>4. IsFiniteSet(Names \ processed)
      BY FS_Difference
<1>5. stack \in Seq(Frames)
      BY DEF TypeOK
<1>6. Cardinality(Names) \in Nat
      BY FS_CardinalityType
<1> QED
    BY <1>3, <1>4, <1>5, <1>6, FS_CardinalityType DEF PerName

\* Reading PTR records adds a record to follow for each of their targets.
LEMMA QueryAdds ==
    ASSUME TypeOK, Control, IsFiniteSet(Names), QueryPtr
    PROVE  /\ Cardinality(Names \ processed') = Cardinality(Names \ processed) - 1
           /\ IsFiniteSet(ToFollow')
           /\ Cardinality(ToFollow') <= Cardinality(ToFollow) + Cardinality(Names)
           /\ Len(stack') = Len(stack) + 1
<1>1. arg \in Names /\ arg \notin processed /\ processed' = processed \cup {arg}
      BY DEF QueryPtr, Control, TypeOK
<1>2. Cardinality(Names \ processed') = Cardinality(Names \ processed) - 1
  <2>1. Names \ processed' = (Names \ processed) \ {arg} /\ arg \in Names \ processed
        BY <1>1
  <2> QED
      BY <2>1, FiniteParts, FS_RemoveElement
<1>3. PICK us \in {zone.ptr[arg], {}} : stack' = <<Frame(arg, us)>> \o stack
      BY DEF QueryPtr
<1>4. us \in SUBSET Names
      BY <1>1, <1>3, ZoneParts
<1>5. /\ Len(stack') = Len(stack) + 1 /\ stack'[1].domain = arg /\ stack'[1].todo = us
      /\ \A i \in 2..Len(stack') : i - 1 \in 1..Len(stack) /\ stack'[i] = stack[i - 1]
      BY <1>1, <1>3, <1>4, Pushed DEF Frame
<1> DEFINE new == {arg} \X us
<1>6. ToFollow' \in SUBSET (ToFollow \cup new)
  <2> SUFFICES ASSUME NEW i \in 1..Len(stack'), NEW n \in stack'[i].todo
               PROVE  <<stack'[i].domain, n>> \in ToFollow \cup new
      BY DEF ToFollow
  <2>1. CASE i = 1
        BY <1>5, <2>1
  <2>2. CASE i # 1
    <3>1. i \in 2..Len(stack')
          BY <1>5, <2>2, FiniteParts
    <3> QED
        BY <1>5, <3>1 DEF ToFollow
  <2> QED
      BY <2>1, <2>2
<1>7. IsFiniteSet(new) /\ Cardinality(new) <= Cardinality(Names) /\ Cardinality(new) \in Nat
  <2>1. IsFiniteSet(us) /\ Cardinality(us) <= Cardinality(Names) /\ Cardinality(us) \in Nat
        BY <1>4, FS_Subset, FS_CardinalityType
  <2>2. IsFiniteSet({arg}) /\ Cardinality({arg}) = 1
        BY FS_Singleton
  <2>3. IsFiniteSet(new) /\ Cardinality(new) = 1 * Cardinality(us)
        BY <2>1, <2>2, FS_Product
  <2> QED
      BY <2>1, <2>3
<1> HIDE DEF new
<1>8. /\ IsFiniteSet(ToFollow \cup new)
      /\ Cardinality(ToFollow \cup new) <= Cardinality(ToFollow) + Cardinality(new)
  <2>1. Cardinality(ToFollow \cap new) \in Nat
        BY <1>7, FS_Intersection, FS_CardinalityType
  <2>2. /\ IsFiniteSet(ToFollow \cup new)
        /\ Cardinality(ToFollow \cup new)
              = Cardinality(ToFollow) + Cardinality(new) - Cardinality(ToFollow \cap new)
        BY <1>7, FiniteParts, FS_Union
  <2> QED
      BY <1>7, <2>1, <2>2, FiniteParts
<1>9. /\ IsFiniteSet(ToFollow') /\ Cardinality(ToFollow') <= Cardinality(ToFollow \cup new)
      /\ Cardinality(ToFollow') \in Nat /\ Cardinality(ToFollow \cup new) \in Nat
      BY <1>6, <1>8, FS_Subset, FS_CardinalityType
<1> QED
    BY <1>2, <1>5, <1>7, <1>8, <1>9, FiniteParts

LEMMA LeftShrinks ==
    ASSUME Inv, IsFiniteSet(Names), Next, Running, Running'
    PROVE  Left' < Left
<1> USE DEF Inv
<1> DEFINE N == Cardinality(Names)
           U == Cardinality(Names \ processed)
           W == U * PerName
           F == Cardinality(ToFollow)
           L == Len(stack)
           Call == IF pc = "call" THEN 1 ELSE 0
<1>1. /\ N \in Nat /\ U \in Nat /\ F \in Nat /\ L \in Nat
      /\ PerName = 2 * N + 2 /\ PerName \in Nat /\ PerName' = PerName
      BY FiniteParts DEF PerName
<1>2. Left = W + 2 * F + L + Call /\ Left' = W' + 2 * F' + L' + Call'
      BY <1>1 DEF Left
<1>3. W \in Nat
  <2> HIDE DEF U
  <2>1. \A u, k \in Nat : u * k \in Nat
        OBVIOUS
  <2> QED
      BY ONLY <1>1, <2>1
<1>4. U' = U => W' = W
      BY <1>1
<1>5. U' = U - 1 => W' = W - (2 * N + 2)
  <2> HIDE DEF N, U
  <2>1. \A u, k \in Nat : (u - 1) * k = u * k - k
        OBVIOUS
  <2>2. (U - 1) * PerName = U * PerName - PerName
        BY ONLY <1>1, <2>1
  <2>3. ASSUME U' = U - 1
        PROVE  W' = W - PerName
    <3>1. W' = U' * PerName
          BY <1>1
    <3> QED
        BY ONLY <2>2, <2>3, <3>1
  <2> QED
      BY ONLY <1>1, <2>3
<1>6. CASE QueryPtr
  <2>1. U' = U - 1 /\ F' <= F + N /\ F' \in Nat /\ L' = L + 1 /\ Call = 1 /\ Call' = 0
    <3>1. IsFiniteSet(ToFollow') /\ pc = "call" /\ pc' = "loop"
          BY <1>6, QueryAdds DEF QueryPtr
    <3>2. F' \in Nat
          BY <3>1, FS_CardinalityType
    <3> QED
        BY <1>6, <3>1, <3>2, QueryAdds
  <2> HIDE DEF N, U, W, F, L, Call
  <2>2. W' = W - (2 * N + 2)
        BY ONLY <1>5, <2>1
  <2>3. \A w, f, g, n, l \in Nat :
            g <= f + n => (w - (2 * n + 2)) + 2 * g + (l + 1) + 0 < w + 2 * f + l + 1
        OBVIOUS
  <2>4. (W - (2 * N + 2)) + 2 * F' + (L + 1) + 0 < W + 2 * F + L + 1
        BY ONLY <1>1, <1>3, <2>1, <2>3
  <2>5. Left' = (W - (2 * N + 2)) + 2 * F' + (L + 1) + 0 /\ Left = W + 2 * F + L + 1
        BY ONLY <1>2, <2>1, <2>2
  <2> QED
      BY ONLY <2>4, <2>5
<1>7. ASSUME NEW n \in Names, QueryUri(n) \/ UriFails(n)
      PROVE  Left' < Left
  <2>1. F' < F /\ F' \in Nat
    <3>1. ToFollow' \in SUBSET ToFollow /\ ToFollow' # ToFollow /\ IsFiniteSet(ToFollow)
          BY <1>7, FollowedOnce, FiniteParts
    <3>2. /\ IsFiniteSet(ToFollow') /\ Cardinality(ToFollow') <= Cardinality(ToFollow)
          /\ Cardinality(ToFollow') # Cardinality(ToFollow)
          BY <3>1, FS_Subset
    <3>3. Cardinality(ToFollow') \in Nat
          BY <3>2, FS_CardinalityType
    <3> QED
        BY <1>1, <3>2, <3>3
  <2>2. U' = U /\ L' = L /\ Call = 0 /\ Call' = 1
        BY <1>7, FollowedOnce
  <2> HIDE DEF N, U, W, F, L, Call
  <2>3. \A w, f, g, l \in Nat : g < f => w + 2 * g + l + 1 < w + 2 * f + l + 0
        OBVIOUS
  <2>4. W + 2 * F' + L + 1 < W + 2 * F + L + 0
        BY ONLY <1>1, <1>3, <2>1, <2>3
  <2>5. Left' = W + 2 * F' + L + 1 /\ Left = W + 2 * F + L + 0
        BY ONLY <1>2, <1>4, <2>2
  <2> QED
      BY ONLY <2>4, <2>5
<1>8. CASE Return
  <2>1. U' = U /\ F' = F /\ L' = L - 1 /\ Call' = Call /\ Call \in Nat
        BY <1>8, Returned DEF Return
  <2> HIDE DEF N, U, W, F, L, Call
  <2> QED
      BY ONLY <1>1, <1>2, <1>3, <1>4, <2>1
<1>9. CASE Prune
  <2>1. U' = U /\ F' = F /\ L' = L /\ Call = 1 /\ Call' = 0
        BY <1>9 DEF Prune, ToFollow
  <2> HIDE DEF N, U, W, F, L, Call
  <2> QED
      BY ONLY <1>1, <1>2, <1>3, <1>4, <2>1
<1> QED
    BY <1>6, <1>7, <1>8, <1>9
    DEF Next, Step, Resolve, PtrFails, GiveUp, ReturnToCaller, Throw, Running

\* A resolution starts with every name left to process.
LEMMA StartOfWalk ==
    ASSUME Inv, IsFiniteSet(Names), NEW p \in Names, Resolve(p)
    PROVE  Left' = Bound
<1>1. processed' = {} /\ stack' = <<>> /\ stack = <<>> /\ pc' = "call"
      BY DEF Resolve, Inv, Control, Running
<1>2. ToFollow' = {}
      BY <1>1 DEF ToFollow
<1>3. Cardinality(ToFollow') = 0 /\ Len(stack') = 0 /\ Names \ processed' = Names
      BY <1>1, <1>2, FS_EmptySet
<1>4. Cardinality(Names) \in Nat /\ PerName \in Nat
      BY FiniteParts DEF Inv
<1> DEFINE whole == Cardinality(Names) * PerName
<1>5. whole \in Nat
  <2>1. \A u, k \in Nat : u * k \in Nat
        OBVIOUS
  <2> QED
      BY ONLY <1>4, <2>1
<1>6. Left' = whole + 2 * 0 + 0 + 1 /\ Bound = whole + 1
      BY <1>1, <1>3 DEF Left, PerName, Bound
<1> HIDE DEF whole
<1> QED
    BY <1>5, <1>6

\* The calls under way are of different domains.
LEMMA ShallowStack ==
    ASSUME TypeOK, NoRecursion, IsFiniteSet(Names)
    PROVE  Len(stack) <= Cardinality(Names)
<1> DEFINE f == [i \in 1..Len(stack) |-> stack[i].domain]
<1>1. Len(stack) \in Nat /\ Cardinality(Names) \in Nat
      BY FiniteParts
<1>2. IsFiniteSet(1..Len(stack)) /\ Cardinality(1..Len(stack)) = Len(stack)
  <2> DEFINE n == Len(stack)
  <2>1. n \in Nat
        BY <1>1
  <2> HIDE DEF n
  <2>2. /\ IsFiniteSet(1..n)
        /\ Cardinality(1..n) = IF 1 > n THEN 0 ELSE n - 1 + 1
        BY <2>1, FS_Interval
  <2>3. IsFiniteSet(1..n) /\ Cardinality(1..n) = n
        BY <2>1, <2>2
  <2> QED
      BY <2>3 DEF n
<1>3. f \in [1..Len(stack) -> Names]
      BY StackParts
<1> SUFFICES ASSUME Len(stack) > Cardinality(Names)
             PROVE  FALSE
    BY <1>1
<1>4. Cardinality(Names) < Cardinality(1..Len(stack))
      BY <1>1, <1>2
<1> HIDE DEF f
<1>5. PICK i, j \in 1..Len(stack) : i # j /\ f[i] = f[j]
      BY <1>2, <1>3, <1>4, FS_PigeonHole
<1> QED
    BY <1>5 DEF NoRecursion, f

----------------------------------------------------------------------------
\* DNSResolver.resolveDomain keeps names, DIDs and frames where they belong.
THEOREM Typed == Spec => []TypeOK
<1>1. Init => TypeOK /\ Control
      BY TypeInit
<1>2. TypeOK /\ Control /\ [Next]_vars => (TypeOK /\ Control)'
      BY TypeStep
<1> QED
    BY <1>1, <1>2, PTL DEF Spec

\* The inductive invariant of the walk.
THEOREM Invariant == Spec => []Inv
BY InvInit, InvStep, PTL DEF Spec

\* The set of processed domains keeps resolveDomain from entering a domain whose
\* call is still under way, whatever cycles the PTR records form.
THEOREM Acyclic == Spec => []NoRecursion
<1>1. Inv => NoRecursion
      BY DEF Inv
<1> QED
    BY <1>1, Invariant, PTL

\* resolveDomain answers with all that its URI queries returned, from every depth
\* of the recursion, and with nothing else.
THEOREM KeepsAll == Spec => []NothingLost
<1>1. Inv => NothingLost
      BY DEF Inv, Gathered
<1> QED
    BY <1>1, Invariant, PTL

\* Whatever PTR records share targets or form cycles, and whatever fails, each
\* query of resolveDomain uses up a domain or a PTR record, so that with finitely
\* many of them a resolution takes finitely many steps.
THEOREM ComesNearer == Spec => EndsNearer
<1>1. Inv /\ [Next]_vars => [pc # "idle" /\ pc' # "idle" => Nearer]_vars
      BY NearerStep DEF Running
<1> QED
    BY <1>1, Invariant, PTL DEF Spec, EndsNearer

\* With finitely many domains, Left says how many: it is the same Bound at the start
\* of every resolveDomain, and every step of the walk makes this natural number
\* smaller, so that no resolution takes more than Bound + 2 steps, first and last included.
THEOREM StepsBounded ==
    IsFiniteSet(Names) =>
        (Spec => [][pc' # "idle" => IF pc = "idle" THEN Left' = Bound ELSE Left' < Left]_vars)
<1>1. Inv /\ IsFiniteSet(Names) /\ [Next]_vars =>
          [pc' # "idle" => IF pc = "idle" THEN Left' = Bound ELSE Left' < Left]_vars
  <2> SUFFICES ASSUME Inv, IsFiniteSet(Names), Next, pc' # "idle"
               PROVE  IF pc = "idle" THEN Left' = Bound ELSE Left' < Left
      OBVIOUS
  <2>1. CASE pc # "idle"
        BY <2>1, LeftShrinks DEF Running
  <2>2. CASE pc = "idle"
    <3>1. PICK p \in Names : Resolve(p)
          BY <2>2, LoopFacts DEF Next, Step, Prune, QueryPtr, PtrFails, QueryUri, UriFails,
             GiveUp, Return, ReturnToCaller
    <3> QED
        BY <2>2, <3>1, StartOfWalk
  <2> QED
      BY <2>1, <2>2
<1>2. CASE IsFiniteSet(Names)
  <2>1. Inv /\ [Next]_vars =>
            [pc' # "idle" => IF pc = "idle" THEN Left' = Bound ELSE Left' < Left]_vars
        BY <1>1, <1>2
  <2> QED
      BY <2>1, Invariant, PTL DEF Spec
<1> QED
    BY <1>2

\* With finitely many domains, the call stack of resolveDomain is never deeper than
\* there are domains, whatever cycles the PTR records form.
THEOREM DepthBounded ==
    IsFiniteSet(Names) => (Spec => [](Len(stack) <= Cardinality(Names)))
<1>1. CASE IsFiniteSet(Names)
  <2>1. Inv => Len(stack) <= Cardinality(Names)
        BY <1>1, ShallowStack DEF Inv
  <2> QED
      BY <2>1, Invariant, PTL
<1> QED
    BY <1>1

\* DNSResolver keeps the promise of PointerResolution: it answers with DIDs that
\* the pointer leads to, with all of them when no query went wrong, and fails only
\* when one did.
THEOREM Implements == Spec => ImplementsPointerResolution
<1>1. Init => AInit
      BY DEF Init
<1> QED
    BY <1>1, StepRefines, Invariant, PTL DEF Spec, ImplementsPointerResolution, ASpec
=============================================================================
