-------------------------------- MODULE GoUsers --------------------------------
(***************************************************************************)
(* The Go package with whoever uses it: the command line client, or        *)
(* goroutines of another program.                                          *)
(***************************************************************************)
EXTENDS GoClient, GoLibrary

ASSUME UsersAssumption == main \notin Goroutines

vars == <<apiVars, programVars, libraryVars>>

TypeOK == /\ \A c \in Callers : CallTypeOK(c)
          /\ ProgramTypeOK /\ LibraryTypeOK

Init == /\ call = [c \in Callers |-> NoCall]
        /\ \/ ProgramInit /\ NoLibrary /\ cfg = NewConfiguration
           \/ LibraryInit /\ NoProgram /\ cfg \in Configurations

ProgramStep == pc # "off" /\ Program /\ UNCHANGED libraryVars
LibraryStep == pc = "off" /\ Library /\ UNCHANGED programVars
Done == (pc = "ended" \/ (pc = "off" /\ \A g \in Goroutines : At(g, "done"))) /\ UNCHANGED vars
Next == ProgramStep \/ LibraryStep \/ Done

Spec == Init /\ [][Next]_vars

\* The process is scheduled, and the program's server answers some time or the
\* call fails.  Goroutines are scheduled; of their server nothing is assumed.
FairSpec == /\ Spec /\ WF_vars(ProgramStep)
            /\ \A g \in Goroutines : WF_vars(CallerStep(g) /\ UNCHANGED programVars)
===============================================================================
