--------------------------- MODULE FactoryHelpers ---------------------------
(***************************************************************************)
(* The three lint rules about the functions in the body of a service or    *)
(* repository factory, and the edits they ask for: a helper that uses      *)
(* nothing of the factory moves out, one that only forwards to a           *)
(* dependency is deleted, one that is exposed and not shared is written    *)
(* inline.  One edit may cause the next report.                            *)
(***************************************************************************)
EXTENDS Naturals, FiniteSetsExt

CONSTANTS Functions, \* what the factory declares
          Deps,      \* its parameters, and the constants of its body
          Nothing,
          MaxRefs    \* how many references they hold in all (bounds the model)

ASSUME HelpersAssumption ==
  /\ Functions \cap Deps = {}
  /\ Nothing \notin Functions \cup Deps

VARIABLES place,    \* "helper", "inline", "file" or "deleted", by function
          refs,     \* what its body refers to
          aside,    \* what defaults of parameters and computed names of methods do
          forwards, \* what it hands its parameters on to as they are
          exposed   \* the functions in the returned object

helpersVars == <<place, refs, aside, forwards, exposed>>

In(where) == {f \in Functions : place[f] = where}

Live == Functions \ In("deleted")

Declared == Functions \cup Deps

All(f) == refs[f] \cup aside[f]

HelpersTypeOK ==
  /\ place \in [Functions -> {"helper", "inline", "file", "deleted"}]
  /\ refs \in [Functions -> SUBSET Declared]
  /\ aside \in [Functions -> SUBSET Declared]
  /\ forwards \in [Functions -> Declared \cup {Nothing}]
  /\ \A f \in Functions : forwards[f] \in refs[f] \cup {Nothing}
  /\ exposed \subseteq Functions

References(of) == MapThenSumSet(LAMBDA f : Cardinality(of[f]), Functions)

\* An inline function is a property of the returned object and has no name.
HelpersInit ==
  /\ place \in [Functions -> {"helper", "inline"}]
  /\ refs \in [Functions -> SUBSET (In("helper") \cup Deps)]
  /\ References(refs) <= MaxRefs
  /\ aside \in [Functions -> {{}} \cup {{x} : x \in In("helper") \cup Deps}]
  /\ References(refs) + References(aside) <= MaxRefs
  /\ forwards \in [Functions -> Declared \cup {Nothing}]
  /\ \A f \in Functions : forwards[f] \in refs[f] \cup {Nothing}
  /\ exposed \in SUBSET Functions
  /\ In("inline") \subseteq exposed

-----------------------------------------------------------------------------
(* The reports *)

\* Mutant of DependencyFree: the helpers it calls are not followed.
DependencyFreeItself(f) == place[f] = "helper" /\ All(f) \cap Deps = {}

\* All it reaches through the helpers of the factory is such helpers.
DependencyFree(f) ==
  \E reached \in SUBSET In("helper") :
    /\ f \in reached
    /\ \A g \in reached : All(g) \cap (In("helper") \cup Deps) \subseteq reached

\* Mutant of PassThrough: the body may do something else as well.
PassThroughLongBody(f) ==
  /\ place[f] = "helper"
  /\ f \notin exposed
  /\ forwards[f] \in Deps

\* Its only statement forwards to a method of a dependency.  What a parameter
\* defaults to, and how the name of the method is computed, is not looked at.
PassThrough(f) ==
  /\ place[f] = "helper"
  /\ f \notin exposed
  /\ forwards[f] \in Deps
  /\ refs[f] = {forwards[f]}

\* Mutant of Unshared: a function that calls itself is not shared.
UnsharedRecursive(f) ==
  /\ place[f] = "helper"
  /\ f \in exposed
  /\ \A g \in Live \ {f} : f \notin All(g)

Unshared(f) ==
  /\ place[f] = "helper"
  /\ f \in exposed
  /\ \A g \in Live : f \notin All(g)

Clean ==
  \A f \in Functions : ~DependencyFree(f) /\ ~PassThrough(f) /\ ~Unshared(f)

-----------------------------------------------------------------------------
(* The edits *)

\* A helper moves with the helpers it calls, all of them reported.
MoveOut(moved) ==
  /\ moved # {}
  /\ \A f \in moved : DependencyFree(f) /\ All(f) \cap In("helper") \subseteq moved
  /\ place' = [f \in Functions |-> IF f \in moved THEN "file" ELSE place[f]]
  /\ UNCHANGED <<refs, aside, forwards, exposed>>

\* What refers to f refers to the dependency, once it is deleted.
Redirected(of, f) ==
  [g \in Functions |->
     IF f \in of[g] THEN (of[g] \ {f}) \cup {forwards[f]} ELSE of[g]]

\* The callers call the dependency; one that only forwarded forwards to it now.
CallDirectly(f) ==
  /\ PassThrough(f)
  /\ place' = [place EXCEPT ![f] = "deleted"]
  /\ refs' = Redirected(refs, f)
  /\ aside' = Redirected(aside, f)
  /\ forwards' = [g \in Functions |->
                    IF forwards[g] = f THEN forwards[f] ELSE forwards[g]]
  /\ UNCHANGED exposed

WriteInline(f) ==
  /\ Unshared(f)
  /\ place' = [place EXCEPT ![f] = "inline"]
  /\ UNCHANGED <<refs, aside, forwards, exposed>>

HelpersNext ==
  \/ \E moved \in SUBSET In("helper") : MoveOut(moved)
  \/ \E f \in Functions : CallDirectly(f) \/ WriteInline(f)

HelpersSpec == HelpersInit /\ [][HelpersNext]_helpersVars

-----------------------------------------------------------------------------

\* What a function may name where it is: at file level there is no dependency
\* and no helper of the factory.
Visible(f) ==
  IF place[f] = "file" THEN In("file") ELSE In("helper") \cup In("file") \cup Deps

\* No edit leaves a name that means nothing: to a helper that was deleted or
\* written inline, or from file level into the factory.  And the factory
\* returns the methods it returned.
NothingDangles ==
  /\ \A f \in Live : All(f) \subseteq Visible(f)
  /\ exposed \subseteq Live

\* The dependencies that are among names, or used by functions among them, or by
\* what those call.
UsedFrom(names) ==
  {d \in Deps :
     \A reached \in SUBSET Functions :
       /\ names \cap Functions \subseteq reached
       /\ \A g \in reached : All(g) \cap Functions \subseteq reached
       => d \in names \/ \E g \in reached : d \in All(g)}

UsedBy(f) == UsedFrom(All(f))

Deleted == {g \in Functions : place[g] # "deleted" /\ place'[g] = "deleted"}

\* No edit gives a remaining function a dependency, and it loses none but those
\* that came with the defaults or the computed name of a helper deleted.
EditsKeepWhatIsUsed ==
  [][\A f \in Functions : place'[f] # "deleted" =>
       /\ UsedBy(f)' \subseteq UsedBy(f)
       /\ UsedBy(f) \subseteq UsedBy(f)' \cup UNION {UsedFrom(aside[g]) : g \in Deleted}
    ]_helpersVars

\* The three rules do not ask for each other's opposite: whoever follows their
\* reports comes to a factory without any.
ReportsComeToAnEnd == <>[]Clean

=============================================================================
