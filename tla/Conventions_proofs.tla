------------------------- MODULE Conventions_proofs -------------------------
(***************************************************************************)
(* The edits the factory rules ask for, the imports the layer rules let    *)
(* through and the migrations CI accepts, for every factory, set of        *)
(* modules, number of pull requests and data model; the cascade of the     *)
(* lint configuration; and the tools side by side.                         *)
(***************************************************************************)
EXTENDS MCConventions, DuplicateReads_proofs, WellFoundedInduction

-----------------------------------------------------------------------------
(* The edits of a factory *)

HelpersInv == HelpersTypeOK /\ NothingDangles

LEMMA HelpersInitial == HelpersInit => HelpersInv
<1> SUFFICES ASSUME HelpersInit PROVE HelpersInv
  OBVIOUS
<1>1. /\ place \in [Functions -> {"helper", "inline"}]
      /\ refs \in [Functions -> SUBSET (In("helper") \cup Deps)]
      /\ aside \in [Functions -> SUBSET (In("helper") \cup Deps)]
      /\ forwards \in [Functions -> Declared \cup {Nothing}]
      /\ \A f \in Functions : forwards[f] \in refs[f] \cup {Nothing}
      /\ exposed \in SUBSET Functions
  BY DEF HelpersInit
<1>2. In("helper") \cup Deps \subseteq Declared
  BY DEF In, Declared
<1>3. In("file") = {} /\ In("deleted") = {}
  BY <1>1 DEF In
<1>4. HelpersTypeOK
  BY <1>1, <1>2 DEF HelpersTypeOK
<1>5. NothingDangles
  <2>1. \A f \in Functions : place[f] # "file"
    BY <1>1
  <2> QED
    BY <1>1, <1>3, <2>1 DEF NothingDangles, Live, Visible, All
<1> QED
  BY <1>4, <1>5 DEF HelpersInv

-----------------------------------------------------------------------------
(* The edits *)

\* What is reported to use nothing of the factory refers to no dependency.
LEMMA FreeOfDeps ==
  ASSUME NEW f \in Functions, DependencyFree(f)
  PROVE  place[f] = "helper" /\ All(f) \cap Deps = {}
<1>1. PICK reached \in SUBSET In("helper") :
        /\ f \in reached
        /\ \A g \in reached : All(g) \cap (In("helper") \cup Deps) \subseteq reached
  BY DEF DependencyFree
<1>2. place[f] = "helper"
  BY <1>1 DEF In
<1>3. \A d \in All(f) \cap Deps : d \in Functions
  BY <1>1 DEF In
<1> QED
  BY <1>2, <1>3, HelpersAssumption

LEMMA MoveOutStep ==
  ASSUME HelpersInv, NEW moved \in SUBSET In("helper"), MoveOut(moved)
  PROVE  HelpersInv'
<1>1. /\ place' = [f \in Functions |-> IF f \in moved THEN "file" ELSE place[f]]
      /\ refs' = refs /\ aside' = aside /\ forwards' = forwards /\ exposed' = exposed
      /\ \A f \in moved : DependencyFree(f) /\ All(f) \cap In("helper") \subseteq moved
  BY DEF MoveOut
<1>2. HelpersTypeOK
  BY DEF HelpersInv
<1>3. place' \in [Functions -> {"helper", "inline", "file", "deleted"}]
  BY <1>1, <1>2 DEF HelpersTypeOK
<1>4. HelpersTypeOK'
  BY <1>1, <1>2, <1>3 DEF HelpersTypeOK, Declared
<1>5. moved \subseteq Functions /\ \A f \in moved : place[f] = "helper"
  BY DEF In
<1>6. In("helper")' = In("helper") \ moved
  BY <1>1, <1>5 DEF In
<1>7. In("file")' = In("file") \cup moved
  BY <1>1, <1>5 DEF In
<1>8. Live' = Live
  BY <1>1, <1>5 DEF Live, In
<1>9. ASSUME NEW f \in Live
      PROVE  All(f) \subseteq Visible(f)'
  <2>1. All(f) \subseteq Visible(f) /\ f \in Functions
    BY DEF HelpersInv, NothingDangles, Live
  <2>2. CASE f \in moved
    <3>1. All(f) \cap Deps = {} /\ place[f] = "helper" /\ place'[f] = "file"
      BY <1>1, <2>1, <2>2, FreeOfDeps
    <3>2. All(f) \cap In("helper") \subseteq moved
      BY <1>1, <2>2
    <3> QED
      BY <1>7, <2>1, <3>1, <3>2 DEF Visible
  <2>3. CASE f \notin moved
    <3>1. place'[f] = place[f]
      BY <1>1, <2>1, <2>3
    <3> QED
      BY <1>6, <1>7, <2>1, <3>1 DEF Visible
  <2> QED
    BY <2>2, <2>3
<1>10. \A f : All(f)' = All(f)
  BY <1>1 DEF All
<1>11. NothingDangles'
  BY <1>1, <1>8, <1>9, <1>10 DEF HelpersInv, NothingDangles
<1> QED
  BY <1>4, <1>11 DEF HelpersInv

\* Of what a helper deleted was named by, the dependency is named instead.
LEMMA CallDirectlyIs ==
  ASSUME NEW f \in Functions, CallDirectly(f)
  PROVE  /\ forwards[f] \in Deps /\ place[f] = "helper" /\ f \notin exposed
         /\ All(f) = {forwards[f]} \cup aside[f]
         /\ \A g \in Functions :
              All(g)' = IF f \in All(g) THEN (All(g) \ {f}) \cup {forwards[f]} ELSE All(g)
<1>1. /\ forwards[f] \in Deps /\ place[f] = "helper" /\ f \notin exposed
      /\ refs[f] = {forwards[f]}
      /\ refs' = Redirected(refs, f) /\ aside' = Redirected(aside, f)
  BY DEF CallDirectly, PassThrough
<1>2. ASSUME NEW g \in Functions
      PROVE  All(g)' = IF f \in All(g) THEN (All(g) \ {f}) \cup {forwards[f]} ELSE All(g)
  <2>1. /\ refs'[g] = IF f \in refs[g] THEN (refs[g] \ {f}) \cup {forwards[f]} ELSE refs[g]
        /\ aside'[g] = IF f \in aside[g] THEN (aside[g] \ {f}) \cup {forwards[f]} ELSE aside[g]
    BY <1>1 DEF Redirected
  <2>2. All(g)' = refs'[g] \cup aside'[g] /\ All(g) = refs[g] \cup aside[g]
    BY DEF All
  <2> QED
    BY <2>1, <2>2
<1> QED
  BY <1>1, <1>2 DEF All

LEMMA CallDirectlyStep ==
  ASSUME HelpersInv, NEW f \in Functions, CallDirectly(f)
  PROVE  HelpersInv'
<1> DEFINE d == forwards[f]
<1>1. /\ place' = [place EXCEPT ![f] = "deleted"]
      /\ refs' = [g \in Functions |->
                    IF f \in refs[g] THEN (refs[g] \ {f}) \cup {d} ELSE refs[g]]
      /\ aside' = [g \in Functions |->
                    IF f \in aside[g] THEN (aside[g] \ {f}) \cup {d} ELSE aside[g]]
      /\ forwards' = [g \in Functions |-> IF forwards[g] = f THEN d ELSE forwards[g]]
      /\ exposed' = exposed
      /\ place[f] = "helper" /\ f \notin exposed /\ d \in Deps
  BY DEF CallDirectly, PassThrough, Redirected
<1> HIDE DEF d
<1>2. HelpersTypeOK
  BY DEF HelpersInv
<1>3. d \in Declared /\ d # f
  BY <1>1, HelpersAssumption DEF Declared
<1>4. HelpersTypeOK'
  <2>1. place' \in [Functions -> {"helper", "inline", "file", "deleted"}]
    BY <1>1, <1>2 DEF HelpersTypeOK
  <2>2. refs' \in [Functions -> SUBSET Declared]
    BY <1>1, <1>2, <1>3 DEF HelpersTypeOK
  <2>5. aside' \in [Functions -> SUBSET Declared]
    BY <1>1, <1>2, <1>3 DEF HelpersTypeOK
  <2>3. forwards' \in [Functions -> Declared \cup {Nothing}]
    BY <1>1, <1>2, <1>3 DEF HelpersTypeOK
  <2>4. ASSUME NEW g \in Functions
        PROVE  forwards'[g] \in refs'[g] \cup {Nothing}
    <3>1. forwards[g] \in refs[g] \cup {Nothing} /\ f # Nothing
      BY <1>2, HelpersAssumption DEF HelpersTypeOK
    <3>2. /\ refs'[g] = IF f \in refs[g] THEN (refs[g] \ {f}) \cup {d} ELSE refs[g]
          /\ forwards'[g] = IF forwards[g] = f THEN d ELSE forwards[g]
      BY <1>1
    <3> QED
      BY <3>1, <3>2
  <2> QED
    BY <1>1, <1>2, <2>1, <2>2, <2>3, <2>4, <2>5 DEF HelpersTypeOK, Declared
<1>5. In("helper")' = In("helper") \ {f}
  BY <1>1, <1>2 DEF In, HelpersTypeOK
<1>6. In("file")' = In("file")
  BY <1>1, <1>2 DEF In, HelpersTypeOK
<1>7. Live' = Live \ {f}
  BY <1>1, <1>2 DEF Live, In, HelpersTypeOK
<1>8. ASSUME NEW g \in Live \ {f}
      PROVE  All(g)' \subseteq Visible(g)'
  <2>1. g \in Functions /\ All(g) \subseteq Visible(g)
    BY DEF HelpersInv, NothingDangles, Live
  <2>2. place'[g] = place[g]
    BY <1>1, <1>2, <2>1 DEF HelpersTypeOK
  <2>3. All(g)' = IF f \in All(g) THEN (All(g) \ {f}) \cup {d} ELSE All(g)
    BY <2>1, CallDirectlyIs DEF d
  <2>4. CASE place[g] = "file"
    <3>1. f \notin In("file")
      BY <1>1 DEF In
    <3>2. f \notin All(g)
      BY <2>1, <2>4, <3>1 DEF Visible
    <3> QED
      BY <1>6, <2>1, <2>2, <2>3, <2>4, <3>2 DEF Visible
  <2>5. CASE place[g] # "file"
    <3>1. All(g)' \subseteq (All(g) \ {f}) \cup Deps
      <4>1. d \in Deps
        BY <1>1
      <4>2. CASE f \in All(g)
        BY <2>3, <4>1, <4>2
      <4>3. CASE f \notin All(g)
        BY <2>3, <4>3
      <4> QED
        BY <4>2, <4>3
    <3> QED
      BY <1>5, <1>6, <2>1, <2>2, <2>5, <3>1 DEF Visible
  <2> QED
    BY <2>4, <2>5
<1>9. NothingDangles'
  BY <1>1, <1>7, <1>8 DEF HelpersInv, NothingDangles
<1> QED
  BY <1>4, <1>9 DEF HelpersInv

LEMMA WriteInlineStep ==
  ASSUME HelpersInv, NEW f \in Functions, WriteInline(f)
  PROVE  HelpersInv'
<1>1. /\ place' = [place EXCEPT ![f] = "inline"]
      /\ refs' = refs /\ aside' = aside /\ forwards' = forwards /\ exposed' = exposed
      /\ place[f] = "helper" /\ \A g \in Live : f \notin All(g)
  BY DEF WriteInline, Unshared
<1>2. HelpersTypeOK
  BY DEF HelpersInv
<1>3. place' \in [Functions -> {"helper", "inline", "file", "deleted"}]
  BY <1>1, <1>2 DEF HelpersTypeOK
<1>4. HelpersTypeOK'
  BY <1>1, <1>2, <1>3 DEF HelpersTypeOK, Declared
<1>5. In("helper")' = In("helper") \ {f}
  BY <1>1, <1>2 DEF In, HelpersTypeOK
<1>6. In("file")' = In("file")
  BY <1>1, <1>2 DEF In, HelpersTypeOK
<1>7. Live' = Live
  BY <1>1, <1>2 DEF Live, In, HelpersTypeOK
<1>8. ASSUME NEW g \in Live
      PROVE  All(g) \subseteq Visible(g)'
  <2>1. g \in Functions /\ All(g) \subseteq Visible(g)
    BY DEF HelpersInv, NothingDangles, Live
  <2>2. f \notin All(g)
    BY <1>1
  <2>3. CASE g = f
    <3>1. place'[g] = "inline" /\ place[g] = "helper"
      BY <1>1, <1>2, <2>3 DEF HelpersTypeOK
    <3> QED
      BY <1>5, <1>6, <2>1, <2>2, <3>1 DEF Visible
  <2>4. CASE g # f
    <3>1. place'[g] = place[g]
      BY <1>1, <1>2, <2>1, <2>4 DEF HelpersTypeOK
    <3> QED
      BY <1>5, <1>6, <2>1, <2>2, <3>1 DEF Visible
  <2> QED
    BY <2>3, <2>4
<1>9. \A g : All(g)' = All(g)
  BY <1>1 DEF All
<1>10. NothingDangles'
  BY <1>1, <1>7, <1>8, <1>9 DEF HelpersInv, NothingDangles
<1> QED
  BY <1>4, <1>10 DEF HelpersInv

LEMMA HelpersStep == HelpersInv /\ [HelpersNext]_helpersVars => HelpersInv'
<1> SUFFICES ASSUME HelpersInv, [HelpersNext]_helpersVars PROVE HelpersInv'
  OBVIOUS
<1>1. CASE UNCHANGED helpersVars
  <2>1. /\ place' = place /\ refs' = refs /\ aside' = aside
        /\ forwards' = forwards /\ exposed' = exposed
    BY <1>1 DEF helpersVars
  <2>2. HelpersTypeOK'
    BY <2>1 DEF HelpersInv, HelpersTypeOK, Declared
  <2>3. Live' = Live /\ In("file")' = In("file") /\ In("helper")' = In("helper")
    BY <2>1 DEF Live, In
  <2>4. \A f \in Live : Visible(f)' = Visible(f)
    BY <2>1, <2>3 DEF Visible
  <2>5. NothingDangles'
    BY <2>1, <2>3, <2>4 DEF HelpersInv, NothingDangles, All
  <2> QED
    BY <2>2, <2>5 DEF HelpersInv
<1>2. ASSUME NEW moved \in SUBSET In("helper"), MoveOut(moved)
      PROVE  HelpersInv'
  BY <1>2, MoveOutStep
<1>3. ASSUME NEW f \in Functions, CallDirectly(f) \/ WriteInline(f)
      PROVE  HelpersInv'
  BY <1>3, CallDirectlyStep, WriteInlineStep
<1> QED
  BY <1>1, <1>2, <1>3 DEF HelpersNext

LEMMA HelpersInvariance == HelpersSpec => []HelpersInv
<1>1. HelpersInit => HelpersInv
  BY HelpersInitial
<1>2. HelpersInv /\ [HelpersNext]_helpersVars => HelpersInv'
  BY HelpersStep
<1> QED
  BY <1>1, <1>2, PTL DEF HelpersSpec

\* no-dependency-free-factory-helper, no-pass-through-helper and
\* inline-unshared-service-method: an edit they ask for leaves no name behind
\* that means nothing, in whatever order they are followed.
THEOREM NoNameDangles == HelpersSpec => []NothingDangles
<1>1. HelpersInv => NothingDangles
  BY DEF HelpersInv
<1> QED
  BY <1>1, HelpersInvariance, PTL

-----------------------------------------------------------------------------
(* What a function uses *)

\* A set of functions that leads from the names nowhere else, and not to dep.
Spares(reached, names, dep) ==
  /\ names \cap Functions \subseteq reached /\ dep \notin names
  /\ \A h \in reached : All(h) \cap Functions \subseteq reached /\ dep \notin All(h)

LEMMA NotUsed ==
  ASSUME NEW dep \in Deps, NEW names
  PROVE  dep \notin UsedFrom(names) <=> \E r \in SUBSET Functions : Spares(r, names, dep)
BY DEF UsedFrom, Spares

LEMMA NotUsedNext ==
  ASSUME NEW dep \in Deps, NEW g
  PROVE  dep \notin UsedBy(g)' <=>
           \E r \in SUBSET Functions :
             /\ All(g)' \cap Functions \subseteq r /\ dep \notin All(g)'
             /\ \A h \in r : All(h)' \cap Functions \subseteq r /\ dep \notin All(h)'
BY DEF UsedBy, UsedFrom

\* Where references are as they were, so is what is used.
LEMMA SameRefsSameUse ==
  ASSUME refs' = refs, aside' = aside, NEW f \in Functions
  PROVE  UsedBy(f)' = UsedBy(f)
<1>1. \A g : All(g)' = All(g)
  BY DEF All
<1> QED
  BY <1>1 DEF UsedBy, UsedFrom

\* Calling the dependency that a helper forwarded to uses nothing more, and
\* nothing less but for what the helper's defaults used.
LEMMA DirectCallsKeepUse ==
  ASSUME HelpersInv, NEW f \in Functions, CallDirectly(f),
         NEW g \in Functions, NEW dep \in Deps
  PROVE  /\ dep \in UsedBy(g)' => dep \in UsedBy(g)
         /\ dep \in UsedBy(g) => dep \in UsedBy(g)' \/ dep \in UsedFrom(aside[f])
<1> DEFINE d == forwards[f]
<1>1. /\ d \in Deps /\ All(f) = {d} \cup aside[f]
      /\ \A h \in Functions :
           All(h)' = IF f \in All(h) THEN (All(h) \ {f}) \cup {d} ELSE All(h)
  BY CallDirectlyIs
<1> HIDE DEF d
<1>2. d \notin Functions /\ dep \notin Functions /\ dep # f
  BY <1>1, HelpersAssumption
<1>3. ASSUME dep \notin UsedBy(g) PROVE dep \notin UsedBy(g)'
  <2>1. PICK r \in SUBSET Functions : Spares(r, All(g), dep)
    BY <1>3, NotUsed DEF UsedBy
  <2>2. ASSUME NEW h \in r \cup {g}
        PROVE  All(h)' \cap Functions \subseteq r /\ dep \notin All(h)'
    <3>1. h \in Functions /\ All(h) \cap Functions \subseteq r /\ dep \notin All(h)
      BY <2>1 DEF Spares
    <3>2. f \in All(h) => dep # d
      BY <1>1, <2>1, <3>1 DEF Spares
    <3> QED
      BY <1>1, <1>2, <3>1, <3>2
  <2> QED
    BY <2>2, NotUsedNext
<1>4. ASSUME dep \notin UsedBy(g)', dep \notin UsedFrom(aside[f])
      PROVE  dep \notin UsedBy(g)
  <2>1. PICK r \in SUBSET Functions :
          /\ All(g)' \cap Functions \subseteq r /\ dep \notin All(g)'
          /\ \A h \in r : All(h)' \cap Functions \subseteq r /\ dep \notin All(h)'
    BY <1>4, NotUsedNext
  <2>2. PICK q \in SUBSET Functions : Spares(q, aside[f], dep)
    BY <1>4, NotUsed
  <2>3. CASE \E h \in r \cup {g} : f \in All(h)
    <3>1. dep # d
      BY <1>1, <2>1, <2>3
    <3> DEFINE all == r \cup q \cup {f}
    <3>2. ASSUME NEW h \in r \cup {g}
          PROVE  All(h) \cap Functions \subseteq all /\ dep \notin All(h)
      <4>1. h \in Functions /\ All(h)' \cap Functions \subseteq r /\ dep \notin All(h)'
        BY <2>1
      <4>2. All(h) \subseteq All(h)' \cup {f}
        BY <1>1, <4>1
      <4> QED
        BY <1>2, <4>1, <4>2
    <3>3. All(f) \cap Functions \subseteq all /\ dep \notin All(f)
      BY <1>1, <1>2, <2>2, <3>1 DEF Spares
    <3>4. \A h \in q : All(h) \cap Functions \subseteq all /\ dep \notin All(h)
      BY <2>2 DEF Spares
    <3>5. Spares(all, All(g), dep)
      BY <3>2, <3>3, <3>4 DEF Spares
    <3>6. all \in SUBSET Functions
      OBVIOUS
    <3> HIDE DEF all
    <3> QED
      BY <3>5, <3>6, NotUsed DEF UsedBy
  <2>4. CASE \A h \in r \cup {g} : f \notin All(h)
    <3>1. \A h \in r \cup {g} : All(h)' = All(h)
      BY <1>1, <2>1, <2>4
    <3>2. Spares(r, All(g), dep)
      BY <2>1, <3>1 DEF Spares
    <3> QED
      BY <3>2, NotUsed DEF UsedBy
  <2> QED
    BY <2>3, <2>4
<1> QED
  BY <1>3, <1>4

UseIsKeptHere(g) ==
  /\ UsedBy(g)' \subseteq UsedBy(g)
  /\ UsedBy(g) \subseteq UsedBy(g)' \cup UNION {UsedFrom(aside[f]) : f \in Deleted}

LEMMA UseStep ==
  ASSUME HelpersInv, [HelpersNext]_helpersVars, NEW g \in Functions, place'[g] # "deleted"
  PROVE  UseIsKeptHere(g)
<1>1. CASE UNCHANGED helpersVars
  BY <1>1, SameRefsSameUse DEF helpersVars, UseIsKeptHere
<1>2. ASSUME NEW moved \in SUBSET In("helper"), MoveOut(moved)
      PROVE  UseIsKeptHere(g)
  BY <1>2, SameRefsSameUse DEF MoveOut, UseIsKeptHere
<1>3. ASSUME NEW f \in Functions, WriteInline(f)
      PROVE  UseIsKeptHere(g)
  BY <1>3, SameRefsSameUse DEF WriteInline, UseIsKeptHere
<1>4. ASSUME NEW f \in Functions, CallDirectly(f)
      PROVE  UseIsKeptHere(g)
  <2>1. f \in Deleted
    BY <1>4, CallDirectlyIs DEF HelpersInv, HelpersTypeOK, CallDirectly, Deleted
  <2>2. \A dep \in Deps :
          /\ dep \in UsedBy(g)' => dep \in UsedBy(g)
          /\ dep \in UsedBy(g) => dep \in UsedBy(g)' \/ dep \in UsedFrom(aside[f])
    BY <1>4, DirectCallsKeepUse
  <2>3. UsedBy(g)' \subseteq Deps /\ UsedBy(g) \subseteq Deps
    BY DEF UsedBy, UsedFrom
  <2>4. UsedFrom(aside[f]) \subseteq UNION {UsedFrom(aside[h]) : h \in Deleted}
    BY <2>1
  <2> QED
    BY <2>2, <2>3, <2>4 DEF UseIsKeptHere
<1> QED
  BY <1>1, <1>2, <1>3, <1>4 DEF HelpersNext

\* The same rules: no edit they ask for gives what remains of the factory another
\* dependency, and it loses none but those of the defaults and computed names of
\* a helper deleted, which no-pass-through-helper does not look at.
THEOREM UseIsKept == HelpersSpec => EditsKeepWhatIsUsed
<1>1. HelpersInv /\ [HelpersNext]_helpersVars =>
        [\A f \in Functions : place'[f] # "deleted" =>
           /\ UsedBy(f)' \subseteq UsedBy(f)
           /\ UsedBy(f) \subseteq UsedBy(f)' \cup UNION {UsedFrom(aside[g]) : g \in Deleted}
        ]_helpersVars
  BY UseStep DEF UseIsKeptHere
<1> QED
  BY <1>1, HelpersInvariance, PTL DEF HelpersSpec, EditsKeepWhatIsUsed

-----------------------------------------------------------------------------
(* The imports between layers *)

\* Only a module leads into another, and only for types.
LayersInv ==
  /\ origin \in Files /\ here \in Files /\ values \in BOOLEAN
  /\ ~Wires(origin) /\ origin.kind \notin Packages
  /\ InModule(here) => InModule(origin)
  /\ PrismaIsBehindRepositories
  /\ ModulesMeetAtPublicTypes

\* Where a walk goes on from: a module's file, or one of lib/.
LEMMA WalksGoOnFrom ==
  ASSUME NEW f \in Files, ~Wires(f), f.kind \notin Packages
  PROVE  /\ InModule(f) => f.kind \in Modules /\ f.owner \in ModuleNames
         /\ ~InModule(f) => f.kind \in Lib /\ f.owner = Shared
<1>1. \/ f \in {[kind |-> k, owner |-> o] : k \in Placed \cap Modules, o \in ModuleNames}
      \/ f \in {[kind |-> k, owner |-> Shared] : k \in (Placed \ Modules) \cup Packages}
  BY DEF Files
<1>2. CASE f \in {[kind |-> k, owner |-> o] : k \in Placed \cap Modules, o \in ModuleNames}
  <2>1. f.kind \in Modules /\ f.owner \in ModuleNames
    BY <1>2
  <2> QED
    BY <2>1, LayersAssumption DEF InModule
<1>3. CASE f \in {[kind |-> k, owner |-> Shared] : k \in (Placed \ Modules) \cup Packages}
  <2>1. f.kind \in (Placed \ Modules) \cup Packages /\ f.owner = Shared
    BY <1>3
  <2>2. /\ f.kind \in Placed \ Modules
        /\ f.kind \notin Plugins \cup Declarations \cup {"server", "entry", "envType"}
    BY <2>1 DEF Wires
  <2>3. f.kind \in Source \ Modules /\ f.kind # "database"
    BY <2>2, LayersAreLinted DEF Placed
  <2>4. f.kind \in Lib
    BY <2>2, <2>3 DEF Source
  <2> QED
    BY <2>1, <2>4 DEF InModule
<1> QED
  BY <1>1, <1>2, <1>3

\* An import into another module is one of types, at a public.ts; none comes
\* from lib/.
LEMMA IntoAModule ==
  ASSUME NEW from \in Files, NEW to \in Files, NEW how \in Ways,
         ~Wires(from), from.kind \notin Packages, ~Reported(from, to, how),
         InModule(to), to.owner # from.owner
  PROVE  /\ InModule(from) /\ ~IsValue(how)
         /\ from.kind = "public" \/ to.kind = "public"
<1>1. /\ InModule(from) => from.kind \in Modules
      /\ ~InModule(from) => from.kind \in Lib
  BY WalksGoOnFrom
<1>2. from.kind \in Modules \cup Lib
  BY <1>1
<1>3. ~LayerDirection(from, to, how) /\ ~Reexports(from, to, how)
  BY <1>2, LayersAreLinted DEF Reported
<1>4. CASE IsExport(how)
  <2>1. from.kind = "public"
    BY <1>2, <1>3, <1>4, LayersAreLinted DEF Reexports
  <2>2. how = "export type"
    BY <1>3, <2>1, LayersAreLinted DEF Reexports
  <2>3. "public" \notin Lib
    BY DEF Lib, Validation
  <2> QED
    BY <1>1, <2>1, <2>2, <2>3 DEF IsValue
<1>5. CASE ~IsExport(how)
  BY <1>1, <1>3, <1>5 DEF LayerDirection
<1> QED
  BY <1>4, <1>5

\* Imported as a value, a repository is imported by one, and so is the client.
LEMMA IntoTheDatabase ==
  ASSUME NEW from \in Files, NEW to \in Files, NEW how \in Ways,
         ~Wires(from), from.kind \notin Packages, ~Reported(from, to, how),
         IsValue(how), to.kind \in {Prisma, "repository"}
  PROVE  from.kind = "repository"
<1> SUFFICES ASSUME from.kind # "repository" PROVE FALSE
  OBVIOUS
<1>1. /\ InModule(from) => from.kind \in Modules
      /\ ~InModule(from) => from.kind \in Lib
  BY WalksGoOnFrom
<1>2. CASE to.kind = Prisma
  BY <1>1, <1>2, LayersAreLinted DEF Reported, PrismaImports
<1>3. CASE to.kind = "repository" /\ InModule(from)
  BY <1>1, <1>3, LayersAreLinted DEF Reported, RepositoryImports
<1>4. CASE to.kind = "repository" /\ ~InModule(from)
  <2>1. "repository" \in Modules /\ "repository" \notin Packages
    BY DEF Modules, Packages, Prisma, Sdk
  <2>2. InModule(to)
    <3>1. to \notin {[kind |-> k, owner |-> Shared] : k \in (Placed \ Modules) \cup Packages}
      BY <1>4, <2>1
    <3>2. to \in {[kind |-> k, owner |-> o] : k \in Placed \cap Modules, o \in ModuleNames}
      BY <3>1 DEF Files
    <3> QED
      BY <3>2, LayersAssumption DEF InModule
  <2>3. to.owner # from.owner
    BY <1>4, <2>2 DEF InModule
  <2> QED
    BY <1>4, <2>2, <2>3, IntoAModule
<1> QED
  BY <1>2, <1>3, <1>4

LEMMA LayersInitial == LayersInit => LayersInv
<1> SUFFICES ASSUME LayersInit PROVE LayersInv
  OBVIOUS
<1>1. /\ origin \in Files /\ ~Wires(origin) /\ origin.kind \notin Packages
      /\ here = origin /\ values = TRUE
  BY DEF LayersInit
<1>2. PrismaIsBehindRepositories
  BY <1>1 DEF PrismaIsBehindRepositories, Packages
<1>3. ModulesMeetAtPublicTypes
  BY <1>1 DEF ModulesMeetAtPublicTypes
<1> QED
  BY <1>1, <1>2, <1>3 DEF LayersInv

LEMMA FollowStep ==
  ASSUME LayersInv, NEW to \in Files, NEW how \in Ways, Follow(to, how)
  PROVE  LayersInv'
<1>1. /\ origin' = origin /\ here' = to /\ values' = (values /\ IsValue(how))
      /\ ~Wires(here) /\ here.kind \notin Packages /\ ~Reported(here, to, how)
      /\ here \in Files
  BY DEF Follow, LayersInv
<1>2. InModule(to) => InModule(origin)
  <2>1. CASE to.owner = here.owner
    BY <2>1 DEF InModule, LayersInv
  <2>2. CASE to.owner # here.owner
    BY <1>1, <2>2, IntoAModule DEF LayersInv
  <2> QED
    BY <2>1, <2>2
<1>3. PrismaIsBehindRepositories'
  <2> SUFFICES ASSUME values, IsValue(how), origin.kind # "repository",
                      to.kind \in {Prisma, "repository"}
               PROVE  FALSE
    BY <1>1 DEF PrismaIsBehindRepositories
  <2>1. here.kind = "repository"
    BY <1>1, IntoTheDatabase
  <2> QED
    BY <2>1 DEF LayersInv, PrismaIsBehindRepositories
<1>4. ModulesMeetAtPublicTypes'
  <2> SUFFICES ASSUME InModule(to), to.owner # origin.owner
               PROVE  ~values' /\ InModule(origin) /\ door' # {}
    BY <1>1 DEF ModulesMeetAtPublicTypes
  <2>1. CASE to.owner = here.owner
    <3>1. InModule(here) /\ here.owner # origin.owner
      BY <2>1 DEF InModule
    <3>2. door' = door
      BY <2>1 DEF Follow
    <3> QED
      BY <1>1, <1>2, <3>1, <3>2 DEF LayersInv, ModulesMeetAtPublicTypes
  <2>2. CASE to.owner # here.owner
    <3>1. ~IsValue(how) /\ (here.kind = "public" \/ to.kind = "public")
      BY <1>1, <2>2, IntoAModule
    <3>2. door' = (IF here.kind = "public" THEN {"from"} ELSE {})
                     \cup (IF to.kind = "public" THEN {"to"} ELSE {})
      BY <2>2 DEF Follow
    <3>3. door' # {}
      BY <3>1, <3>2
    <3> QED
      BY <1>1, <1>2, <3>1, <3>3
  <2> QED
    BY <2>1, <2>2
<1>5. values' \in BOOLEAN
  BY <1>1 DEF LayersInv
<1>6. InModule(here)' => InModule(origin)'
  BY <1>1, <1>2 DEF InModule
<1>7. ~Wires(origin)' /\ origin'.kind \notin Packages /\ origin' \in Files /\ here' \in Files
  BY <1>1 DEF LayersInv, Wires
<1> QED
  BY <1>3, <1>4, <1>5, <1>6, <1>7 DEF LayersInv

LEMMA LayersStep == LayersInv /\ [LayersNext]_layerVars => LayersInv'
<1> SUFFICES ASSUME LayersInv, [LayersNext]_layerVars PROVE LayersInv'
  OBVIOUS
<1>1. CASE UNCHANGED layerVars
  BY <1>1 DEF layerVars, LayersInv, PrismaIsBehindRepositories, ModulesMeetAtPublicTypes,
     InModule, Wires
<1>2. CASE LayersNext
  BY <1>2, FollowStep DEF LayersNext
<1> QED
  BY <1>1, <1>2

LEMMA LayersInvariance == LayersSpec => []LayersInv
  BY LayersInitial, LayersStep, PTL DEF LayersSpec

\* layer-direction, prisma-imports and domain-repository-imports together: no chain
\* of allowed imports of values, of any length and over any number of modules,
\* leads from outside the repositories to the Prisma client or to a repository.
THEOREM PrismaStaysBehind == LayersSpec => []PrismaIsBehindRepositories
<1>1. LayersInv => PrismaIsBehindRepositories
  BY DEF LayersInv
<1> QED
  BY <1>1, LayersInvariance, PTL

\* layer-direction and public-api together: a chain of allowed imports enters
\* another module only for types, through a public.ts, and never from lib/.
THEOREM ModulesMeet == LayersSpec => []ModulesMeetAtPublicTypes
<1>1. LayersInv => ModulesMeetAtPublicTypes
  BY DEF LayersInv
<1> QED
  BY <1>1, LayersInvariance, PTL

-----------------------------------------------------------------------------
(* The migrations of main *)

\* What a request has seen of main is still there.
SeenIsKept == \A p \in Requests : seen[p].files \subseteq main.files

\* A request that was checked once deletes nothing it has seen: whatever main
\* has got since, a merge with it does not either.
CheckedIsWhole ==
  \A p \in Requests :
    passed[p] \in {"fresh", "stale"} => seen[p].files \subseteq branch[p].files

MigrationsInv ==
  RequestsTypeOK /\ SeenIsKept /\ CheckedIsWhole /\ MainReproducesItsSchema

-----------------------------------------------------------------------------
(* Trees *)

LEMMA MergedIsTree ==
  ASSUME RequestsTypeOK, NEW p \in Requests
  PROVE  Merged(p) \in Trees
<1>1. main \in Trees /\ seen[p] \in Trees /\ branch[p] \in Trees
  BY DEF RequestsTypeOK
<1>2. (IF branch[p].model = seen[p].model THEN main.model ELSE branch[p].model) \in Models
  BY <1>1 DEF Trees
<1>3. ((main.files \cup branch[p].files)
         \ ((seen[p].files \ main.files) \cup (seen[p].files \ branch[p].files)))
        \in SUBSET AllMigrations
  BY <1>1 DEF Trees
<1> QED
  BY <1>2, <1>3 DEF Merged, Trees

\* Merging a request that was checked drops no migration of main.
LEMMA MergeKeeps ==
  ASSUME MigrationsInv, NEW p \in Requests, passed[p] \in {"fresh", "stale"}
  PROVE  main.files \subseteq Merged(p).files
<1>1. seen[p].files \subseteq branch[p].files /\ seen[p].files \subseteq main.files
  BY DEF MigrationsInv, CheckedIsWhole, SeenIsKept
<1> QED
  BY <1>1 DEF Merged

LEMMA FirstReplays == Replay(0, {First}) = 0
<1>1. First.sets = 0 /\ 0 # NoSql
  BY MigrationsAssumption DEF First, Migration
<1>2. {f \in {First} : f.sets # NoSql} = {First}
  BY <1>1
<1>3. (CHOOSE f \in {First} : \A g \in {First} \ {f} : ~Precedes(f, g)) = First
  OBVIOUS
<1> QED
  BY <1>1, <1>2, <1>3 DEF Replay

LEMMA MigrationsInitial == MigrationsInit => MigrationsInv
<1> SUFFICES ASSUME MigrationsInit PROVE MigrationsInv
  OBVIOUS
<1>1. First \in AllMigrations
  BY MigrationsAssumption DEF First, AllMigrations
<1>2. [model |-> 0, files |-> {First}] \in Trees
  BY <1>1, MigrationsAssumption DEF Trees
<1>3. RequestsTypeOK
  BY <1>2 DEF MigrationsInit, RequestsTypeOK
<1>4. SeenIsKept /\ CheckedIsWhole
  BY DEF MigrationsInit, SeenIsKept, CheckedIsWhole
<1>5. MainReproducesItsSchema
  BY FirstReplays DEF MigrationsInit, MainReproducesItsSchema
<1> QED
  BY <1>3, <1>4, <1>5 DEF MigrationsInv

-----------------------------------------------------------------------------
(* The steps *)

\* A commit takes the pass of its request away and touches nothing else.
LEMMA CommitStep ==
  ASSUME MigrationsInv, NEW p \in Requests, NEW tree \in Trees, Commit(p, tree)
  PROVE  MigrationsInv'
<1>1. /\ main' = main /\ seen' = seen /\ prod' = prod /\ excuses' = excuses
      /\ branch' = [branch EXCEPT ![p] = tree]
      /\ passed' = [passed EXCEPT ![p] = "no"]
  BY DEF Commit
<1>2. \A q \in Requests : passed'[q] \in {"fresh", "stale"} =>
        passed'[q] = passed[q] /\ branch'[q] = branch[q]
  BY <1>1 DEF MigrationsInv, RequestsTypeOK
<1>3. RequestsTypeOK'
  <2>1. /\ main' \in Trees /\ seen' \in [Requests -> Trees]
        /\ branch' \in [Requests -> Trees]
        /\ passed' \in [Requests -> {"no", "fresh", "stale", "merged"}]
        /\ excuses' \subseteq {"stale", "late"}
    BY <1>1 DEF MigrationsInv, RequestsTypeOK
  <2>2. ASSUME NEW q \in Requests, passed'[q] = "fresh"
        PROVE  (~Conflicts(q) /\ CheckMigrations(Merged(q)) /\ CheckDrift(Merged(q)))'
    BY <1>1, <1>2, <2>2 DEF MigrationsInv, RequestsTypeOK, Conflicts, CheckMigrations,
      CheckDrift, Merged, EditedMigrations, AddsMigration, FilesAreSound
  <2> QED
    BY <2>1, <2>2 DEF RequestsTypeOK
<1>4. SeenIsKept' /\ CheckedIsWhole' /\ MainReproducesItsSchema'
  BY <1>1, <1>2 DEF MigrationsInv, SeenIsKept, CheckedIsWhole, MainReproducesItsSchema
<1> QED
  BY <1>3, <1>4 DEF MigrationsInv

LEMMA AuthorStep ==
  ASSUME MigrationsInv, NEW p \in Requests, Author(p)
  PROVE  MigrationsInv'
<1>1. branch[p] \in Trees /\ seen[p] \in Trees /\ main \in Trees
  BY DEF MigrationsInv, RequestsTypeOK
<1>2. ASSUME NEW model \in Models, ChangeModel(p, model)
      PROVE  MigrationsInv'
  <2>1. [branch[p] EXCEPT !.model = model] \in Trees
    BY <1>1 DEF Trees
  <2> QED
    BY <1>2, <2>1, CommitStep DEF ChangeModel
<1>3. ASSUME NEW at \in 1..MaxTime, CreateMigration(p, at)
      PROVE  MigrationsInv'
  <2>1. Migration(at, p, branch[p].model) \in AllMigrations
    BY <1>1, MigrationsAssumption DEF AllMigrations, Trees
  <2>2. [branch[p] EXCEPT !.files = @ \cup {Migration(at, p, branch[p].model)}] \in Trees
    BY <1>1, <2>1 DEF Trees
  <2> QED
    BY <1>3, <2>2, CommitStep DEF CreateMigration
<1>4. ASSUME NEW f \in branch[p].files, DeleteMigration(p, f)
      PROVE  MigrationsInv'
  <2>1. [branch[p] EXCEPT !.files = @ \ {f}] \in Trees
    BY <1>1 DEF Trees
  <2> QED
    BY <1>4, <2>1, CommitStep DEF DeleteMigration
<1>5. ASSUME NEW f \in branch[p].files, NEW sets \in Models \cup {NoSql},
             EditMigration(p, f, sets)
      PROVE  MigrationsInv'
  <2>1. [f EXCEPT !.sets = sets] \in AllMigrations
    <3>1. PICK at \in 0..MaxTime, by \in Requests \cup {0}, s \in Models \cup {NoSql} :
            f = Migration(at, by, s)
      BY <1>1 DEF Trees, AllMigrations
    <3>2. [f EXCEPT !.sets = sets] = Migration(at, by, sets)
      BY <3>1 DEF Migration
    <3> QED
      BY <3>2 DEF AllMigrations
  <2>2. [branch[p] EXCEPT !.files = (@ \ {f}) \cup {[f EXCEPT !.sets = sets]}] \in Trees
    BY <1>1, <2>1 DEF Trees
  <2> QED
    BY <1>5, <2>2, CommitStep DEF EditMigration
<1>6. ASSUME NEW model \in Models, Update(p, model)
      PROVE  MigrationsInv'
  <2> DEFINE tree == [Merged(p) EXCEPT !.model = model]
  <2>1. tree \in Trees /\ tree.files = Merged(p).files
    BY <1>1, MergedIsTree DEF MigrationsInv, Trees
  <2>2. /\ main' = main /\ prod' = prod /\ excuses' = excuses
        /\ branch' = [branch EXCEPT ![p] = tree]
        /\ seen' = [seen EXCEPT ![p] = main]
        /\ passed' = [passed EXCEPT ![p] = "no"]
    BY <1>6 DEF Update
  <2> HIDE DEF tree
  <2>3. \A q \in Requests : passed'[q] \in {"fresh", "stale"} =>
          passed'[q] = passed[q] /\ branch'[q] = branch[q] /\ seen'[q] = seen[q]
    BY <2>2 DEF MigrationsInv, RequestsTypeOK
  <2>4. /\ main' \in Trees /\ seen' \in [Requests -> Trees]
        /\ branch' \in [Requests -> Trees]
        /\ passed' \in [Requests -> {"no", "fresh", "stale", "merged"}]
        /\ excuses' \subseteq {"stale", "late"}
    BY <1>1, <2>1, <2>2 DEF MigrationsInv, RequestsTypeOK
  <2>5. ASSUME NEW q \in Requests, passed'[q] = "fresh"
        PROVE  (~Conflicts(q) /\ CheckMigrations(Merged(q)) /\ CheckDrift(Merged(q)))'
    <3>1. ~Conflicts(q) /\ CheckMigrations(Merged(q)) /\ CheckDrift(Merged(q))
      BY <2>3, <2>5 DEF MigrationsInv, RequestsTypeOK
    <3>2. main' = main /\ branch'[q] = branch[q] /\ seen'[q] = seen[q]
      BY <2>2, <2>3, <2>5
    <3>3. Merged(q)' = Merged(q)
      BY <3>2 DEF Merged
    <3>4. Conflicts(q)' = Conflicts(q)
      BY <3>2 DEF Conflicts
    <3> QED
      BY <3>1, <3>2, <3>3, <3>4 DEF CheckMigrations, CheckDrift, EditedMigrations,
        AddsMigration, FilesAreSound
  <2>6. RequestsTypeOK'
    BY <2>4, <2>5 DEF RequestsTypeOK
  <2>7. SeenIsKept' /\ CheckedIsWhole' /\ MainReproducesItsSchema'
    BY <2>2, <2>3 DEF MigrationsInv, RequestsTypeOK, SeenIsKept, CheckedIsWhole,
      MainReproducesItsSchema
  <2> QED
    BY <2>6, <2>7 DEF MigrationsInv
<1> QED
  BY <1>2, <1>3, <1>4, <1>5, <1>6 DEF Author

\* The check sees that nothing of main would be edited or deleted.
LEMMA CheckStep ==
  ASSUME MigrationsInv, NEW p \in Requests, Check(p)
  PROVE  MigrationsInv'
<1>1. /\ main' = main /\ seen' = seen /\ branch' = branch
      /\ prod' = prod /\ excuses' = excuses
      /\ passed' = [passed EXCEPT ![p] = "fresh"]
      /\ ~Conflicts(p) /\ CheckMigrations(Merged(p)) /\ CheckDrift(Merged(p))
  BY DEF Check
<1>2. /\ main' \in Trees /\ seen' \in [Requests -> Trees]
      /\ branch' \in [Requests -> Trees]
      /\ passed' \in [Requests -> {"no", "fresh", "stale", "merged"}]
      /\ excuses' \subseteq {"stale", "late"}
  BY <1>1 DEF MigrationsInv, RequestsTypeOK
<1>3. \A q \in Requests \ {p} : passed'[q] = passed[q]
  BY <1>1 DEF MigrationsInv, RequestsTypeOK
<1>4. ASSUME NEW q \in Requests, passed'[q] = "fresh"
      PROVE  (~Conflicts(q) /\ CheckMigrations(Merged(q)) /\ CheckDrift(Merged(q)))'
  <2>1. ~Conflicts(q) /\ CheckMigrations(Merged(q)) /\ CheckDrift(Merged(q))
    BY <1>1, <1>3, <1>4 DEF MigrationsInv, RequestsTypeOK
  <2> QED
    BY <1>1, <2>1 DEF Conflicts, CheckMigrations,
      CheckDrift, Merged, EditedMigrations, AddsMigration, FilesAreSound
<1>5. seen[p].files \subseteq branch[p].files
  <2>1. main.files \ Merged(p).files = {}
    BY <1>1 DEF CheckMigrations, EditedMigrations
  <2>2. seen[p].files \subseteq main.files
    BY DEF MigrationsInv, SeenIsKept
  <2> QED
    BY <2>1, <2>2 DEF Merged
<1>6. CheckedIsWhole'
  BY <1>1, <1>3, <1>5 DEF MigrationsInv, CheckedIsWhole
<1>7. SeenIsKept' /\ MainReproducesItsSchema'
  BY <1>1 DEF MigrationsInv, SeenIsKept, MainReproducesItsSchema
<1> QED
  BY <1>2, <1>4, <1>6, <1>7 DEF MigrationsInv, RequestsTypeOK

LEMMA MergeStep ==
  ASSUME MigrationsInv, NEW p \in Requests, Merge(p)
  PROVE  MigrationsInv'
<1>1. /\ passed[p] \in {"fresh", "stale"}
      /\ main' = Merged(p)
      /\ passed' = [q \in Requests |->
                      IF q = p THEN "merged"
                      ELSE IF passed[q] = "fresh" THEN "stale" ELSE passed[q]]
      /\ excuses' = excuses \cup (IF passed[p] = "stale" THEN {"stale"} ELSE {})
      /\ seen' = [seen EXCEPT ![p] = Merged(p)]
      /\ branch' = [branch EXCEPT ![p] = Merged(p)]
      /\ prod' = prod
  BY DEF Merge
<1>2. Merged(p) \in Trees
  BY MergedIsTree DEF MigrationsInv
<1>3. main.files \subseteq Merged(p).files
  BY <1>1, MergeKeeps
<1>4. \A q \in Requests :
        /\ passed'[q] \in {"no", "stale", "merged"}
        /\ passed'[q] = "stale" => q # p /\ passed[q] \in {"fresh", "stale"}
  <2> TAKE q \in Requests
  <2>1. passed[q] \in {"no", "fresh", "stale", "merged"}
    BY DEF MigrationsInv, RequestsTypeOK
  <2>2. CASE q = p
    BY <1>1, <2>2
  <2>3. CASE q # p /\ passed[q] = "fresh"
    BY <1>1, <2>3
  <2>4. CASE q # p /\ passed[q] # "fresh"
    BY <1>1, <2>1, <2>4
  <2> QED
    BY <2>2, <2>3, <2>4
<1>5. /\ main' \in Trees /\ seen' \in [Requests -> Trees]
      /\ branch' \in [Requests -> Trees]
      /\ passed' \in [Requests -> {"no", "fresh", "stale", "merged"}]
      /\ excuses' \subseteq {"stale", "late"}
  <2>1. main' \in Trees /\ seen' \in [Requests -> Trees]
          /\ branch' \in [Requests -> Trees] /\ excuses' \subseteq {"stale", "late"}
    BY <1>1, <1>2 DEF MigrationsInv, RequestsTypeOK
  <2>2. passed' \in [Requests -> {"no", "fresh", "stale", "merged"}]
    BY <1>1, <1>4
  <2> QED
    BY <2>1, <2>2
<1>6. RequestsTypeOK'
  BY <1>4, <1>5 DEF RequestsTypeOK
<1>7. SeenIsKept'
  BY <1>1, <1>3 DEF MigrationsInv, RequestsTypeOK, SeenIsKept
<1>8. CheckedIsWhole'
  BY <1>1, <1>4 DEF MigrationsInv, RequestsTypeOK, CheckedIsWhole
<1>9. MainReproducesItsSchema'
  <2> SUFFICES ASSUME "stale" \notin excuses'
               PROVE  /\ Replay(0, Merged(p).files) = Merged(p).model
                      /\ \A f, g \in Merged(p).files : f.at = g.at => f = g
    BY <1>1 DEF MainReproducesItsSchema
  <2>1. passed[p] = "fresh"
    BY <1>1
  <2>2. CheckMigrations(Merged(p)) /\ CheckDrift(Merged(p))
    BY <2>1 DEF MigrationsInv, RequestsTypeOK
  <2> QED
    BY <2>2 DEF CheckMigrations, CheckDrift, FilesAreSound
<1> QED
  BY <1>6, <1>7, <1>8, <1>9 DEF MigrationsInv

LEMMA DeployStep ==
  ASSUME MigrationsInv, Deploy
  PROVE  MigrationsInv'
<1>1. /\ main' = main /\ seen' = seen /\ branch' = branch /\ passed' = passed
      /\ excuses \subseteq excuses' /\ excuses' \subseteq {"stale", "late"}
  BY DEF Deploy, MigrationsInv, RequestsTypeOK
<1>2. RequestsTypeOK'
  BY <1>1 DEF MigrationsInv, RequestsTypeOK, Conflicts, CheckMigrations, CheckDrift, Merged,
    EditedMigrations, AddsMigration, FilesAreSound
<1>3. SeenIsKept' /\ CheckedIsWhole' /\ MainReproducesItsSchema'
  BY <1>1 DEF MigrationsInv, SeenIsKept, CheckedIsWhole, MainReproducesItsSchema
<1> QED
  BY <1>2, <1>3 DEF MigrationsInv

LEMMA StutterStep ==
  ASSUME MigrationsInv, UNCHANGED migrationVars
  PROVE  MigrationsInv'
<1>1. /\ main' = main /\ seen' = seen /\ branch' = branch /\ passed' = passed
      /\ excuses' = excuses
  BY DEF migrationVars
<1>2. RequestsTypeOK'
  <2>1. /\ main' \in Trees /\ seen' \in [Requests -> Trees]
        /\ branch' \in [Requests -> Trees]
        /\ passed' \in [Requests -> {"no", "fresh", "stale", "merged"}]
        /\ excuses' \subseteq {"stale", "late"}
    BY <1>1 DEF MigrationsInv, RequestsTypeOK
  <2>2. ASSUME NEW q \in Requests, passed'[q] = "fresh"
        PROVE  (~Conflicts(q) /\ CheckMigrations(Merged(q)) /\ CheckDrift(Merged(q)))'
    <3>1. ~Conflicts(q) /\ CheckMigrations(Merged(q)) /\ CheckDrift(Merged(q))
      BY <1>1, <2>2 DEF MigrationsInv, RequestsTypeOK
    <3>2. Merged(q)' = Merged(q) /\ Conflicts(q)' = Conflicts(q)
      BY <1>1 DEF Merged, Conflicts
    <3> QED
      BY <1>1, <3>1, <3>2 DEF CheckMigrations, CheckDrift, EditedMigrations,
        AddsMigration, FilesAreSound
  <2> QED
    BY <2>1, <2>2 DEF RequestsTypeOK
<1>3. SeenIsKept' /\ CheckedIsWhole' /\ MainReproducesItsSchema'
  BY <1>1 DEF MigrationsInv, SeenIsKept, CheckedIsWhole, MainReproducesItsSchema
<1> QED
  BY <1>2, <1>3 DEF MigrationsInv

LEMMA MigrationsStep == MigrationsInv /\ [MigrationsNext]_migrationVars => MigrationsInv'
<1> SUFFICES ASSUME MigrationsInv, [MigrationsNext]_migrationVars PROVE MigrationsInv'
  OBVIOUS
<1>1. CASE UNCHANGED migrationVars
  BY <1>1, StutterStep
<1>2. CASE Deploy
  BY <1>2, DeployStep
<1>3. ASSUME NEW p \in Requests, Author(p)
      PROVE  MigrationsInv'
  BY <1>3, AuthorStep
<1>4. ASSUME NEW p \in Requests, Check(p)
      PROVE  MigrationsInv'
  BY <1>4, CheckStep
<1>5. ASSUME NEW p \in Requests, Merge(p)
      PROVE  MigrationsInv'
  BY <1>5, MergeStep
<1> QED
  BY <1>1, <1>2, <1>3, <1>4, <1>5 DEF MigrationsNext

LEMMA MigrationsInvariance == MigrationsSpec => []MigrationsInv
<1>1. MigrationsInit => MigrationsInv
  BY MigrationsInitial
<1>2. MigrationsInv /\ [MigrationsNext]_migrationVars => MigrationsInv'
  BY MigrationsStep
<1> QED
  BY <1>1, <1>2, PTL DEF MigrationsSpec

-----------------------------------------------------------------------------

\* check-migrations.mjs and check-drift.mjs: whatever requests are written,
\* edited, updated and merged, the migrations of main reproduce its schema and
\* have different timestamps, unless a request was merged on a stale check.
THEOREM MainIsReproduced == MigrationsSpec => []MainReproducesItsSchema
<1>1. MigrationsInv => MainReproducesItsSchema
  BY DEF MigrationsInv
<1> QED
  BY <1>1, MigrationsInvariance, PTL

LEMMA AppendStep ==
  MigrationsInv /\ [MigrationsNext]_migrationVars => [main.files \subseteq main'.files]_migrationVars
<1> SUFFICES ASSUME MigrationsInv, [MigrationsNext]_migrationVars
             PROVE  main.files \subseteq main'.files
  OBVIOUS
<1>1. CASE UNCHANGED migrationVars
  BY <1>1 DEF migrationVars
<1>2. CASE Deploy
  BY <1>2 DEF Deploy
<1>3. ASSUME NEW p \in Requests, Author(p)
      PROVE  main' = main
  BY <1>3 DEF Author, ChangeModel, CreateMigration, EditMigration, DeleteMigration,
    Update, Commit
<1>4. ASSUME NEW p \in Requests, Check(p)
      PROVE  main' = main
  BY <1>4 DEF Check
<1>5. ASSUME NEW p \in Requests, Merge(p)
      PROVE  main.files \subseteq main'.files
  BY <1>5, MergeKeeps DEF Merge
<1> QED
  BY <1>1, <1>2, <1>3, <1>4, <1>5 DEF MigrationsNext

\* check-migrations.mjs, editedMigrations: a migration of main stays as it is
\* for ever, even where requests are merged on stale checks.
THEOREM AppendOnly == MigrationsSpec => MigrationsAreAppendOnly
<1>1. MigrationsInv /\ [MigrationsNext]_migrationVars => [main.files \subseteq main'.files]_migrationVars
  BY AppendStep
<1> QED
  BY <1>1, MigrationsInvariance, PTL DEF MigrationsSpec, MigrationsAreAppendOnly

-----------------------------------------------------------------------------
(* What is applied in production *)

Ordered(files) == \A f, g \in files : f.at = g.at => f = g

Effective(files) == {f \in files : f.sets # NoSql}

IsLatest(f, files) ==
  f \in Effective(files) /\ \A g \in Effective(files) : g.at <= f.at

LEMMA TimesAreNat ==
  ASSUME NEW f \in AllMigrations
  PROVE  f.at \in 0..MaxTime
<1>1. PICK at \in 0..MaxTime, by \in Requests \cup {0}, s \in Models \cup {NoSql} :
        f = Migration(at, by, s)
  BY DEF AllMigrations
<1> QED
  BY <1>1 DEF Migration

LastOf(effective) ==
  CHOOSE f \in effective : \A g \in effective \ {f} : ~Precedes(f, g)

LEMMA EffectiveReplays ==
  ASSUME NEW files, NEW model
  PROVE  Replay(model, files) =
           IF Effective(files) = {} THEN model ELSE LastOf(Effective(files)).sets
BY DEF Replay, Effective, LastOf

\* Of the migrations with different timestamps the latest counts.
LEMMA ReplayTakesLatest ==
  ASSUME NEW files \in SUBSET AllMigrations, Ordered(files), NEW model,
         NEW f, IsLatest(f, files)
  PROVE  Replay(model, files) = f.sets
<1> DEFINE last == LastOf(Effective(files))
<1>1. \A g \in Effective(files) \ {f} : ~Precedes(f, g)
  <2> TAKE g \in Effective(files) \ {f}
  <2>1. f \in files /\ g \in files /\ g.at <= f.at
    BY DEF IsLatest, Effective
  <2>2. f.at \in Nat /\ g.at \in Nat
    BY <2>1, TimesAreNat, MigrationsAssumption
  <2>3. f.at # g.at
    BY <2>1 DEF Ordered
  <2> QED
    BY <2>1, <2>2, <2>3 DEF Precedes
<1>2. f \in Effective(files)
  BY DEF IsLatest
<1>3. last \in Effective(files) /\ \A g \in Effective(files) \ {last} : ~Precedes(last, g)
  BY <1>1, <1>2 DEF LastOf
<1>4. last = f
  <2> SUFFICES ASSUME last # f PROVE FALSE
    OBVIOUS
  <2>1. ~Precedes(last, f) /\ last.at <= f.at /\ last \in files /\ f \in files
    BY <1>2, <1>3 DEF IsLatest, Effective
  <2> HIDE DEF last
  <2>2. last.at \in Nat /\ f.at \in Nat
    BY <2>1, TimesAreNat, MigrationsAssumption
  <2>3. last.at # f.at
    BY <2>1 DEF Ordered
  <2> QED
    BY <2>1, <2>2, <2>3 DEF Precedes
<1>5. Replay(model, files) = last.sets
  BY <1>2, EffectiveReplays
<1> QED
  BY <1>4, <1>5

LEMMA LatestExists ==
  ASSUME NEW files \in SUBSET AllMigrations, Effective(files) # {}
  PROVE  \E f : IsLatest(f, files)
<1> DEFINE T == {MaxTime - f.at : f \in Effective(files)}
<1>1. \A f \in Effective(files) : f.at \in Nat /\ f.at <= MaxTime /\ MaxTime \in Nat
  BY TimesAreNat, MigrationsAssumption DEF Effective
<1>2. T \subseteq Nat /\ T # {}
  BY <1>1
<1>3. PICK t \in T : \A u \in T : ~(<<u, t>> \in OpToRel(<, Nat))
  BY <1>2, NatLessThanWellFounded, WFMin
<1>4. PICK f \in Effective(files) : t = MaxTime - f.at
  OBVIOUS
<1>5. ASSUME NEW g \in Effective(files)
      PROVE  g.at <= f.at
  <2>1. MaxTime - g.at \in T
    OBVIOUS
  <2>2. ~(MaxTime - g.at < t)
    BY <1>2, <1>3, <2>1 DEF OpToRel
  <2> QED
    BY <1>1, <1>4, <2>2
<1> QED
  BY <1>4, <1>5 DEF IsLatest

\* What sorts after all that was applied may be applied on its own.
LEMMA ReplayInParts ==
  ASSUME NEW files \in SUBSET AllMigrations, Ordered(files),
         NEW done \in SUBSET files, NEW model,
         \A f \in files \ done, g \in done : ~Precedes(f, g)
  PROVE  Replay(Replay(model, done), files \ done) = Replay(model, files)
<1> DEFINE rest == files \ done
<1>1. Ordered(done) /\ Ordered(rest)
  BY DEF Ordered
<1>2. done \in SUBSET AllMigrations /\ rest \in SUBSET AllMigrations
  OBVIOUS
<1>3. CASE Effective(rest) = {}
  <2>1. Replay(Replay(model, done), rest) = Replay(model, done)
    BY <1>3 DEF Replay, Effective
  <2>2. Effective(files) = Effective(done)
    BY <1>3 DEF Effective
  <2>3. Replay(model, files) = Replay(model, done)
    BY <2>2, EffectiveReplays
  <2> QED
    BY <2>1, <2>3
<1>4. CASE Effective(rest) # {}
  <2>1. PICK f : IsLatest(f, rest)
    BY <1>2, <1>4, LatestExists
  <2>2. \A g \in done : g.at <= f.at
    <3> TAKE g \in done
    <3>1. f \in rest /\ ~Precedes(f, g)
      BY <2>1 DEF IsLatest, Effective
    <3>2. f.at \in Nat /\ g.at \in Nat
      BY <1>2, <3>1, TimesAreNat, MigrationsAssumption
    <3> QED
      BY <3>1, <3>2 DEF Precedes
  <2>3. IsLatest(f, files)
    BY <2>1, <2>2 DEF IsLatest, Effective
  <2> QED
    BY <1>1, <1>2, <2>1, <2>3, ReplayTakesLatest
<1> QED
  BY <1>3, <1>4

\* Production has applied migrations of main only and, with no excuse, is what
\* they make of an empty database.
Deployed ==
  /\ prod.files \subseteq main.files
  /\ excuses = {} => prod.model = Replay(0, prod.files)

PInv == MigrationsInv /\ Deployed

LEMMA DeployedStep == PInv /\ [MigrationsNext]_migrationVars => Deployed'
<1> SUFFICES ASSUME PInv, [MigrationsNext]_migrationVars PROVE Deployed'
  OBVIOUS
<1>1. MigrationsInv /\ Deployed
  BY DEF PInv
<1>2. ASSUME prod' = prod, excuses \subseteq excuses'
      PROVE  Deployed'
  <2>1. main.files \subseteq main'.files
    <3>1. [main.files \subseteq main'.files]_migrationVars
      BY <1>1, AppendStep
    <3>2. UNCHANGED migrationVars => main' = main
      BY DEF migrationVars
    <3> QED
      BY <3>1, <3>2
  <2> QED
    BY <1>1, <1>2, <2>1 DEF Deployed, Replay
<1>3. CASE UNCHANGED migrationVars
  BY <1>2, <1>3 DEF migrationVars
<1>4. CASE Deploy
  <2>1. /\ main' = main /\ prod.files \subseteq main.files
        /\ prod' = [model |-> Replay(prod.model, main.files \ prod.files),
                    files |-> main.files]
        /\ excuses' = excuses \cup (IF Late(main.files) THEN {"late"} ELSE {})
        /\ main \in Trees
    BY <1>1, <1>4 DEF Deploy, Deployed, MigrationsInv, RequestsTypeOK
  <2>2. prod'.files \subseteq main'.files
    BY <2>1
  <2>3. ASSUME excuses' = {}
        PROVE  prod'.model = Replay(0, prod'.files)
    <3>1. excuses = {} /\ ~Late(main.files)
      BY <2>1, <2>3
    <3>2. Ordered(main.files) /\ main.files \in SUBSET AllMigrations
      BY <1>1, <2>1, <3>1 DEF MigrationsInv, MainReproducesItsSchema, Ordered, Trees
    <3>3. \A f \in main.files \ prod.files, g \in prod.files : ~Precedes(f, g)
      BY <3>1 DEF Late
    <3>4. Replay(Replay(0, prod.files), main.files \ prod.files) = Replay(0, main.files)
      BY <2>1, <3>2, <3>3, ReplayInParts
    <3> QED
      BY <1>1, <2>1, <3>1, <3>4 DEF Deployed
  <2> QED
    BY <2>2, <2>3 DEF Deployed, Replay
<1>5. ASSUME NEW p \in Requests, Author(p) \/ Check(p)
      PROVE  Deployed'
  <2>1. prod' = prod /\ excuses' = excuses
    BY <1>5 DEF Author, ChangeModel, CreateMigration, EditMigration,
      DeleteMigration, Update, Commit, Check
  <2> QED
    BY <1>2, <2>1
<1>6. ASSUME NEW p \in Requests, Merge(p)
      PROVE  Deployed'
  <2>1. prod' = prod /\ excuses \subseteq excuses'
    BY <1>6 DEF Merge
  <2> QED
    BY <1>2, <2>1
<1> QED
  BY <1>3, <1>4, <1>5, <1>6 DEF MigrationsNext

LEMMA InitDeployed == MigrationsInit => Deployed
BY FirstReplays DEF MigrationsInit, Deployed

\* prisma migrate deploy on top of the two scripts: when everything is deployed
\* production has the schema of main, unless a request was merged on a stale
\* check or a migration came late.
THEOREM ProductionIsReproduced == MigrationsSpec => []ProductionHasTheSchema
<1>1. MigrationsInit => PInv
  BY MigrationsInitial, InitDeployed DEF PInv
<1>2. PInv /\ [MigrationsNext]_migrationVars => PInv'
  BY MigrationsStep, DeployedStep DEF PInv
<1>3. PInv => ProductionHasTheSchema
  <2> SUFFICES ASSUME PInv, excuses = {}, prod.files = main.files
               PROVE  prod.model = main.model
    BY DEF ProductionHasTheSchema
  <2> QED
    BY DEF PInv, MigrationsInv, Deployed, MainReproducesItsSchema
<1> QED
  BY <1>1, <1>2, <1>3, PTL DEF MigrationsSpec

-----------------------------------------------------------------------------
(* Production is a tree, whatever was merged *)

FilesAreFinite ==
  /\ IsFiniteSet(main.files)
  /\ \A p \in Requests : IsFiniteSet(branch[p].files)

\* Of finitely many migrations one has the last name, even where timestamps or
\* names collide.
LEMMA LastExists ==
  ASSUME NEW files \in SUBSET AllMigrations, IsFiniteSet(files), files # {}
  PROVE  LastOf(files) \in files
<1> DEFINE After(f) == {g \in files : Precedes(f, g)}
           ranks == {Cardinality(After(f)) : f \in files}
<1>1. ASSUME NEW f \in files
      PROVE  IsFiniteSet(After(f)) /\ Cardinality(After(f)) \in Nat
  BY FS_Subset, FS_CardinalityType
<1>2. ASSUME NEW f \in files
      PROVE  f.at \in Nat /\ f.by \in Nat
  <2>1. PICK at \in 0..MaxTime, by \in Requests \cup {0}, s \in Models \cup {NoSql} :
          f = Migration(at, by, s)
    BY DEF AllMigrations
  <2>2. f.at = at /\ f.by = by
    BY <2>1 DEF Migration
  <2>3. at \in Nat /\ by \in Nat
    BY MigrationsAssumption
  <2> QED
    BY <2>2, <2>3
<1>3. ranks \subseteq Nat /\ ranks # {}
  BY <1>1
<1>4. PICK r \in ranks : \A t \in ranks : ~(<<t, r>> \in OpToRel(<, Nat))
  BY <1>3, NatLessThanWellFounded, WFMin
<1>5. PICK f \in files : r = Cardinality(After(f))
  OBVIOUS
<1>6. ASSUME NEW g \in files, Precedes(f, g)
      PROVE  FALSE
  <2>1. After(g) \subseteq After(f)
    <3> SUFFICES ASSUME NEW h \in files, Precedes(g, h) PROVE Precedes(f, h)
      OBVIOUS
    <3> QED
      BY <1>2, <1>6 DEF Precedes
  <2>2. g \in After(f) /\ g \notin After(g)
    BY <1>2, <1>6 DEF Precedes
  <2>3. /\ Cardinality(After(g)) \in Nat /\ r \in Nat /\ IsFiniteSet(After(f))
    BY <1>1, <1>5
  <2>4. Cardinality(After(g)) \in ranks
    OBVIOUS
  <2> HIDE DEF After, ranks
  <2>5. Cardinality(After(g)) <= r /\ Cardinality(After(g)) # r
    BY <1>5, <2>1, <2>2, <2>3, FS_Subset
  <2>6. Cardinality(After(g)) < r
    BY <2>3, <2>5
  <2>7. <<Cardinality(After(g)), r>> \in OpToRel(<, Nat)
    BY <2>3, <2>6 DEF OpToRel
  <2> QED
    BY <1>4, <2>4, <2>7
<1>7. \A g \in files \ {f} : ~Precedes(f, g)
  BY <1>6
<1> QED
  BY <1>5, <1>7 DEF LastOf

LEMMA ReplayIsModel ==
  ASSUME NEW model \in Models, NEW files \in SUBSET AllMigrations, IsFiniteSet(files)
  PROVE  Replay(model, files) \in Models
<1>1. /\ Effective(files) \in SUBSET files /\ Effective(files) \in SUBSET AllMigrations
      /\ \A f \in Effective(files) : f.sets # NoSql
  BY DEF Effective
<1>2. IsFiniteSet(Effective(files))
  BY <1>1, FS_Subset
<1>3. ASSUME Effective(files) # {}
      PROVE  LastOf(Effective(files)).sets \in Models
  <2>1. LastOf(Effective(files)) \in Effective(files)
    BY <1>1, <1>2, <1>3, LastExists
  <2>2. PICK f : f = LastOf(Effective(files))
    OBVIOUS
  <2>3. f \in AllMigrations /\ f.sets # NoSql
    BY <1>1, <2>1, <2>2
  <2>4. f.sets \in Models \cup {NoSql}
    BY <2>3 DEF AllMigrations, Migration
  <2> QED
    BY <2>2, <2>3, <2>4
<1> QED
  BY <1>3, EffectiveReplays

LEMMA MergedIsFinite ==
  ASSUME FilesAreFinite, NEW p \in Requests
  PROVE  IsFiniteSet(Merged(p).files)
<1>1. IsFiniteSet(main.files \cup branch[p].files)
  BY FS_Union DEF FilesAreFinite
<1>2. Merged(p).files \in SUBSET (main.files \cup branch[p].files)
  BY DEF Merged
<1> QED
  BY <1>1, <1>2, FS_Subset

ProdInv == MigrationsInv /\ FilesAreFinite /\ prod \in Trees

LEMMA CommitIsFinite ==
  ASSUME ProdInv, NEW p \in Requests, NEW tree, IsFiniteSet(tree.files), Commit(p, tree)
  PROVE  FilesAreFinite' /\ prod' = prod
<1>1. main' = main /\ prod' = prod /\ branch' = [branch EXCEPT ![p] = tree]
  BY DEF Commit
<1>2. DOMAIN branch = Requests
  BY DEF ProdInv, MigrationsInv, RequestsTypeOK
<1>3. \A q \in Requests : branch'[q] = IF q = p THEN tree ELSE branch[q]
  BY <1>1, <1>2
<1> QED
  BY <1>1, <1>3 DEF ProdInv, FilesAreFinite

LEMMA AuthorIsFinite ==
  ASSUME ProdInv, NEW p \in Requests, Author(p)
  PROVE  FilesAreFinite' /\ prod' = prod
<1> DEFINE files == branch[p].files
<1>1. FilesAreFinite /\ IsFiniteSet(files) /\ branch[p] \in Trees
  BY DEF ProdInv, FilesAreFinite, MigrationsInv, RequestsTypeOK
<1>2. ASSUME NEW model \in Models, ChangeModel(p, model)
      PROVE  FilesAreFinite' /\ prod' = prod
  <2>1. [branch[p] EXCEPT !.model = model].files = files
    BY <1>1 DEF Trees
  <2> QED
    BY <1>1, <1>2, <2>1, CommitIsFinite DEF ChangeModel
<1>3. ASSUME NEW at \in 1..MaxTime, CreateMigration(p, at)
      PROVE  FilesAreFinite' /\ prod' = prod
  <2>1. [branch[p] EXCEPT !.files = @ \cup {Migration(at, p, branch[p].model)}].files
          = files \cup {Migration(at, p, branch[p].model)}
    BY <1>1 DEF Trees
  <2>2. IsFiniteSet(files \cup {Migration(at, p, branch[p].model)})
    BY <1>1, FS_AddElement
  <2> QED
    BY <1>3, <2>1, <2>2, CommitIsFinite DEF CreateMigration
<1>4. ASSUME NEW f \in files, DeleteMigration(p, f)
      PROVE  FilesAreFinite' /\ prod' = prod
  <2>1. [branch[p] EXCEPT !.files = @ \ {f}].files = files \ {f}
    BY <1>1 DEF Trees
  <2>2. IsFiniteSet(files \ {f})
    BY <1>1, FS_RemoveElement
  <2> QED
    BY <1>4, <2>1, <2>2, CommitIsFinite DEF DeleteMigration
<1>5. ASSUME NEW f \in files, NEW sets \in Models \cup {NoSql}, EditMigration(p, f, sets)
      PROVE  FilesAreFinite' /\ prod' = prod
  <2>1. [branch[p] EXCEPT !.files = (@ \ {f}) \cup {[f EXCEPT !.sets = sets]}].files
          = (files \ {f}) \cup {[f EXCEPT !.sets = sets]}
    BY <1>1 DEF Trees
  <2>2. IsFiniteSet((files \ {f}) \cup {[f EXCEPT !.sets = sets]})
    BY <1>1, FS_RemoveElement, FS_AddElement
  <2> QED
    BY <1>5, <2>1, <2>2, CommitIsFinite DEF EditMigration
<1>6. ASSUME NEW model \in Models, Update(p, model)
      PROVE  FilesAreFinite' /\ prod' = prod
  <2>1. /\ main' = main /\ prod' = prod
        /\ branch' = [branch EXCEPT ![p] = [Merged(p) EXCEPT !.model = model]]
    BY <1>6 DEF Update
  <2>2. [Merged(p) EXCEPT !.model = model].files = Merged(p).files
    BY MergedIsTree DEF ProdInv, MigrationsInv, Trees
  <2>3. DOMAIN branch = Requests
    BY DEF ProdInv, MigrationsInv, RequestsTypeOK
  <2>4. \A q \in Requests :
          branch'[q].files = IF q = p THEN Merged(p).files ELSE branch[q].files
    BY <2>1, <2>2, <2>3
  <2> QED
    BY <1>1, <2>1, <2>4, MergedIsFinite DEF FilesAreFinite
<1> QED
  BY <1>2, <1>3, <1>4, <1>5, <1>6 DEF Author

LEMMA ProdInitial == MigrationsInit => ProdInv
<1> SUFFICES ASSUME MigrationsInit PROVE ProdInv
  OBVIOUS
<1>1. MigrationsInv
  BY MigrationsInitial
<1>2. /\ main = [model |-> 0, files |-> {First}] /\ prod = main
      /\ branch = [p \in Requests |-> main]
  BY DEF MigrationsInit
<1>3. FilesAreFinite
  BY <1>2, FS_Singleton DEF FilesAreFinite
<1> QED
  BY <1>1, <1>2, <1>3 DEF ProdInv, MigrationsInv, RequestsTypeOK

LEMMA ProdStep == ProdInv /\ [MigrationsNext]_migrationVars => ProdInv'
<1> SUFFICES ASSUME ProdInv, [MigrationsNext]_migrationVars
             PROVE  FilesAreFinite' /\ prod' \in Trees
  BY MigrationsStep DEF ProdInv
<1>1. /\ MigrationsInv /\ FilesAreFinite /\ prod \in Trees /\ main \in Trees
      /\ DOMAIN branch = Requests
  BY DEF ProdInv, MigrationsInv, RequestsTypeOK
<1>2. CASE UNCHANGED migrationVars
  BY <1>1, <1>2 DEF migrationVars, FilesAreFinite
<1>3. CASE Deploy
  <2>1. /\ main' = main /\ branch' = branch
        /\ prod' = [model |-> Replay(prod.model, main.files \ prod.files),
                    files |-> main.files]
    BY <1>3 DEF Deploy
  <2>2. /\ prod.model \in Models /\ main.files \in SUBSET AllMigrations
        /\ main.files \ prod.files \in SUBSET main.files
    BY <1>1 DEF Trees
  <2>3. IsFiniteSet(main.files \ prod.files)
    BY <1>1, <2>2, FS_Subset DEF FilesAreFinite
  <2>4. Replay(prod.model, main.files \ prod.files) \in Models
    BY <2>2, <2>3, ReplayIsModel
  <2>5. prod' \in Trees
    BY <2>1, <2>2, <2>4 DEF Trees
  <2> QED
    BY <1>1, <2>1, <2>5 DEF FilesAreFinite
<1>4. ASSUME NEW p \in Requests, Author(p)
      PROVE  FilesAreFinite' /\ prod' \in Trees
  BY <1>1, <1>4, AuthorIsFinite
<1>5. ASSUME NEW p \in Requests, Check(p)
      PROVE  FilesAreFinite' /\ prod' \in Trees
  BY <1>1, <1>5 DEF Check, FilesAreFinite
<1>6. ASSUME NEW p \in Requests, Merge(p)
      PROVE  FilesAreFinite' /\ prod' \in Trees
  <2>1. /\ main' = Merged(p) /\ branch' = [branch EXCEPT ![p] = main'] /\ prod' = prod
    BY <1>6 DEF Merge
  <2>2. IsFiniteSet(main'.files)
    BY <1>1, <2>1, MergedIsFinite
  <2>3. \A q \in Requests : branch'[q] = IF q = p THEN main' ELSE branch[q]
    BY <1>1, <2>1
  <2> QED
    BY <1>1, <2>1, <2>2, <2>3 DEF FilesAreFinite
<1> QED
  BY <1>2, <1>3, <1>4, <1>5, <1>6 DEF MigrationsNext

\* check-migrations.mjs and check-drift.mjs: a pass that main has not left behind
\* is a pass of what would be merged now; and the migrations always leave
\* production with one of the data models, whatever was merged on stale checks.
THEOREM MigrationsTypeCorrect == MigrationsSpec => []MigrationsTypeOK
<1>1. ProdInv => MigrationsTypeOK
  BY DEF ProdInv, MigrationsInv, MigrationsTypeOK
<1> QED
  BY <1>1, ProdInitial, ProdStep, PTL DEF MigrationsSpec

-----------------------------------------------------------------------------
(* The blocks of the configuration: none asks for less than an earlier one *)

LEMMA ListIs ==
  ASSUME NEW t, NEW n \in Nat, t = [i \in 1..n |-> t[i]]
  PROVE  \E S : t \in Seq(S)
<1> DEFINE S == {t[i] : i \in 1..n}
<1>1. \A i \in 1..n : t[i] \in S
  OBVIOUS
<1> HIDE DEF S
<1>2. [i \in 1..n |-> t[i]] \in Seq(S)
  BY <1>1, IsASeq
<1> QED
  BY <1>2

\* The rules with named checks; the others are on or off.
Named ==
  {"no-restricted-syntax", "no-barrel-files", "no-parent-imports", "prisma-imports",
   "prisma-calls", "sdk-imports", "file-layout", "di-files", "zod-placement",
   "route-shape", "worker-imports", "type-files", "schema-types", "handler-imports",
   "thin-handlers", "typed-errors", "entry-points", "route-constants", "max-one-param",
   "always-return", "service-helpers", "response-messages", "no-db-in-loops",
   "layer-imports", "types-placement", "no-http-in-services", "parse-external-data",
   "route-registrar", "repository-layout", "domain-repository-types",
   "domain-repository-imports", "no-prisma-in-modules", "public-api", "plugin-imports"}

\* Of the rules with named checks, the block asks for those of N only.
Asks(b, N) ==
  \A r \in DOMAIN b.options :
    \/ b.options[r] = {}
    \/ r \in N
    \/ r \notin Named /\ b.options[r] = {"on"}

\* What c sets again it does not ask for less, unless it switches the rule off.
Fits(b, c) ==
  \A r \in DOMAIN b.options \cap DOMAIN c.options :
    b.files \cap c.files # {} =>
      c.options[r] \in {{}, {"misplaced"}} \/ b.options[r] \subseteq c.options[r]

LEMMA OnAsks ==
  ASSUME NEW F, NEW S, NEW N, S \cap Named = {}
  PROVE  Asks(Block(F, On(S)), N)
BY DEF Asks, Block, On

LEMMA OffAsks ==
  ASSUME NEW F, NEW S, NEW N
  PROVE  Asks(Block(F, Off(S)), N)
BY DEF Asks, Block, Off

LEMMA CheckingAsks ==
  ASSUME NEW F, NEW r, NEW c, NEW N, r \in N
  PROVE  Asks(Block(F, Checking(r, c)), N)
BY DEF Asks, Block, Checking

LEMMA OverAsks ==
  ASSUME NEW F, NEW f, NEW g, NEW N, Asks(Block(F, f), N), Asks(Block(F, g), N)
  PROVE  Asks(Block(F, Over(f, g)), N)
BY DEF Asks, Block, Over

LEMMA AsksMore ==
  ASSUME NEW b, NEW N, NEW M, Asks(b, N), N \subseteq M
  PROVE  Asks(b, M)
BY DEF Asks

LEMMA OthersFit ==
  ASSUME NEW b, NEW c, NEW N, NEW M, N \subseteq Named, M \subseteq Named, N \cap M = {},
         Asks(b, N), Asks(c, M)
  PROVE  Fits(b, c)
BY DEF Asks, Fits

\* A list of blocks that fit, of which each asks for those of N only.
Fine(s, N) ==
  /\ \E S : s \in Seq(S)
  /\ \A i \in 1..Len(s) : Asks(s[i], N)
  /\ \A i, j \in 1..Len(s) : i < j => Fits(s[i], s[j])

LEMMA Length ==
  ASSUME NEW n \in Nat, NEW s, s = [i \in 1..n |-> s[i]]
  PROVE  Len(s) = n /\ \E S : s \in Seq(S)
<1>1. PICK S : s \in Seq(S)
  BY ListIs
<1>2. DOMAIN s = 1..n
  OBVIOUS
<1> QED
  BY <1>1, <1>2, LenProperties

LEMMA ListIsFine ==
  ASSUME NEW s, \E S : s \in Seq(S),
         NEW N, NEW a, \A i \in 1..Len(s) : Asks(s[i], a[i]) /\ a[i] \subseteq N,
         N \subseteq Named,
         \A i, j \in 1..Len(s) : i < j => a[i] \cap a[j] = {} \/ Fits(s[i], s[j])
  PROVE  Fine(s, N)
<1>1. \A i \in 1..Len(s) : Asks(s[i], N)
  BY AsksMore
<1>2. ASSUME NEW i \in 1..Len(s), NEW j \in 1..Len(s), i < j
      PROVE  Fits(s[i], s[j])
  <2>1. a[i] \subseteq Named /\ a[j] \subseteq Named
    OBVIOUS
  <2> QED
    BY <1>2, <2>1, OthersFit
<1> QED
  BY <1>1, <1>2 DEF Fine

LEMMA BothAreFine ==
  ASSUME NEW s, NEW t, NEW N, NEW M, Fine(s, N), Fine(t, M),
         \A i \in 1..Len(s), j \in 1..Len(t) : Fits(s[i], t[j])
  PROVE  Fine(s \o t, N \cup M)
<1>1. PICK S : s \in Seq(S)
  BY DEF Fine
<1>2. PICK T : t \in Seq(T)
  BY DEF Fine
<1>3. s \in Seq(S \cup T) /\ t \in Seq(S \cup T)
  BY <1>1, <1>2
<1>4. /\ Len(s) \in Nat /\ Len(t) \in Nat /\ Len(s \o t) = Len(s) + Len(t)
      /\ s \o t \in Seq(S \cup T)
      /\ \A i \in 1..Len(s \o t) :
           (s \o t)[i] = IF i <= Len(s) THEN s[i] ELSE t[i - Len(s)]
  BY <1>3, ConcatProperties
<1> DEFINE u == s \o t
<1> HIDE DEF u
<1>5. \A i \in 1..Len(u) : \/ i \in 1..Len(s) /\ u[i] = s[i]
                           \/ i > Len(s) /\ i - Len(s) \in 1..Len(t) /\ u[i] = t[i - Len(s)]
  BY <1>4 DEF u
<1>6. ASSUME NEW i \in 1..Len(u)
      PROVE  Asks(u[i], N \cup M)
  <2>1. Asks(u[i], N) \/ Asks(u[i], M)
    BY <1>5 DEF Fine
  <2> QED
    BY <2>1, AsksMore
<1>7. ASSUME NEW i \in 1..Len(u), NEW j \in 1..Len(u), i < j
      PROVE  Fits(u[i], u[j])
  <2>1. CASE i \in 1..Len(s) /\ u[i] = s[i]
    BY <1>5, <1>7, <2>1 DEF Fine
  <2>2. CASE i > Len(s) /\ i - Len(s) \in 1..Len(t) /\ u[i] = t[i - Len(s)]
    <3>1. j - Len(s) \in 1..Len(t) /\ u[j] = t[j - Len(s)] /\ i - Len(s) < j - Len(s)
      BY <1>4, <1>5, <1>7, <2>2
    <3> QED
      BY <2>2, <3>1 DEF Fine
  <2> QED
    BY <1>5, <2>1, <2>2
<1> QED
  BY <1>4, <1>6, <1>7 DEF Fine, u

LEMMA NextAreFine ==
  ASSUME NEW s, NEW t, NEW N, NEW M, Fine(s, N), Fine(t, M),
         N \subseteq Named, M \subseteq Named, N \cap M = {}
  PROVE  Fine(s \o t, N \cup M)
<1>1. \A i \in 1..Len(s), j \in 1..Len(t) : Fits(s[i], t[j])
  BY OthersFit DEF Fine
<1> QED
  BY <1>1, BothAreFine

LEMMA MisplacedFits ==
  \A b, F, r : Fits(b, Block(F, Checking(r, {"misplaced"})))
BY DEF Fits, Block, Checking

LEMMA ApartFit ==
  ASSUME NEW F, NEW f, NEW E, NEW g, F \cap E = {}
  PROVE  Fits(Block(F, f), Block(E, g))
BY DEF Fits, Block

LEMMA CheckingMoreFits ==
  ASSUME NEW F, NEW E, NEW r, NEW c, NEW d, c \subseteq d
  PROVE  Fits(Block(F, Checking(r, c)), Block(E, Checking(r, d)))
BY DEF Fits, Block, Checking

-----------------------------------------------------------------------------
(* The parts of the configuration, and of which named rules each asks *)

BaseAsk == {"no-restricted-syntax"}

LEMMA BaseBlocksAreFine == Fine(BaseBlocks, BaseAsk)
<1> DEFINE s == BaseBlocks
           a == <<{"no-restricted-syntax"}, {"no-restricted-syntax"}, {}>>
<1>1. /\ Asks(s[1], a[1]) /\ Asks(s[2], a[2]) /\ Asks(s[3], a[3])
  <2>1. Asks(s[1], a[1])
    BY DEF BaseBlocks, Named, Asks, Block, Checking, Over, On
  <2> QED
    BY <2>1, CheckingAsks, OffAsks DEF BaseBlocks
<1>2. s = [i \in 1..3 |-> s[i]] /\ BaseAsk \subseteq Named
  BY DEF BaseBlocks, BaseAsk, Named
<1>3. \A i \in 1..3 : a[i] \subseteq BaseAsk
  BY DEF BaseAsk
<1>4. Fits(s[1], s[2])
  BY MisplacedFits DEF BaseBlocks
<1>5. \A i, j \in 1..3 : i < j => a[i] \cap a[j] = {} \/ <<i, j>> \in {<<1, 2>>}
  OBVIOUS
<1> HIDE DEF s, a
<1>6. Len(s) = 3 /\ \E S : s \in Seq(S)
  BY <1>2, Length
<1>7. \A i \in 1..Len(s) : Asks(s[i], a[i]) /\ a[i] \subseteq BaseAsk
  BY <1>1, <1>3, <1>6
<1>8. \A i, j \in 1..Len(s) : i < j => a[i] \cap a[j] = {} \/ Fits(s[i], s[j])
  BY <1>4, <1>5, <1>6
<1>9. Fine(s, BaseAsk)
  BY <1>2, <1>6, <1>7, <1>8, ListIsFine
<1> QED
  BY <1>9 DEF s

SourceAsk == {"no-barrel-files", "no-parent-imports"}

LEMMA SourceBlocksAreFine == Fine(SourceBlocks, SourceAsk)
<1> DEFINE s == SourceBlocks
           a == <<{}, {"no-barrel-files", "no-parent-imports"}, {}>>
<1>1. /\ Asks(s[1], a[1]) /\ Asks(s[2], a[2]) /\ Asks(s[3], a[3])
  <2>1. Asks(s[2], a[2])
    BY DEF SourceBlocks, Named, Asks, Block, Checking, Over, On
  <2> QED
    BY <2>1, OnAsks DEF SourceBlocks, Named
<1>2. s = [i \in 1..3 |-> s[i]] /\ SourceAsk \subseteq Named
  BY DEF SourceBlocks, SourceAsk, Named
<1>3. \A i \in 1..3 : a[i] \subseteq SourceAsk
  BY DEF SourceAsk
<1>5. \A i, j \in 1..3 : i < j => a[i] \cap a[j] = {}
  OBVIOUS
<1> HIDE DEF s, a
<1>6. Len(s) = 3 /\ \E S : s \in Seq(S)
  BY <1>2, Length
<1>7. \A i \in 1..Len(s) : Asks(s[i], a[i]) /\ a[i] \subseteq SourceAsk
  BY <1>1, <1>3, <1>6
<1>8. \A i, j \in 1..Len(s) : i < j => a[i] \cap a[j] = {} \/ Fits(s[i], s[j])
  BY <1>5, <1>6
<1>9. Fine(s, SourceAsk)
  BY <1>2, <1>6, <1>7, <1>8, ListIsFine
<1> QED
  BY <1>9 DEF s

PrismaAsk == {"prisma-imports", "prisma-calls"}

LEMMA PrismaBlocksAreFine == Fine(PrismaBlocks, PrismaAsk)
<1> DEFINE s == PrismaBlocks
           a == <<{"prisma-imports", "prisma-calls"}, {"prisma-calls"}>>
<1>1. /\ Asks(s[1], a[1]) /\ Asks(s[2], a[2])
  <2>1. Asks(s[1], a[1])
    BY DEF PrismaBlocks, Named, Asks, Block, Checking, Over, PrismaBlock, PrismaCalls
  <2> QED
    BY <2>1, CheckingAsks DEF PrismaBlocks
<1>2. s = [i \in 1..2 |-> s[i]] /\ PrismaAsk \subseteq Named
  BY DEF PrismaBlocks, PrismaAsk, Named
<1>3. \A i \in 1..2 : a[i] \subseteq PrismaAsk
  BY DEF PrismaAsk
<1>4. Fits(s[1], s[2])
  BY DEF PrismaBlocks, PrismaBlock, Fits, Block, Checking, Over
<1>5. \A i, j \in 1..2 : i < j => a[i] \cap a[j] = {} \/ <<i, j>> \in {<<1, 2>>}
  OBVIOUS
<1> HIDE DEF s, a
<1>6. Len(s) = 2 /\ \E S : s \in Seq(S)
  BY <1>2, Length
<1>7. \A i \in 1..Len(s) : Asks(s[i], a[i]) /\ a[i] \subseteq PrismaAsk
  BY <1>1, <1>3, <1>6
<1>8. \A i, j \in 1..Len(s) : i < j => a[i] \cap a[j] = {} \/ Fits(s[i], s[j])
  BY <1>4, <1>5, <1>6
<1>9. Fine(s, PrismaAsk)
  BY <1>2, <1>6, <1>7, <1>8, ListIsFine
<1> QED
  BY <1>9 DEF s

PlacementAsk == {"sdk-imports", "file-layout"}

LEMMA PlacementBlocksAreFine == Fine(PlacementBlocks, PlacementAsk)
<1> DEFINE s == PlacementBlocks
           a == <<{"sdk-imports"}, {}, {"file-layout"}, {"file-layout"}, {"file-layout"},
                  {"file-layout"}, {}>>
<1>1. /\ Asks(s[1], a[1]) /\ Asks(s[2], a[2]) /\ Asks(s[3], a[3]) /\ Asks(s[4], a[4])
      /\ Asks(s[5], a[5]) /\ Asks(s[6], a[6]) /\ Asks(s[7], a[7])
  BY OnAsks, CheckingAsks DEF PlacementBlocks, Named
<1>2. s = [i \in 1..7 |-> s[i]] /\ PlacementAsk \subseteq Named
  BY DEF PlacementBlocks, PlacementAsk, Named
<1>3. \A i \in 1..7 : a[i] \subseteq PlacementAsk
  BY DEF PlacementAsk
<1>4. Fits(s[3], s[4]) /\ Fits(s[3], s[5]) /\ Fits(s[3], s[6]) /\ Fits(s[4], s[5])
      /\ Fits(s[4], s[6]) /\ Fits(s[5], s[6])
  BY MisplacedFits DEF PlacementBlocks
<1>5. \A i, j \in 1..7 : i < j => a[i] \cap a[j] = {}
        \/ <<i, j>> \in {<<3, 4>>, <<3, 5>>, <<3, 6>>, <<4, 5>>, <<4, 6>>, <<5, 6>>}
  OBVIOUS
<1> HIDE DEF s, a
<1>6. Len(s) = 7 /\ \E S : s \in Seq(S)
  BY <1>2, Length
<1>7. \A i \in 1..Len(s) : Asks(s[i], a[i]) /\ a[i] \subseteq PlacementAsk
  BY <1>1, <1>3, <1>6
<1>8. \A i, j \in 1..Len(s) : i < j => a[i] \cap a[j] = {} \/ Fits(s[i], s[j])
  BY <1>4, <1>5, <1>6
<1>9. Fine(s, PlacementAsk)
  BY <1>2, <1>6, <1>7, <1>8, ListIsFine
<1> QED
  BY <1>9 DEF s

FactoryAsk == {"di-files", "zod-placement"}

LEMMA FactoryBlocksAreFine == Fine(FactoryBlocks, FactoryAsk)
<1> DEFINE s == FactoryBlocks
           a == <<{"di-files"}, {"di-files"}, {"di-files"}, {"zod-placement"}, {}>>
<1>1. /\ Asks(s[1], a[1]) /\ Asks(s[2], a[2]) /\ Asks(s[3], a[3]) /\ Asks(s[4], a[4])
      /\ Asks(s[5], a[5])
  BY OnAsks, CheckingAsks DEF FactoryBlocks, Named
<1>2. s = [i \in 1..5 |-> s[i]] /\ FactoryAsk \subseteq Named
  BY DEF FactoryBlocks, FactoryAsk, Named
<1>3. \A i \in 1..5 : a[i] \subseteq FactoryAsk
  BY DEF FactoryAsk
<1>4. Fits(s[1], s[2]) /\ Fits(s[1], s[3]) /\ Fits(s[2], s[3])
  BY ApartFit DEF FactoryBlocks, Services
<1>5. \A i, j \in 1..5 : i < j => a[i] \cap a[j] = {} \/ <<i, j>> \in {<<1, 2>>, <<1, 3>>, <<2, 3>>}
  OBVIOUS
<1> HIDE DEF s, a
<1>6. Len(s) = 5 /\ \E S : s \in Seq(S)
  BY <1>2, Length
<1>7. \A i \in 1..Len(s) : Asks(s[i], a[i]) /\ a[i] \subseteq FactoryAsk
  BY <1>1, <1>3, <1>6
<1>8. \A i, j \in 1..Len(s) : i < j => a[i] \cap a[j] = {} \/ Fits(s[i], s[j])
  BY <1>4, <1>5, <1>6
<1>9. Fine(s, FactoryAsk)
  BY <1>2, <1>6, <1>7, <1>8, ListIsFine
<1> QED
  BY <1>9 DEF s

RouteAsk == {"route-shape"}

LEMMA RouteBlocksAreFine == Fine(RouteBlocks, RouteAsk)
<1> DEFINE s == RouteBlocks
           a == <<{"route-shape"}, {}, {}, {}, {}>>
<1>1. /\ Asks(s[1], a[1]) /\ Asks(s[2], a[2]) /\ Asks(s[3], a[3]) /\ Asks(s[4], a[4])
      /\ Asks(s[5], a[5])
  BY OnAsks, CheckingAsks DEF RouteBlocks, Named
<1>2. s = [i \in 1..5 |-> s[i]] /\ RouteAsk \subseteq Named
  BY DEF RouteBlocks, RouteAsk, Named
<1>3. \A i \in 1..5 : a[i] \subseteq RouteAsk
  BY DEF RouteAsk
<1>5. \A i, j \in 1..5 : i < j => a[i] \cap a[j] = {}
  OBVIOUS
<1> HIDE DEF s, a
<1>6. Len(s) = 5 /\ \E S : s \in Seq(S)
  BY <1>2, Length
<1>7. \A i \in 1..Len(s) : Asks(s[i], a[i]) /\ a[i] \subseteq RouteAsk
  BY <1>1, <1>3, <1>6
<1>8. \A i, j \in 1..Len(s) : i < j => a[i] \cap a[j] = {} \/ Fits(s[i], s[j])
  BY <1>5, <1>6
<1>9. Fine(s, RouteAsk)
  BY <1>2, <1>6, <1>7, <1>8, ListIsFine
<1> QED
  BY <1>9 DEF s

WorkerAsk == {"worker-imports", "type-files", "schema-types"}

LEMMA WorkerBlocksAreFine == Fine(WorkerBlocks, WorkerAsk)
<1> DEFINE s == WorkerBlocks
           a == <<{"worker-imports"}, {"type-files"}, {}, {}, {"schema-types"}>>
<1>1. /\ Asks(s[1], a[1]) /\ Asks(s[2], a[2]) /\ Asks(s[3], a[3]) /\ Asks(s[4], a[4])
      /\ Asks(s[5], a[5])
  <2>1. Asks(s[1], a[1]) /\ Asks(s[3], a[3])
    BY DEF WorkerBlocks, Named, Asks, Block, Checking, Over, On, Off
  <2> QED
    BY <2>1, OnAsks, CheckingAsks DEF WorkerBlocks, Named
<1>2. s = [i \in 1..5 |-> s[i]] /\ WorkerAsk \subseteq Named
  BY DEF WorkerBlocks, WorkerAsk, Named
<1>3. \A i \in 1..5 : a[i] \subseteq WorkerAsk
  BY DEF WorkerAsk
<1>5. \A i, j \in 1..5 : i < j => a[i] \cap a[j] = {}
  OBVIOUS
<1> HIDE DEF s, a
<1>6. Len(s) = 5 /\ \E S : s \in Seq(S)
  BY <1>2, Length
<1>7. \A i \in 1..Len(s) : Asks(s[i], a[i]) /\ a[i] \subseteq WorkerAsk
  BY <1>1, <1>3, <1>6
<1>8. \A i, j \in 1..Len(s) : i < j => a[i] \cap a[j] = {} \/ Fits(s[i], s[j])
  BY <1>5, <1>6
<1>9. Fine(s, WorkerAsk)
  BY <1>2, <1>6, <1>7, <1>8, ListIsFine
<1> QED
  BY <1>9 DEF s

HandlerAsk == {"handler-imports", "thin-handlers", "typed-errors", "entry-points"}

LEMMA HandlerBlocksAreFine == Fine(HandlerBlocks, HandlerAsk)
<1> DEFINE s == HandlerBlocks
           a == <<{"handler-imports", "thin-handlers"}, {}, {"typed-errors"},
                  {"entry-points"}, {"entry-points"}, {"entry-points"}>>
<1>1. /\ Asks(s[1], a[1]) /\ Asks(s[2], a[2]) /\ Asks(s[3], a[3]) /\ Asks(s[4], a[4])
      /\ Asks(s[5], a[5]) /\ Asks(s[6], a[6])
  <2>1. Asks(s[1], a[1])
    BY DEF HandlerBlocks, Named, Asks, Block, Checking, Over
  <2>2. Asks(s[2], a[2])
    BY OnAsks DEF HandlerBlocks, Named
  <2>3. Asks(s[3], a[3]) /\ Asks(s[4], a[4]) /\ Asks(s[5], a[5]) /\ Asks(s[6], a[6])
    BY CheckingAsks DEF HandlerBlocks
  <2> QED
    BY <2>1, <2>2, <2>3
<1>2. s = [i \in 1..6 |-> s[i]] /\ HandlerAsk \subseteq Named
  BY DEF HandlerBlocks, HandlerAsk, Named
<1>3. \A i \in 1..6 : a[i] \subseteq HandlerAsk
  BY DEF HandlerAsk
<1>4. Fits(s[4], s[5]) /\ Fits(s[4], s[6]) /\ Fits(s[5], s[6])
  BY ApartFit DEF HandlerBlocks, Plugins, MqPlugins
<1>5. \A i, j \in 1..6 : i < j => a[i] \cap a[j] = {} \/ <<i, j>> \in {<<4, 5>>, <<4, 6>>, <<5, 6>>}
  OBVIOUS
<1> HIDE DEF s, a
<1>6. Len(s) = 6 /\ \E S : s \in Seq(S)
  BY <1>2, Length
<1>7. \A i \in 1..Len(s) : Asks(s[i], a[i]) /\ a[i] \subseteq HandlerAsk
  BY <1>1, <1>3, <1>6
<1>8. \A i, j \in 1..Len(s) : i < j => a[i] \cap a[j] = {} \/ Fits(s[i], s[j])
  BY <1>4, <1>5, <1>6
<1>9. Fine(s, HandlerAsk)
  BY <1>2, <1>6, <1>7, <1>8, ListIsFine
<1> QED
  BY <1>9 DEF s

TestAsk == {"route-constants", "max-one-param", "always-return"}

LEMMA TestBlocksAreFine == Fine(TestBlocks, TestAsk)
<1> DEFINE s == TestBlocks
           a == <<{}, {}, {"route-constants"}, {"route-constants"}, {"max-one-param",
                  "always-return"}>>
<1>1. /\ Asks(s[1], a[1]) /\ Asks(s[2], a[2]) /\ Asks(s[3], a[3]) /\ Asks(s[4], a[4])
      /\ Asks(s[5], a[5])
  <2>1. Asks(s[1], a[1]) /\ Asks(s[5], a[5])
    BY DEF TestBlocks, Named, Asks, Block, Checking, Over, On, Off
  <2>2. Asks(s[2], a[2])
    BY OnAsks DEF TestBlocks, Named
  <2>3. Asks(s[3], a[3]) /\ Asks(s[4], a[4])
    BY CheckingAsks DEF TestBlocks
  <2> QED
    BY <2>1, <2>2, <2>3
<1>2. s = [i \in 1..5 |-> s[i]] /\ TestAsk \subseteq Named
  BY DEF TestBlocks, TestAsk, Named
<1>3. \A i \in 1..5 : a[i] \subseteq TestAsk
  BY DEF TestAsk
<1>4. Fits(s[3], s[4])
  BY ApartFit DEF TestBlocks
<1>5. \A i, j \in 1..5 : i < j => a[i] \cap a[j] = {} \/ <<i, j>> \in {<<3, 4>>}
  OBVIOUS
<1> HIDE DEF s, a
<1>6. Len(s) = 5 /\ \E S : s \in Seq(S)
  BY <1>2, Length
<1>7. \A i \in 1..Len(s) : Asks(s[i], a[i]) /\ a[i] \subseteq TestAsk
  BY <1>1, <1>3, <1>6
<1>8. \A i, j \in 1..Len(s) : i < j => a[i] \cap a[j] = {} \/ Fits(s[i], s[j])
  BY <1>4, <1>5, <1>6
<1>9. Fine(s, TestAsk)
  BY <1>2, <1>6, <1>7, <1>8, ListIsFine
<1> QED
  BY <1>9 DEF s

ServiceAsk == {"max-one-param", "always-return", "service-helpers", "response-messages",
               "no-db-in-loops", "layer-imports"}

LEMMA ServiceBlocksAreFine == Fine(ServiceBlocks, ServiceAsk)
<1> DEFINE s == ServiceBlocks
           a == <<{"max-one-param", "always-return", "service-helpers"},
                  {"response-messages"}, {"no-db-in-loops"}, {"layer-imports"}>>
<1>1. /\ Asks(s[1], a[1]) /\ Asks(s[2], a[2]) /\ Asks(s[3], a[3]) /\ Asks(s[4], a[4])
  <2>1. Asks(s[1], a[1])
    BY DEF ServiceBlocks, Named, Asks, Block, Checking, Over, On
  <2> QED
    BY <2>1, CheckingAsks DEF ServiceBlocks
<1>2. s = [i \in 1..4 |-> s[i]] /\ ServiceAsk \subseteq Named
  BY DEF ServiceBlocks, ServiceAsk, Named
<1>3. \A i \in 1..4 : a[i] \subseteq ServiceAsk
  BY DEF ServiceAsk
<1>5. \A i, j \in 1..4 : i < j => a[i] \cap a[j] = {}
  OBVIOUS
<1> HIDE DEF s, a
<1>6. Len(s) = 4 /\ \E S : s \in Seq(S)
  BY <1>2, Length
<1>7. \A i \in 1..Len(s) : Asks(s[i], a[i]) /\ a[i] \subseteq ServiceAsk
  BY <1>1, <1>3, <1>6
<1>8. \A i, j \in 1..Len(s) : i < j => a[i] \cap a[j] = {} \/ Fits(s[i], s[j])
  BY <1>5, <1>6
<1>9. Fine(s, ServiceAsk)
  BY <1>2, <1>6, <1>7, <1>8, ListIsFine
<1> QED
  BY <1>9 DEF s

CodeAsk == {"types-placement", "no-http-in-services"}

LEMMA CodeBlocksAreFine == Fine(CodeBlocks, CodeAsk)
<1> DEFINE s == CodeBlocks
           a == <<{}, {"types-placement"}, {}, {}, {}, {"no-http-in-services"}, {}, {}>>
<1>1. /\ Asks(s[1], a[1]) /\ Asks(s[2], a[2]) /\ Asks(s[3], a[3]) /\ Asks(s[4], a[4])
      /\ Asks(s[5], a[5]) /\ Asks(s[6], a[6]) /\ Asks(s[7], a[7]) /\ Asks(s[8], a[8])
  BY OnAsks, CheckingAsks DEF CodeBlocks, Named
<1>2. s = [i \in 1..8 |-> s[i]] /\ CodeAsk \subseteq Named
  BY DEF CodeBlocks, CodeAsk, Named
<1>3. \A i \in 1..8 : a[i] \subseteq CodeAsk
  BY DEF CodeAsk
<1>5. \A i, j \in 1..8 : i < j => a[i] \cap a[j] = {}
  OBVIOUS
<1> HIDE DEF s, a
<1>6. Len(s) = 8 /\ \E S : s \in Seq(S)
  BY <1>2, Length
<1>7. \A i \in 1..Len(s) : Asks(s[i], a[i]) /\ a[i] \subseteq CodeAsk
  BY <1>1, <1>3, <1>6
<1>8. \A i, j \in 1..Len(s) : i < j => a[i] \cap a[j] = {} \/ Fits(s[i], s[j])
  BY <1>5, <1>6
<1>9. Fine(s, CodeAsk)
  BY <1>2, <1>6, <1>7, <1>8, ListIsFine
<1> QED
  BY <1>9 DEF s

StyleAsk == {"parse-external-data"}

LEMMA StyleBlocksAreFine == Fine(StyleBlocks, StyleAsk)
<1> DEFINE s == StyleBlocks
           a == <<{}, {}, {}, {}, {"parse-external-data"}, {}, {}, {}, {}>>
<1>1. /\ Asks(s[1], a[1]) /\ Asks(s[2], a[2]) /\ Asks(s[3], a[3]) /\ Asks(s[4], a[4])
      /\ Asks(s[5], a[5]) /\ Asks(s[6], a[6]) /\ Asks(s[7], a[7]) /\ Asks(s[8], a[8])
      /\ Asks(s[9], a[9])
  BY OnAsks, OffAsks, CheckingAsks DEF StyleBlocks, Named
<1>2. s = [i \in 1..9 |-> s[i]] /\ StyleAsk \subseteq Named
  BY DEF StyleBlocks, StyleAsk, Named
<1>3. \A i \in 1..9 : a[i] \subseteq StyleAsk
  BY DEF StyleAsk
<1>5. \A i, j \in 1..9 : i < j => a[i] \cap a[j] = {}
  OBVIOUS
<1> HIDE DEF s, a
<1>6. Len(s) = 9 /\ \E S : s \in Seq(S)
  BY <1>2, Length
<1>7. \A i \in 1..Len(s) : Asks(s[i], a[i]) /\ a[i] \subseteq StyleAsk
  BY <1>1, <1>3, <1>6
<1>8. \A i, j \in 1..Len(s) : i < j => a[i] \cap a[j] = {} \/ Fits(s[i], s[j])
  BY <1>5, <1>6
<1>9. Fine(s, StyleAsk)
  BY <1>2, <1>6, <1>7, <1>8, ListIsFine
<1> QED
  BY <1>9 DEF s

RepositoryAsk == {"route-registrar", "repository-layout"}

LEMMA RepositoryBlocksAreFine == Fine(RepositoryBlocks, RepositoryAsk)
<1> DEFINE s == RepositoryBlocks
           a == <<{}, {}, {}, {}, {"route-registrar"}, {"route-registrar"}, {},
                  {"repository-layout"}>>
<1>1. /\ Asks(s[1], a[1]) /\ Asks(s[2], a[2]) /\ Asks(s[3], a[3]) /\ Asks(s[4], a[4])
      /\ Asks(s[5], a[5]) /\ Asks(s[6], a[6]) /\ Asks(s[7], a[7]) /\ Asks(s[8], a[8])
  BY OnAsks, CheckingAsks DEF RepositoryBlocks, Named
<1>2. s = [i \in 1..8 |-> s[i]] /\ RepositoryAsk \subseteq Named
  BY DEF RepositoryBlocks, RepositoryAsk, Named
<1>3. \A i \in 1..8 : a[i] \subseteq RepositoryAsk
  BY DEF RepositoryAsk
<1>4. Fits(s[5], s[6])
  BY ApartFit DEF RepositoryBlocks
<1>5. \A i, j \in 1..8 : i < j => a[i] \cap a[j] = {} \/ <<i, j>> \in {<<5, 6>>}
  OBVIOUS
<1> HIDE DEF s, a
<1>6. Len(s) = 8 /\ \E S : s \in Seq(S)
  BY <1>2, Length
<1>7. \A i \in 1..Len(s) : Asks(s[i], a[i]) /\ a[i] \subseteq RepositoryAsk
  BY <1>1, <1>3, <1>6
<1>8. \A i, j \in 1..Len(s) : i < j => a[i] \cap a[j] = {} \/ Fits(s[i], s[j])
  BY <1>4, <1>5, <1>6
<1>9. Fine(s, RepositoryAsk)
  BY <1>2, <1>6, <1>7, <1>8, ListIsFine
<1> QED
  BY <1>9 DEF s

DomainAsk == {"domain-repository-types", "domain-repository-imports",
              "no-prisma-in-modules", "public-api", "plugin-imports"}

LEMMA DomainBlocksAreFine == Fine(DomainBlocks, DomainAsk)
<1> DEFINE s == DomainBlocks
           a == <<{"domain-repository-types"}, {"domain-repository-types"},
                  {"domain-repository-imports"}, {"no-prisma-in-modules"},
                  {"no-prisma-in-modules"}, {"public-api"}, {"plugin-imports"}>>
<1>1. /\ Asks(s[1], a[1]) /\ Asks(s[2], a[2]) /\ Asks(s[3], a[3]) /\ Asks(s[4], a[4])
      /\ Asks(s[5], a[5]) /\ Asks(s[6], a[6]) /\ Asks(s[7], a[7])
  <2>1. Asks(s[6], a[6])
    BY DEF DomainBlocks, Named, Asks, Block, Checking, Over, Off
  <2> QED
    BY <2>1, CheckingAsks DEF DomainBlocks
<1>2. s = [i \in 1..7 |-> s[i]] /\ DomainAsk \subseteq Named
  BY DEF DomainBlocks, DomainAsk, Named
<1>3. \A i \in 1..7 : a[i] \subseteq DomainAsk
  BY DEF DomainAsk
<1>4. Fits(s[1], s[2]) /\ Fits(s[4], s[5])
  <2>1. Fits(s[1], s[2])
    BY ApartFit DEF DomainBlocks
  <2>2. Fits(s[4], s[5])
    BY CheckingMoreFits DEF DomainBlocks
  <2> QED
    BY <2>1, <2>2
<1>5. \A i, j \in 1..7 : i < j => a[i] \cap a[j] = {} \/ <<i, j>> \in {<<1, 2>>, <<4, 5>>}
  OBVIOUS
<1> HIDE DEF s, a
<1>6. Len(s) = 7 /\ \E S : s \in Seq(S)
  BY <1>2, Length
<1>7. \A i \in 1..Len(s) : Asks(s[i], a[i]) /\ a[i] \subseteq DomainAsk
  BY <1>1, <1>3, <1>6
<1>8. \A i, j \in 1..Len(s) : i < j => a[i] \cap a[j] = {} \/ Fits(s[i], s[j])
  BY <1>4, <1>5, <1>6
<1>9. Fine(s, DomainAsk)
  BY <1>2, <1>6, <1>7, <1>8, ListIsFine
<1> QED
  BY <1>9 DEF s

LEMMA TestAndServiceBlocksAreFine ==
  Fine(TestBlocks \o ServiceBlocks, TestAsk \cup ServiceAsk)
<1>1. Len(TestBlocks) = 5 /\ Len(ServiceBlocks) = 4
  <2>1. TestBlocks = [i \in 1..5 |-> TestBlocks[i]]
    BY DEF TestBlocks
  <2>2. ServiceBlocks = [i \in 1..4 |-> ServiceBlocks[i]]
    BY DEF ServiceBlocks
  <2> QED
    BY <2>1, <2>2, Length
<1>2. Fits(TestBlocks[5], ServiceBlocks[1])
  BY ApartFit DEF TestBlocks, ServiceBlocks, Lib, Services, Validation
<1>3. \A i \in 1..4 : Asks(TestBlocks[i], {"route-constants"})
  <2>1. Asks(TestBlocks[1], {"route-constants"})
    BY DEF TestBlocks, Named, Asks, Block, Over, On, Off
  <2>2. Asks(TestBlocks[2], {"route-constants"})
    BY OnAsks DEF TestBlocks, Named
  <2>3. Asks(TestBlocks[3], {"route-constants"}) /\ Asks(TestBlocks[4], {"route-constants"})
    BY CheckingAsks DEF TestBlocks
  <2> QED
    BY <2>1, <2>2, <2>3
<1> DEFINE others == {"response-messages", "no-db-in-loops", "layer-imports"}
<1>4. \A j \in 2..4 : Asks(ServiceBlocks[j], others)
  <2>1. /\ Asks(ServiceBlocks[2], others) /\ Asks(ServiceBlocks[3], others)
        /\ Asks(ServiceBlocks[4], others)
    BY DEF ServiceBlocks, Asks, Block, Checking
  <2> QED
    BY <2>1
<1>5. Asks(TestBlocks[5], TestAsk) /\ \A j \in 1..4 : Asks(ServiceBlocks[j], ServiceAsk)
  BY <1>1, TestBlocksAreFine, ServiceBlocksAreFine DEF Fine
<1>6. Asks(TestBlocks[5], {"max-one-param", "always-return"})
  BY DEF TestBlocks, Asks, Block, Over, Checking
<1>7. \A i \in 1..5, j \in 1..4 : Fits(TestBlocks[i], ServiceBlocks[j])
  <2>1. ASSUME NEW i \in 1..4, NEW j \in 1..4
        PROVE  Fits(TestBlocks[i], ServiceBlocks[j])
    BY <1>3, <1>5, OthersFit DEF ServiceAsk, Named
  <2>2. ASSUME NEW j \in 2..4
        PROVE  Fits(TestBlocks[5], ServiceBlocks[j])
    BY <1>4, <1>6, OthersFit DEF Named
  <2> QED
    BY <1>2, <2>1, <2>2
<1> QED
  BY <1>1, <1>7, BothAreFine, TestBlocksAreFine, ServiceBlocksAreFine

LEMMA FourAreFine ==
  ASSUME NEW s, NEW t, NEW u, NEW v, NEW N, NEW M, NEW O, NEW P,
         Fine(s, N), Fine(t, M), Fine(u, O), Fine(v, P),
         N \subseteq Named, M \subseteq Named, O \subseteq Named, P \subseteq Named,
         N \cap M = {}, (N \cup M) \cap O = {}, (N \cup M \cup O) \cap P = {}
  PROVE  Fine(s \o t \o u \o v, N \cup M \cup O \cup P)
<1>1. Fine(s \o t, N \cup M)
  BY NextAreFine
<1>2. Fine(s \o t \o u, N \cup M \cup O)
  BY <1>1, NextAreFine
<1> QED
  BY <1>2, NextAreFine

LEMMA Regrouped ==
  ASSUME NEW s, NEW t, NEW u, \E S : s \in Seq(S), \E S : t \in Seq(S), \E S : u \in Seq(S)
  PROVE  s \o (t \o u) = s \o t \o u
<1>1. PICK R, S, T : s \in Seq(R) /\ t \in Seq(S) /\ u \in Seq(T)
  OBVIOUS
<1>2. PICK U : U = R \cup S \cup T
  OBVIOUS
<1>3. s \in Seq(U) /\ t \in Seq(U) /\ u \in Seq(U)
  BY <1>1, <1>2
<1> QED
  BY <1>3, ConcatAssociative

\* No block asks for less than an earlier one of the rules they both set, for
\* files they both match.
LEMMA BlocksAreFine == \E N : Fine(Blocks, N)
<1> DEFINE Both == TestAsk \cup ServiceAsk
           A1 == BaseAsk \cup SourceAsk \cup PrismaAsk \cup PlacementAsk
           A2 == A1 \cup FactoryAsk \cup RouteAsk \cup WorkerAsk
           A3 == A2 \cup HandlerAsk \cup Both \cup CodeAsk
           b1 == BaseBlocks \o SourceBlocks \o PrismaBlocks \o PlacementBlocks
           b2 == b1 \o FactoryBlocks \o RouteBlocks \o WorkerBlocks
           b3 == b2 \o HandlerBlocks \o (TestBlocks \o ServiceBlocks) \o CodeBlocks
           b4 == b3 \o StyleBlocks \o RepositoryBlocks \o DomainBlocks
<1>1. Fine(b1, A1)
  <2>1. /\ BaseAsk \subseteq Named /\ SourceAsk \subseteq Named /\ PrismaAsk \subseteq Named
        /\ PlacementAsk \subseteq Named
        /\ BaseAsk \cap SourceAsk = {} /\ (BaseAsk \cup SourceAsk) \cap PrismaAsk = {}
        /\ (BaseAsk \cup SourceAsk \cup PrismaAsk) \cap PlacementAsk = {}
    BY DEF Named, BaseAsk, SourceAsk, PrismaAsk, PlacementAsk
  <2> QED
    BY <2>1, FourAreFine, BaseBlocksAreFine, SourceBlocksAreFine, PrismaBlocksAreFine,
       PlacementBlocksAreFine
<1>2. Fine(b2, A2)
  <2>1. /\ A1 \subseteq Named /\ FactoryAsk \subseteq Named /\ RouteAsk \subseteq Named
        /\ WorkerAsk \subseteq Named
        /\ A1 \cap FactoryAsk = {} /\ (A1 \cup FactoryAsk) \cap RouteAsk = {}
        /\ (A1 \cup FactoryAsk \cup RouteAsk) \cap WorkerAsk = {}
    BY DEF Named, BaseAsk, SourceAsk, PrismaAsk, PlacementAsk, FactoryAsk, RouteAsk, WorkerAsk
  <2> HIDE DEF A1, b1
  <2> QED
    BY <1>1, <2>1, FourAreFine, FactoryBlocksAreFine, RouteBlocksAreFine, WorkerBlocksAreFine
<1>3. Fine(b3, A3)
  <2>1. /\ A2 \subseteq Named /\ HandlerAsk \subseteq Named /\ Both \subseteq Named
        /\ CodeAsk \subseteq Named
        /\ A2 \cap HandlerAsk = {} /\ (A2 \cup HandlerAsk) \cap Both = {}
        /\ (A2 \cup HandlerAsk \cup Both) \cap CodeAsk = {}
    BY DEF Named, BaseAsk, SourceAsk, PrismaAsk, PlacementAsk, FactoryAsk, RouteAsk,
           WorkerAsk, HandlerAsk, TestAsk, ServiceAsk, CodeAsk
  <2>2. Fine(TestBlocks \o ServiceBlocks, Both)
    BY TestAndServiceBlocksAreFine
  <2> HIDE DEF A2, b2, Both
  <2> QED
    BY <1>2, <2>1, <2>2, FourAreFine, HandlerBlocksAreFine, CodeBlocksAreFine
<1>4. Fine(b4, A3 \cup StyleAsk \cup RepositoryAsk \cup DomainAsk)
  <2>1. /\ A3 \subseteq Named /\ StyleAsk \subseteq Named /\ RepositoryAsk \subseteq Named
        /\ DomainAsk \subseteq Named
        /\ A3 \cap StyleAsk = {} /\ (A3 \cup StyleAsk) \cap RepositoryAsk = {}
        /\ (A3 \cup StyleAsk \cup RepositoryAsk) \cap DomainAsk = {}
    BY DEF Named, BaseAsk, SourceAsk, PrismaAsk, PlacementAsk, FactoryAsk, RouteAsk,
           WorkerAsk, HandlerAsk, TestAsk, ServiceAsk, CodeAsk, StyleAsk, RepositoryAsk,
           DomainAsk
  <2> HIDE DEF A3, b3
  <2> QED
    BY <1>3, <2>1, FourAreFine, StyleBlocksAreFine, RepositoryBlocksAreFine,
       DomainBlocksAreFine
<1>5. b4 = Blocks
  <2>1. /\ \E S : b2 \o HandlerBlocks \in Seq(S)
        /\ \E S : TestBlocks \in Seq(S) /\ \E T : ServiceBlocks \in Seq(T)
    <3> HIDE DEF b2
    <3>1. \E N : Fine(b2 \o HandlerBlocks, N)
      <4>1. A2 \subseteq Named /\ HandlerAsk \subseteq Named /\ A2 \cap HandlerAsk = {}
        BY DEF Named, BaseAsk, SourceAsk, PrismaAsk, PlacementAsk, FactoryAsk, RouteAsk,
               WorkerAsk, HandlerAsk
      <4> HIDE DEF A2
      <4> QED
        BY <1>2, <4>1, NextAreFine, HandlerBlocksAreFine
    <3> QED
      BY <3>1, TestBlocksAreFine, ServiceBlocksAreFine DEF Fine
  <2>2. b2 \o HandlerBlocks \o (TestBlocks \o ServiceBlocks)
          = b2 \o HandlerBlocks \o TestBlocks \o ServiceBlocks
    <3> HIDE DEF b2
    <3> QED
      BY <2>1, Regrouped
  <2> QED
    BY <2>2 DEF Blocks
<1> QED
  BY <1>4, <1>5

-----------------------------------------------------------------------------
(* The cascade *)

\* What the history has of a rule comes from blocks that were taken.
CascadeInv ==
  /\ CascadeTypeOK
  /\ NoCheckIsReplaced
  /\ \A r \in DOMAIN asked : \A check \in asked[r] :
       \E i \in 1..taken : /\ file \in Blocks[i].files
                           /\ r \in DOMAIN Blocks[i].options
                           /\ check \in Blocks[i].options[r]

LEMMA CascadeInitial == CascadeInit => CascadeInv
<1> SUFFICES ASSUME CascadeInit PROVE CascadeInv
  OBVIOUS
<1>1. /\ file \in Kinds /\ taken = 0 /\ config = asked /\ DOMAIN asked = {}
  BY DEF CascadeInit, NoOptions
<1>2. Len(Blocks) \in Nat
  BY BlocksAreFine, LenProperties DEF Fine
<1> QED
  BY <1>1, <1>2 DEF CascadeInv, CascadeTypeOK, NoCheckIsReplaced

LEMMA CascadeStep == CascadeInv /\ [CascadeNext]_cascadeVars => CascadeInv'
<1> SUFFICES ASSUME CascadeInv, [CascadeNext]_cascadeVars PROVE CascadeInv'
  OBVIOUS
<1> USE DEF CascadeInv
<1>1. CASE UNCHANGED cascadeVars
  BY <1>1 DEF cascadeVars, CascadeTypeOK, NoCheckIsReplaced
<1>2. CASE CascadeNext
  <2>1. PICK b : b = Blocks[taken + 1]
    OBVIOUS
  <2>2. PICK all : all = [r \in DOMAIN b.options |->
                            IF r \in DOMAIN asked THEN asked[r] ELSE {}]
    OBVIOUS
  <2>3. /\ taken < Len(Blocks) /\ taken' = taken + 1 /\ file' = file
        /\ config' = Override(config, b, file)
        /\ asked' = IF file \in b.files
                    THEN Over([r \in DOMAIN b.options |->
                                 IF b.options[r] = {} THEN {}
                                 ELSE b.options[r] \cup all[r]], asked)
                    ELSE asked
    BY <1>2, <2>1, <2>2 DEF CascadeNext, TakeBlock
  <2>4. /\ taken' \in 0..Len(Blocks) /\ file' \in Kinds
        /\ taken \in Nat /\ Len(Blocks) \in Nat
    BY <2>3, BlocksAreFine, LenProperties DEF CascadeTypeOK, Fine
  <2>5. CASE file \in b.files
    <3> DEFINE more == [r \in DOMAIN b.options |->
                          IF b.options[r] = {} THEN {} ELSE b.options[r] \cup all[r]]
    <3>1. config' = Over(b.options, config) /\ asked' = Over(more, asked)
      BY <2>3, <2>5 DEF Override
    <3>2. /\ DOMAIN config' = DOMAIN b.options \cup DOMAIN config
          /\ DOMAIN asked' = DOMAIN b.options \cup DOMAIN asked
          /\ \A r \in DOMAIN config' :
               /\ r \in DOMAIN b.options =>
                    config'[r] = b.options[r] /\ asked'[r] = more[r]
               /\ r \notin DOMAIN b.options =>
                    config'[r] = config[r] /\ asked'[r] = asked[r]
      BY <3>1 DEF Over, CascadeTypeOK
    <3>3. \A r \in DOMAIN b.options :
            /\ b.options[r] \subseteq more[r]
            /\ \A check \in more[r] : \/ check \in b.options[r]
                                      \/ r \in DOMAIN asked /\ check \in asked[r]
            /\ b.options[r] = {} => more[r] = {}
      BY <2>2
    <3> HIDE DEF more
    <3>4. CascadeTypeOK'
      BY <2>4, <3>2, <3>3 DEF CascadeTypeOK
    <3>5. ASSUME NEW r \in DOMAIN asked'
          PROVE  config'[r] = asked'[r] \/ config'[r] = {"misplaced"}
      <4>1. CASE r \notin DOMAIN b.options
        BY <3>2, <3>5, <4>1 DEF CascadeTypeOK, NoCheckIsReplaced
      <4>2. CASE r \in DOMAIN b.options /\ b.options[r] \notin {{}, {"misplaced"}}
        <5>1. ASSUME NEW check, r \in DOMAIN asked, check \in asked[r]
              PROVE  check \in b.options[r]
          <6>1. PICK i \in 1..taken : /\ file \in Blocks[i].files
                                      /\ r \in DOMAIN Blocks[i].options
                                      /\ check \in Blocks[i].options[r]
            BY <5>1
          <6>2. i \in 1..Len(Blocks) /\ taken + 1 \in 1..Len(Blocks) /\ i < taken + 1
            BY <2>3, <2>4
          <6>3. Fits(Blocks[i], b)
            BY <2>1, <6>2, BlocksAreFine DEF Fine
          <6> QED
            BY <2>5, <4>2, <6>1, <6>3 DEF Fits
        <5>2. more[r] = b.options[r]
          BY <3>3, <4>2, <5>1
        <5> QED
          BY <3>2, <4>2, <5>2
      <4>3. CASE r \in DOMAIN b.options /\ b.options[r] \in {{}, {"misplaced"}}
        BY <3>2, <3>3, <4>3
      <4> QED
        BY <4>1, <4>2, <4>3
    <3>6. ASSUME NEW r \in DOMAIN asked', NEW check \in asked'[r]
          PROVE  \E i \in 1..taken' : /\ file' \in Blocks[i].files
                                      /\ r \in DOMAIN Blocks[i].options
                                      /\ check \in Blocks[i].options[r]
      <4>1. CASE r \in DOMAIN b.options /\ check \in b.options[r]
        BY <2>1, <2>3, <2>4, <2>5, <4>1
      <4>2. CASE r \in DOMAIN asked /\ check \in asked[r]
        <5>1. PICK i \in 1..taken : /\ file \in Blocks[i].files
                                    /\ r \in DOMAIN Blocks[i].options
                                    /\ check \in Blocks[i].options[r]
          BY <4>2
        <5>2. i \in 1..taken' /\ file' = file
          BY <2>3, <2>4
        <5> QED
          BY <5>1, <5>2
      <4> QED
        BY <3>2, <3>3, <3>6, <4>1, <4>2 DEF CascadeTypeOK
    <3> QED
      BY <3>4, <3>5, <3>6 DEF NoCheckIsReplaced
  <2>6. CASE file \notin b.files
    <3>1. config' = config /\ asked' = asked
      BY <2>3, <2>6 DEF Override
    <3>2. CascadeTypeOK' /\ NoCheckIsReplaced'
      BY <2>4, <3>1 DEF CascadeTypeOK, NoCheckIsReplaced
    <3>3. \A i \in 1..taken : i \in 1..taken'
      BY <2>3, <2>4
    <3> QED
      BY <2>3, <3>1, <3>2, <3>3
  <2> QED
    BY <2>5, <2>6
<1> QED
  BY <1>1, <1>2

\* eslint.config.mjs:34-36: no check that a block asks for is lost to a later block
\* that sets the same rule, unless the file is reported whatever it holds.
THEOREM ChecksAreKept == CascadeSpec => []NoCheckIsReplaced
<1>1. CascadeInv => NoCheckIsReplaced
  BY DEF CascadeInv
<1> QED
  BY <1>1, CascadeInitial, CascadeStep, PTL DEF CascadeSpec

-----------------------------------------------------------------------------
(* All the tools, one of which moves *)

ToolsInv == ReadsInv /\ CascadeInv /\ ProdInv

\* Each tool is type correct while one of them is at work.
THEOREM ConventionsTypeCorrect == ConventionsSpec => []ConventionsTypeOK
<1>1. ConventionsInit => ToolsInv
  BY ReadsInitial, CascadeInitial, ProdInitial DEF ConventionsInit, ToolsInv
<1>2. ToolsInv /\ [ConventionsNext]_allVars => ToolsInv'
  <2> SUFFICES ASSUME ToolsInv, [ConventionsNext]_allVars PROVE ToolsInv'
    OBVIOUS
  <2>1. /\ [ReadsNext]_readsVars /\ [CascadeNext]_cascadeVars
        /\ [MigrationsNext]_migrationVars
    BY DEF ConventionsNext, allVars
  <2> QED
    BY <2>1, ReadsStep, CascadeStep, ProdStep DEF ToolsInv
<1>3. ToolsInv => ConventionsTypeOK
  BY ReadsTypes DEF ToolsInv, CascadeInv, ProdInv, MigrationsInv, MigrationsTypeOK,
         ConventionsTypeOK
<1> QED
  BY <1>1, <1>2, <1>3, PTL DEF ConventionsSpec

=============================================================================
