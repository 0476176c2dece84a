----------------------------- MODULE Generators -----------------------------
(***************************************************************************)
(* generate:module, generate:repository and check:generators: commands     *)
(* that create files and extend shared ones, one write after the other.    *)
(* Each may be killed between two writes, and may be run again.  A         *)
(* repository goes into the module of its name or into another (--module). *)
(***************************************************************************)
EXTENDS Naturals, FiniteSetsExt, SequencesExt

CONSTANTS Entities,  \* names of modules and of entities
          EndsIn,    \* the pairs <<n, m>> of which n, as a type name, ends in m
          Probe,     \* the module of check:generators, and its entity
          ProbeItem, \* the second entity it generates into that module
          Idle,      \* no command runs
          MaxRuns    \* how many commands are run (bounds the model)

ASSUME GeneratorsAssumption ==
  /\ IsFiniteSet(Entities)
  /\ Probe \in Entities /\ ProbeItem \in Entities /\ Probe # ProbeItem
  /\ EndsIn \subseteq Entities \X Entities
  /\ MaxRuns \in Nat
  /\ Idle \notin [kind : {"module", "repository"}, name : Entities,
                  module : Entities, next : Nat]

\* The names a developer uses.
Names == Entities \ {Probe, ProbeItem}

\* Mutant of Writes: a repository is wired before it is there.
WritesCradleFirst(kind) ==
  IF kind = "module"
  THEN <<"dir", "type", "route", "handler", "service", "index", "public",
         "readme", "schema", "cradle">>
  ELSE <<"domain type", "cradle", "messages", "repository">>

\* The writes of a command, in order.
Writes(kind) ==
  IF kind = "module"
  THEN <<"dir", "type", "route", "handler", "service", "index", "public",
         "readme", "schema", "cradle">>
  ELSE <<"domain type", "repository", "messages", "cradle">>

Generated == {"module", "repository"}

VARIABLES created,      \* what modules consist of, as pairs <<module, write>>
          repositories, \* the repositories, as pairs <<module, entity>>
          shared,       \* the contents of the shared files
          command,      \* what runs: its kind, names and how far it has come
          probe,        \* what is left of check:generators
          before,       \* what it has read of the shared files
          died,         \* history: whether a command was killed
          runs          \* how many commands were run

generatorVars ==
  <<created, repositories, shared, command, probe, before, died, runs>>

\* `types' is how often a module's type file declares the type of an entity,
\* `entries' how often the Cradle has the properties; `models' says whether the
\* schema has the probe's.
SharedTypeOK ==
  /\ shared.types \in [Entities \X Entities -> Nat]
  /\ shared.groups \subseteq Entities
  /\ shared.imports \subseteq Entities \X Generated
  /\ shared.entries \in [Entities \X Generated -> Nat]
  /\ shared.models \in BOOLEAN

GeneratorsInit ==
  /\ created = {}
  /\ repositories = {}
  /\ shared = [types |-> [r \in Entities \X Entities |-> 0], groups |-> {},
               imports |-> {}, entries |-> [e \in Entities \X Generated |-> 0],
               models |-> FALSE]
  /\ command = Idle
  /\ probe = <<>>
  /\ before = shared
  /\ died = FALSE
  /\ runs = 0

-----------------------------------------------------------------------------
(* The writes *)

\* Whether the Cradle's file mentions the type <n>Service or <n>Repository, if
\* only as the end of a longer name.
Mentioned(n, kind) ==
  \E m \in Entities : (m = n \/ <<m, n>> \in EndsIn) /\ shared.entries[<<m, kind>>] > 0

ExtendCradle(n, kind) ==
  shared' = [shared EXCEPT !.entries[<<n, kind>>] = @ + 1,
               !.imports = IF Mentioned(n, kind) THEN @ ELSE @ \cup {<<n, kind>>}]

ExtendMessages(n) == shared' = [shared EXCEPT !.groups = @ \cup {n}]

AppendType(m, n) == shared' = [shared EXCEPT !.types[<<m, n>>] = @ + 1]

DoWrite(c, write) ==
  CASE write = "cradle" ->
         ExtendCradle(c.name, c.kind) /\ UNCHANGED <<created, repositories>>
    [] write = "messages" ->
         ExtendMessages(c.name) /\ UNCHANGED <<created, repositories>>
    [] write = "domain type" ->
         AppendType(c.module, c.name) /\ UNCHANGED <<created, repositories>>
    [] write = "repository" ->
         /\ repositories' = repositories \cup {<<c.module, c.name>>}
         /\ UNCHANGED <<created, shared>>
    [] OTHER ->
         /\ created' = created \cup {<<c.name, write>>}
         /\ UNCHANGED <<repositories, shared>>

\* A module must not exist; a repository neither, in the module it goes into,
\* which must.  Whether another module has one of the entity nobody asks.
Accepts(kind, n, m) ==
  IF kind = "module" THEN <<n, "dir">> \notin created
  ELSE <<m, "dir">> \in created /\ <<m, n>> \notin repositories

Start(kind, n, m) ==
  /\ command = Idle
  /\ Accepts(kind, n, m)
  /\ command' = [kind |-> kind, name |-> n, module |-> m, next |-> 1]

Generate(kind, n, m) ==
  /\ probe = <<>>
  /\ runs < MaxRuns
  /\ kind = "module" => m = n
  /\ Start(kind, n, m)
  /\ runs' = runs + 1
  /\ UNCHANGED <<created, repositories, shared, probe, before, died>>

Write ==
  /\ command # Idle
  /\ DoWrite(command, Writes(command.kind)[command.next])
  /\ command' = IF command.next = Len(Writes(command.kind)) THEN Idle
                ELSE [command EXCEPT !.next = @ + 1]
  /\ UNCHANGED <<probe, before, died, runs>>

Kill ==
  /\ command # Idle \/ probe # <<>>
  /\ command' = Idle
  /\ probe' = <<>>
  /\ died' = TRUE
  /\ UNCHANGED <<created, repositories, shared, before, runs>>

-----------------------------------------------------------------------------
(* check:generators *)

ProbeSteps ==
  <<"models", "module", "repository", "item", "checks", "remove", "restore">>

CheckGenerators ==
  /\ command = Idle /\ probe = <<>> /\ runs < MaxRuns
  /\ before' = shared
  /\ probe' = ProbeSteps
  /\ runs' = runs + 1
  /\ UNCHANGED <<created, repositories, shared, command, died>>

\* The next step of check:generators, once no generator runs.
ProbeTurn(step) == command = Idle /\ probe # <<>> /\ Head(probe) = step

ProbeWritesModels ==
  /\ ProbeTurn("models")
  /\ shared' = [shared EXCEPT !.models = TRUE]
  /\ probe' = Tail(probe)
  /\ UNCHANGED <<created, repositories, command, before, died, runs>>

ProbeGenerates ==
  /\ \/ ProbeTurn("module") /\ Start("module", Probe, Probe)
     \/ ProbeTurn("repository") /\ Start("repository", Probe, Probe)
     \/ ProbeTurn("item") /\ Start("repository", ProbeItem, Probe)
  /\ probe' = Tail(probe)
  /\ UNCHANGED <<created, repositories, shared, before, died, runs>>

\* A command that fails, at its start or between two writes, is the last before
\* the cleanup, which follows the checks too.
ProbeFails ==
  /\ probe # <<>> /\ Head(probe) \notin {"remove", "restore"}
  /\ command' = Idle
  /\ probe' = <<"remove", "restore">>
  /\ UNCHANGED <<created, repositories, shared, before, died, runs>>

\* What is in the probe's module: its files, its repositories, its type file.
ProbeRemoves ==
  /\ ProbeTurn("remove")
  /\ created' = {f \in created : f[1] # Probe}
  /\ repositories' = {r \in repositories : r[1] # Probe}
  /\ shared' = [shared EXCEPT !.types =
                  [r \in Entities \X Entities |-> IF r[1] = Probe THEN 0 ELSE @[r]]]
  /\ probe' = Tail(probe)
  /\ UNCHANGED <<command, before, died, runs>>

\* Mutant of Restored: the messages are not among the files backed up.
RestoredWithoutMessages ==
  [shared EXCEPT !.imports = before.imports, !.entries = before.entries,
                 !.models = before.models]

Restored ==
  [shared EXCEPT !.imports = before.imports, !.entries = before.entries,
                 !.models = before.models, !.groups = before.groups]

ProbeRestores ==
  /\ ProbeTurn("restore")
  /\ shared' = Restored
  /\ probe' = Tail(probe)
  /\ UNCHANGED <<created, repositories, command, before, died, runs>>

CheckGeneratorsStep ==
  ProbeWritesModels \/ ProbeGenerates \/ ProbeFails \/ ProbeRemoves \/ ProbeRestores

GeneratorsNext ==
  \/ \E kind \in Generated, n, m \in Names : Generate(kind, n, m)
  \/ Write
  \/ Kill
  \/ CheckGenerators
  \/ CheckGeneratorsStep

GeneratorsSpec == GeneratorsInit /\ [][GeneratorsNext]_generatorVars

-----------------------------------------------------------------------------

Quiet == command = Idle /\ probe = <<>>

\* What a command has yet to create is not there: it never writes over a file.
IsThere(c, write) ==
  IF write = "repository" THEN <<c.module, c.name>> \in repositories
                          ELSE <<c.name, write>> \in created

GeneratorsTypeOK ==
  /\ SharedTypeOK
  /\ probe \in {SubSeq(ProbeSteps, i, Len(ProbeSteps)) : i \in 1..8}
  /\ died \in BOOLEAN
  /\ runs \in 0..MaxRuns
  /\ command # Idle =>
       /\ command.next \in DOMAIN Writes(command.kind)
       /\ \A i \in command.next..Len(Writes(command.kind)) :
            ~IsThere(command, Writes(command.kind)[i])

\* The modules that have a repository of n.
Holders(n) == {m \in Entities : <<m, n>> \in repositories}

\* Commands that were not killed leave all of a module or repository or nothing:
\* its files and, in the shared ones, an entry for each; of the probe, nothing.
NothingIsHalfGenerated ==
  Quiet /\ ~died =>
    /\ ~shared.models
    /\ \A n \in Entities :
         /\ <<n, "schema">> \in created <=> <<n, "dir">> \in created
         /\ shared.entries[<<n, "module">>] = IF <<n, "dir">> \in created THEN 1 ELSE 0
         /\ shared.entries[<<n, "repository">>] = Cardinality(Holders(n))
         /\ n \in shared.groups <=> Holders(n) # {}
    /\ \A m, n \in Entities :
         shared.types[<<m, n>>] = IF <<m, n>> \in repositories THEN 1 ELSE 0
    /\ \A n \in Entities \ Names : <<n, "dir">> \notin created /\ Holders(n) = {}

\* At any time, after any kill and whatever was run again, the shared files speak
\* of nothing that is not there, and a repository has its type and its module.
WhatIsWiredIsThere ==
  \A n \in Names :
    /\ shared.entries[<<n, "module">>] > 0 => <<n, "schema">> \in created
    /\ shared.entries[<<n, "repository">>] <= Cardinality(Holders(n))
    /\ n \in shared.groups => Holders(n) # {}
    /\ \A m \in Holders(n) : <<m, "dir">> \in created /\ shared.types[<<m, n>>] > 0

\* check-generators.mjs:2-3: "what generate:module and generate:repository
\* produce must pass lint, tsc".  An entry of the Cradle needs the import of its
\* type to pass tsc.
EveryEntryIsImported ==
  Quiet /\ ~died =>
    \A e \in Entities \X Generated : shared.entries[e] > 0 => e \in shared.imports

=============================================================================
