---------------------------- MODULE LayerImports ----------------------------
(***************************************************************************)
(* Where the imports that pass the lint lead: a walk from file to file,    *)
(* each step an import or re-export that no rule reports.  The rules look  *)
(* at one import at a time, the layers are about all of a walk.  A path is *)
(* taken as "@/..." across directories, as no-parent-imports demands.      *)
(***************************************************************************)
EXTENDS RuleBlocks

CONSTANTS ModuleNames, \* the directories in src/modules
          Shared       \* stands for the owner of a file that is in none

ASSUME LayersAssumption == Shared \notin ModuleNames

Prisma == "@prisma/client"

Sdk == "package"

Packages == {Prisma, Sdk}

\* The configuration of each kind, and the checks of a rule in it.
Configs ==
  [k \in Kinds |-> FoldLeft(LAMBDA conf, b : Override(conf, b, k), NoOptions, Blocks)]

Checks(kind, rule) ==
  IF rule \in DOMAIN Configs[kind] THEN Configs[kind][rule] ELSE {}

\* A file that may be committed is not reported for its name alone.
Placed ==
  {k \in Source : "misplaced" \notin Checks(k, "file-layout")
                                       \cup Checks(k, "no-restricted-syntax")}

Files ==
  {[kind |-> k, owner |-> o] : k \in Placed \cap Modules, o \in ModuleNames}
    \cup {[kind |-> k, owner |-> Shared] : k \in (Placed \ Modules) \cup Packages}

\* What the layers need of eslint.config.mjs.  The blocks have no parameter, so
\* that TLC decides it.
ASSUME LayersAreLinted ==
  /\ "database" \notin Placed
  /\ \A k \in Modules \cup Lib :
       /\ "on" \in Checks(k, "layer-direction")
       /\ k # "public" => "export from" \in Checks(k, "no-barrel-files")
       /\ k # "repository" => "values" \in Checks(k, "prisma-imports")
  /\ "type exports only" \in Checks("public", "public-api")
  /\ \A k \in Modules \ {"repository"} :
       "repository values" \in Checks(k, "domain-repository-imports")

VARIABLES origin, \* the file a walk starts from
          here,     \* where it has come to
          values, \* whether it can be followed when the program runs
          door    \* the public.ts on either side of the last change of owner

layerVars == <<origin, here, values, door>>

-----------------------------------------------------------------------------
(* What is reported of an import.  `how' it is made: "type" or "value", or  *)
(* "export type", "export value" for the re-exports.                        *)

Ways == {"type", "value", "export type", "export value"}

IsValue(how) == how \in {"value", "export value"}

IsExport(how) == how \in {"export type", "export value"}

InModule(f) == f.owner # Shared

\* Mutant of LayerDirection: nothing is below the modules.
LayerDirectionOfModules(from, to, how) ==
  /\ ~IsExport(how)
  /\ InModule(to) /\ InModule(from)
  /\ to.owner # from.owner
  /\ to.kind # "public" \/ IsValue(how)

\* Only declarations of imports are looked at, and only of files in lib/,
\* database/ and modules/.
LayerDirection(from, to, how) ==
  /\ ~IsExport(how)
  /\ InModule(to)
  /\ \/ from.kind \in Lib \cup {"database"}
     \/ /\ InModule(from) /\ to.owner # from.owner
        /\ to.kind # "public" \/ IsValue(how)

Reexports(from, to, how) ==
  \/ "export from" \in Checks(from.kind, "no-barrel-files") /\ IsExport(how)
  \/ /\ "type exports only" \in Checks(from.kind, "public-api")
     /\ how # "export type"
  \/ "repositories" \in Checks(from.kind, "public-api") /\ to.kind = "repository"

PrismaImports(from, to, how) ==
  /\ to.kind = Prisma
  /\ \/ "values" \in Checks(from.kind, "prisma-imports") /\ IsValue(how)
     \/ "prisma" \in Checks(from.kind, "worker-imports")
     \/ /\ ~IsExport(how)
        /\ "prisma imports" \in Checks(from.kind, "domain-repository-types")
             \cup Checks(from.kind, "no-prisma-in-modules")

\* Mutant of RepositoryImports: only handlers and workers are looked at.
RepositoryImportsOfHandlers(from, to, how) ==
  /\ to.kind = "repository"
  /\ "repositories" \in Checks(from.kind, "handler-imports")
                          \cup Checks(from.kind, "worker-imports")

RepositoryImports(from, to, how) ==
  /\ to.kind = "repository"
  /\ \/ "repositories" \in Checks(from.kind, "handler-imports")
             \cup Checks(from.kind, "worker-imports")
     \/ /\ "repository values" \in Checks(from.kind, "domain-repository-imports")
        /\ IsValue(how)

PluginImports(from, to) ==
  /\ "module internals" \in Checks(from.kind, "plugin-imports")
  /\ InModule(to)
  /\ to.kind \notin MqBodies \cup {"public"}

OtherImports(from, to, how) ==
  \/ /\ to.kind = Sdk
     /\ \/ "values" \in Checks(from.kind, "sdk-imports") /\ IsValue(how)
        \/ "sdks" \in Checks(from.kind, "worker-imports")
  \/ /\ "schema values" \in Checks(from.kind, "handler-imports")
     /\ to.kind \in {"schema", "libSchema"} /\ IsValue(how)
  \/ "values" \in Checks(from.kind, "type-files") /\ IsValue(how)

Reported(from, to, how) ==
  \/ "on" \in Checks(from.kind, "layer-direction") /\ LayerDirection(from, to, how)
  \/ Reexports(from, to, how)
  \/ PrismaImports(from, to, how)
  \/ RepositoryImports(from, to, how)
  \/ PluginImports(from, to)
  \/ OtherImports(from, to, how)

-----------------------------------------------------------------------------
(* The walk *)

\* Plugins, entry points and the declarations of types may name everything:
\* they put the parts together.  A walk ends there, and at a package.
Wires(f) == f.kind \in Plugins \cup Declarations \cup {"server", "entry", "envType"}

LayersInit ==
  /\ origin \in {f \in Files : ~Wires(f) /\ f.kind \notin Packages}
  /\ here = origin
  /\ values = TRUE
  /\ door = {}

Follow(to, how) ==
  /\ ~Wires(here) /\ here.kind \notin Packages
  /\ to # here
  /\ ~Reported(here, to, how)
  /\ here' = to
  /\ values' = (values /\ IsValue(how))
  /\ door' = IF to.owner = here.owner THEN door
             ELSE (IF here.kind = "public" THEN {"from"} ELSE {})
                    \cup (IF to.kind = "public" THEN {"to"} ELSE {})
  /\ UNCHANGED origin

LayersNext == \E to \in Files, how \in Ways : Follow(to, how)

LayersSpec == LayersInit /\ [][LayersNext]_layerVars

-----------------------------------------------------------------------------

\* No handler, service, worker or helper gets at the Prisma client, or at the
\* code of a repository, by any chain of imports of values.
PrismaIsBehindRepositories ==
  values /\ origin.kind # "repository" =>
    here.kind \notin {Prisma, "repository"}

\* Whatever way a walk comes into a module, it is for types only and through the
\* public.ts of one of the two modules; and it never comes from lib/.
ModulesMeetAtPublicTypes ==
  InModule(here) /\ here.owner # origin.owner =>
    /\ ~values
    /\ InModule(origin)
    /\ door # {}

=============================================================================
