--------------------------- MODULE MCConventions ----------------------------
(***************************************************************************)
(* The tools that keep the conventions of the repository.  They share no   *)
(* state, so a behaviour is one of any single of them: `focus' chooses     *)
(* which, and the others stay where they began.                            *)
(***************************************************************************)
EXTENDS DuplicateReads, FactoryHelpers, RuleCascade, LayerImports, Migrations,
        MCGenerators

VARIABLE focus

allVars == <<readsVars, helpersVars, cascadeVars, layerVars, migrationVars,
             generatorVars, focus>>

-----------------------------------------------------------------------------
(* Statements of every shape the rule tells apart *)

DbCall(on, do, by) == [on |-> on, do |-> do, by |-> by]

find == DbCall("repository", "find", "id")
list == DbCall("repository", "list", "id")
query == DbCall("prisma", "find", "id")
update == DbCall("repository", "update", "id")

Element(is, parts) == [is |-> is, parts |-> parts]

Single(c) == Element("call", <<<<c>>>>)

SingleCalls ==
  {find, list, query, update, Exit, DbCall("cache", "update", "id"),
   DbCall("prisma", "find", "nothing"), DbCall("prisma", "find", "cursor")}

Compound == {
  Element("ternary", <<<<find>>, <<find>>, <<update>>>>),
  Element("ternary", <<<<query>>, <<find, find>>, <<Exit>>>>),
  Element("ternary", <<<<query>>, <<find>>, <<find>>>>),
  Element("logical", <<<<find>>, <<find>>>>),
  Element("logical", <<<<query>>, <<update>>>>),
  Element("block", <<<<find, update, find>>>>),
  Element("block", <<<<find, find>>>>),
  Element("block", <<<<find, Exit>>>>),
  Element("function", <<<<find, update>>>>),
  Element("function", <<<<find, find>>>>),
  Element("switch", <<<<find>>, <<find, Exit>>>>)}

Pairs == {
  <<Single(find), Single(find)>>,
  <<Single(find), Single(update)>>,
  <<Single(update), Single(find)>>,
  <<Single(find), Element("block", <<<<update>>>>)>>,
  <<Single(find), Element("block", <<<<find>>>>)>>}

SomeStatements == {<<Single(c)>> : c \in SingleCalls} \cup {<<e>> : e \in Compound} \cup Pairs

-----------------------------------------------------------------------------

\* A factory without a report.
HelpersAtRest ==
  /\ place = [x \in Functions |-> "inline"]
  /\ refs = [x \in Functions |-> {}]
  /\ aside = [x \in Functions |-> {}]
  /\ forwards = [x \in Functions |-> Nothing]
  /\ exposed = Functions

ConventionsInit ==
  /\ focus \in {"reads", "helpers", "cascade", "layers", "migrations", "generators"}
  /\ ReadsInit
  /\ MigrationsInit
  /\ GeneratorsInit
  /\ CascadeInit
  /\ focus = "cascade" \/ file = "server"
  /\ LayersInit
  /\ focus = "layers" \/ origin = [kind |-> "lib", owner |-> Shared]
  /\ \/ focus = "helpers" /\ HelpersInit
     \/ focus # "helpers" /\ HelpersAtRest

ConventionsNext ==
  \/ /\ focus = "reads" /\ ReadsNext
     /\ UNCHANGED <<helpersVars, cascadeVars, layerVars, migrationVars, generatorVars, focus>>
  \/ /\ focus = "helpers" /\ HelpersNext
     /\ UNCHANGED <<readsVars, cascadeVars, layerVars, migrationVars, generatorVars, focus>>
  \/ /\ focus = "cascade" /\ CascadeNext
     /\ UNCHANGED <<readsVars, helpersVars, layerVars, migrationVars, generatorVars, focus>>
  \/ /\ focus = "layers" /\ LayersNext
     /\ UNCHANGED <<readsVars, helpersVars, cascadeVars, migrationVars, generatorVars, focus>>
  \/ /\ focus = "migrations" /\ MigrationsNext
     /\ UNCHANGED <<readsVars, helpersVars, cascadeVars, layerVars, generatorVars, focus>>
  \/ /\ focus = "generators" /\ GeneratorsNext
     /\ UNCHANGED <<readsVars, helpersVars, cascadeVars, layerVars, migrationVars, focus>>

\* Whoever edits a factory follows the reports to the end; at rest it has none.
ConventionsSpec ==
  ConventionsInit /\ [][ConventionsNext]_allVars /\ WF_helpersVars(HelpersNext)

-----------------------------------------------------------------------------

\* Each tool is type correct, at rest as well.  Among the conjuncts that say more
\* than a type: a request whose checks main has not left behind would pass them
\* again as it is merged, and the reads of an open group have nothing between
\* them that ends a segment.
ConventionsTypeOK ==
  ReadsTypeOK /\ CascadeTypeOK /\ MigrationsTypeOK
=============================================================================
