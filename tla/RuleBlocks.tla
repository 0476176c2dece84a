----------------------------- MODULE RuleBlocks -----------------------------
(***************************************************************************)
(* The blocks of eslint.config.mjs: for which files which rule makes which *)
(* checks.  A file is taken for its kind, which is all that the patterns   *)
(* of the blocks tell apart, and a check for what it forbids.              *)
(***************************************************************************)
EXTENDS SequencesExt

Services == {"service", "mqService", "libService"}
Constants == {"constant", "mqConstant", "libConstant"}
Types == {"type", "mqType", "libType", "envType"}
MqBodies == {"queue", "worker"}
Mq == MqBodies \cup {"mqService", "mqConstant", "mqType"}

\* A stray file is one with a name no layout has.
Modules ==
  {"index", "public", "route", "handler", "service", "repository", "schema",
   "constant", "type", "util", "moduleStray"} \cup Mq

MqPlugins == {"mqPluginQueue", "mqPluginWorker", "mqPluginStray"}

Plugins == {"plugin", "prismaPlugin", "envPlugin", "pluginStray"} \cup MqPlugins

Validation == {"libSchema", "libSchemaStray"}

Lib == {"lib", "libService", "libUtil", "libConstant", "libType", "errors",
        "awilix"} \cup Validation

Declarations == {"declarations", "prismaJson"}

Source == Modules \cup Plugins \cup Lib \cup Declarations
            \cup {"database", "envType", "server", "entry"}

Kinds == Source \cup {"test", "script"}

Block(files, options) == [files |-> files, options |-> options]

On(rules) == [r \in rules |-> {"on"}]

Off(rules) == [r \in rules |-> {}]

Checking(rule, checks) == [r \in {rule} |-> checks]

\* Options replace options.
Over(options, conf) ==
  [r \in DOMAIN options \cup DOMAIN conf |->
     IF r \in DOMAIN options THEN options[r] ELSE conf[r]]

-----------------------------------------------------------------------------
(* The blocks, by rule the checks that they set; "on" is a rule with one.  *)

BaseBlocks == <<
  Block(Kinds,
    Over(On({"no-console", "no-magic-numbers", "style"}),
         Checking("no-restricted-syntax", {"log.trace", "*.log.trace"}))),
  Block({"mqPluginStray"}, Checking("no-restricted-syntax", {"misplaced"})),
  Block({"script"}, Off({"no-console"}))>>

SourceBlocks == <<
  Block(Source, On({"require-await", "typed", "naming", "import-x"})),
  Block(Source,
    Over(On({"max-comment-lines"}),
         Over(Checking("no-barrel-files", {"export from"}),
              Checking("no-parent-imports", {"../"})))),
  Block(Source \ {"errors"}, On({"no-classes"}))>>

NoDatabase == {"database", "prismaPlugin", "envType", "repository"} \cup Declarations

PrismaCalls == {"prisma", "*.prisma", "$queryRaw"}

PrismaBlock ==
  Block(Source \ NoDatabase,
    Over(Checking("prisma-imports", {"values"}), Checking("prisma-calls", PrismaCalls)))

\* Mutant of PrismaBlocks: the general block comes last.
PrismaBlocksSwapped == <<
  Block((Source \ NoDatabase) \ Services,
    Checking("prisma-calls", PrismaCalls \cup {"prisma.$transaction"})),
  PrismaBlock>>

PrismaBlocks == <<
  PrismaBlock,
  Block((Source \ NoDatabase) \ Services,
    Checking("prisma-calls", PrismaCalls \cup {"prisma.$transaction"}))>>

PlacementBlocks == <<
  Block(Modules \ MqBodies, Checking("sdk-imports", {"values"})),
  Block(Source \ Plugins, On({"di-registration"})),
  Block({"moduleStray"}, Checking("file-layout", {"misplaced"})),
  Block({"database"}, Checking("file-layout", {"misplaced"})),
  Block({"libSchemaStray"}, Checking("file-layout", {"misplaced"})),
  Block({"pluginStray"}, Checking("file-layout", {"misplaced"})),
  Block(Services \cup {"handler", "repository"}, On({"factory-params"}))>>

FactoryBlocks == <<
  Block(Services, Checking("di-files", {"createService", "registered", "typed"})),
  Block({"handler"}, Checking("di-files", {"createHandler", "registered", "typed"})),
  Block({"repository"}, Checking("di-files", {"createRepository", "registered", "typed"})),
  Block(Source \ (Validation \cup {"schema"}), Checking("zod-placement", {"values"})),
  Block(Source, On({"layer-direction", "paginate-lists"}))>>

RouteBlocks == <<
  Block({"route"},
    Checking("route-shape",
      {"fastify.route", "inline", "response", "tags", "summary", "path", "tag"})),
  Block(Source, On({"file-naming", "transaction-via-repositories",
    "no-relation-join-with-cursor", "no-duplicate-repository-read",
    "no-unsafe-raw-sql", "structured-logs"})),
  Block(Source \ ({"database", "repository"} \cup Declarations),
    On({"no-prisma-shape-outside-repository"})),
  Block(Services \cup {"repository"}, On({"no-dependency-free-factory-helper",
    "no-pass-through-helper", "inline-unshared-service-method"})),
  Block(Modules, On({"no-single-repository-transaction", "prefer-repository-or-fail"}))>>

\* A worker does not import these even as types.
WorkerBlocks == <<
  Block({"worker"},
    Over(On({"thin-workers"}),
         Checking("worker-imports", {"prisma", "database", "repositories", "sdks"}))),
  Block(Types, Checking("type-files", {"values"})),
  Block(Constants, Over(Off({"no-magic-numbers"}), On({"constant-files"}))),
  Block({"handler"}, On({"return-reply"})),
  Block({"libSchema", "schema"}, Checking("schema-types", {"alias", "interface", "any"}))>>

HandlerBlocks == <<
  Block({"handler"},
    Over(Checking("handler-imports", {"repositories", "schema values"}),
         Checking("thin-handlers", {"parse", "branch"}))),
  Block(Source \ {"envPlugin", "server"}, On({"no-process-env"})),
  Block(Modules \cup {"database"}, Checking("typed-errors", {"Error", "literal"})),
  Block(Plugins, Checking("entry-points", {"default export", "fp"})),
  Block({"index"}, Checking("entry-points", {"autoPrefix", "default export", "no more"})),
  Block(Source \ (Plugins \cup {"index"}), Checking("entry-points", {"no default export"}))>>

TestBlocks == <<
  Block({"test"}, Over(Off({"no-magic-numbers"}), On({"typed", "vitest"}))),
  Block(Kinds, On({"no-arch-disable"})),
  Block({"route"}, Checking("route-constants", {"not exported"})),
  Block({"constant", "mqConstant"}, Checking("route-constants", {"not here"})),
  Block({"util"} \cup (Lib \ {"libService", "awilix"}),
    Over(Checking("max-one-param", {"variable", "function"}),
         Checking("always-return", {"variable", "function", "void"})))>>

ServiceBlocks == <<
  Block(Services,
    Over(On({"service-return"}),
         Over(Checking("max-one-param", {"property"}),
              Over(Checking("always-return", {"property", "void"}),
                   Checking("service-helpers",
                     {"function", "after return", "after factory"}))))),
  Block(Modules \cup Validation,
    Checking("response-messages", {"property", "zod", "error", "send", "zod first"})),
  Block(Source, Checking("no-db-in-loops", {"loop", "callback"})),
  Block(Modules, Checking("layer-imports", {"create values"}))>>

CodeBlocks == <<
  Block(Modules \ MqBodies, On({"no-manual-new"})),
  Block({"service", "mqService", "handler"},
    Checking("types-placement", {"interface", "alias", "field", "union"})),
  Block(Source \ (Constants \cup {"schema", "libSchema", "route"}),
    On({"constants-placement"})),
  Block(Modules, On({"consistent-type-assertions"})),
  Block(Source \ {"prismaJson"}, On({"typed-prisma-json"})),
  Block(Services \cup Mq \cup {"repository"},
    Checking("no-http-in-services", {"FastifyRequest", "FastifyReply"})),
  Block(Source \ (Plugins \cup {"queue"}), On({"decorate-in-plugins"})),
  Block(Source \ {"entry", "server"}, On({"no-process-exit"}))>>

StyleBlocks == <<
  Block(Source, On({"no-math-random"})),
  Block(Plugins \cup MqBodies \cup {"index"}, Off({"require-await"})),
  Block(Modules \cup {"database"}, On({"no-await-in-loop"})),
  Block(Source, On({"node-protocol"})),
  Block(Source, Checking("parse-external-data", {"JSON", "response"})),
  Block({"libSchema", "schema"}, On({"bounded-pagination"})),
  Block({"route"}, On({"route-params-schema"})),
  Block(Plugins, On({"plugin-names"})),
  Block(Source \cup {"test"}, On({"code-style"}))>>

RepositoryBlocks == <<
  Block(Source \cup {"test"}, On({"no-interfaces"})),
  Block(Source, On({"complexity", "max-lines", "module-boundary-types"})),
  Block(Source, On({"log-error-key"})),
  Block({"libSchema", "schema"}, On({"response-envelope"})),
  Block({"route"}, Checking("route-registrar", {"exported"})),
  Block({"index"}, Checking("route-registrar", {"resolved"})),
  Block({"repository"}, On({"repository-select"})),
  Block({"repository"}, Checking("repository-layout", {"types", "helpers"}))>>

NotRepositories == Modules \ {"repository"}

DomainBlocks == <<
  Block({"type", "mqType"},
    Checking("domain-repository-types", {"prisma imports", "Prisma types"})),
  Block({"repository"}, Checking("domain-repository-types", {"Prisma in signatures"})),
  Block(NotRepositories, Checking("domain-repository-imports", {"repository values"})),
  Block(NotRepositories, Checking("no-prisma-in-modules", {"Prisma types"})),
  Block(NotRepositories \ {"service", "mqService"},
    Checking("no-prisma-in-modules", {"Prisma types", "prisma imports"})),
  Block({"public"},
    Over(Off({"no-barrel-files"}),
         Checking("public-api", {"type exports only", "repositories"}))),
  Block(Plugins, Checking("plugin-imports", {"module internals"}))>>

Blocks ==
  BaseBlocks \o SourceBlocks \o PrismaBlocks \o PlacementBlocks \o FactoryBlocks
    \o RouteBlocks \o WorkerBlocks \o HandlerBlocks \o TestBlocks \o ServiceBlocks
    \o CodeBlocks \o StyleBlocks \o RepositoryBlocks \o DomainBlocks

NoOptions == [r \in {} |-> {}]

Override(conf, block, kind) ==
  IF kind \in block.files THEN Over(block.options, conf) ELSE conf

=============================================================================
