----------------------------- MODULE Migrations -----------------------------
(***************************************************************************)
(* Pull requests change schema.prisma and add migrations; CI checks each   *)
(* of them (check-migrations.mjs, check-drift.mjs) merged with main as it  *)
(* is then, and the request may be merged later.  The deployment applies   *)
(* the migrations it has not applied yet, in the order of their names.     *)
(* The data model is the type of one column and a migration alters it, so  *)
(* the last one counts.                                                    *)
(***************************************************************************)
EXTENDS Naturals

CONSTANTS Requests, \* the pull requests, numbers from 1
          Models,   \* the data models, 0 at first
          NoSql,    \* what an empty migration sets
          MaxTime   \* timestamps are 1..MaxTime, by the clock of each author

ASSUME MigrationsAssumption ==
  /\ Requests \subseteq Nat \ {0}
  /\ 0 \in Models /\ NoSql \notin Models
  /\ MaxTime \in Nat

\* The name of a migration is its timestamp and what its author calls it.
Migration(at, by, sets) == [at |-> at, by |-> by, sets |-> sets]

First == Migration(0, 0, 0)

AllMigrations ==
  {Migration(at, by, sets) : at \in 0..MaxTime, by \in Requests \cup {0},
                             sets \in Models \cup {NoSql}}

Trees == [model : Models, files : SUBSET AllMigrations]

VARIABLES main,    \* the tree of main
          seen,    \* main as a request has seen it last
          branch,  \* the tree of a request
          passed,  \* "no", "fresh" or "stale" as main has moved on, or "merged"
          prod,    \* the database in production, and what was applied to it
          excuses  \* history: what no check of a single request can see

migrationVars == <<main, seen, branch, passed, prod, excuses>>

MigrationsInit ==
  /\ main = [model |-> 0, files |-> {First}]
  /\ seen = [p \in Requests |-> main]
  /\ branch = [p \in Requests |-> main]
  /\ passed = [p \in Requests |-> "no"]
  /\ prod = [model |-> 0, files |-> {First}]
  /\ excuses = {}

SameName(f, g) == f.at = g.at /\ f.by = g.by

Precedes(f, g) == f.at < g.at \/ (f.at = g.at /\ f.by < g.by)

\* What the migrations make of a database, applied in the order of their names.
Replay(model, files) ==
  LET effective == {f \in files : f.sets # NoSql}
  IN IF effective = {} THEN model
     ELSE (CHOOSE f \in effective :
             \A g \in effective \ {f} : ~Precedes(f, g)).sets

-----------------------------------------------------------------------------
(* A three-way merge, of the model as one line and of the set of files *)

Conflicts(p) ==
  /\ main.model # seen[p].model
  /\ branch[p].model \notin {seen[p].model, main.model}

Merged(p) ==
  [model |-> IF branch[p].model = seen[p].model THEN main.model
             ELSE branch[p].model,
   files |-> (main.files \cup branch[p].files)
               \ ((seen[p].files \ main.files) \cup (seen[p].files \ branch[p].files))]

-----------------------------------------------------------------------------
(* The checks of CI on a merge of a request with main *)

\* Mutant of EditedMigrations: a migration may be edited, but not deleted.
DeletedMigrations(tree) ==
  {f \in main.files : \A g \in tree.files : ~SameName(f, g)}

\* Statuses M and D of the diff.
EditedMigrations(tree) == main.files \ tree.files

AddsMigration(tree) ==
  \E f \in tree.files : \A g \in main.files : ~SameName(f, g)

\* Mutant of FilesAreSound: the timestamps are not compared.
FilesAreNotEmpty(tree) == \A f \in tree.files : f.sets # NoSql

FilesAreSound(tree) ==
  /\ \A f, g \in tree.files : f.at = g.at => f = g
  /\ \A f \in tree.files : f.sets # NoSql

CheckMigrations(tree) ==
  /\ EditedMigrations(tree) = {}
  /\ main.model # tree.model => AddsMigration(tree)
  /\ FilesAreSound(tree)

\* Mutant of CheckDrift: that a migration came along with a change is enough.
CheckNoDrift(tree) == CheckMigrations(tree)

CheckDrift(tree) == Replay(0, tree.files) = tree.model

-----------------------------------------------------------------------------

\* Mutant of Commit: the checks are not run again for a new commit.
CommitKeepsPass(p, tree) ==
  /\ passed[p] # "merged"
  /\ branch' = [branch EXCEPT ![p] = tree]
  /\ UNCHANGED <<main, seen, passed, prod, excuses>>

\* CI runs on every pull request, again when it changes.
Commit(p, tree) ==
  /\ passed[p] # "merged"
  /\ branch' = [branch EXCEPT ![p] = tree]
  /\ passed' = [passed EXCEPT ![p] = "no"]
  /\ UNCHANGED <<main, seen, prod, excuses>>

ChangeModel(p, model) ==
  /\ branch[p].model # model
  /\ Commit(p, [branch[p] EXCEPT !.model = model])

\* prisma:migrate:create writes what is missing between the migrations and the
\* schema; a request of the model has one migration of its own.
CreateMigration(p, at) ==
  /\ Replay(0, branch[p].files) # branch[p].model
  /\ \A f \in branch[p].files : f.by # p
  /\ Commit(p, [branch[p] EXCEPT !.files =
                  @ \cup {Migration(at, p, branch[p].model)}])

\* By hand: as for a backfill of data, or by mistake.
EditMigration(p, f, sets) ==
  /\ f \in branch[p].files /\ f.sets # sets
  /\ Commit(p, [branch[p] EXCEPT !.files = (@ \ {f}) \cup {[f EXCEPT !.sets = sets]}])

DeleteMigration(p, f) ==
  /\ f \in branch[p].files
  /\ Commit(p, [branch[p] EXCEPT !.files = @ \ {f}])

\* The author merges main, and settles a conflict one way or the other.
Update(p, model) ==
  /\ passed[p] # "merged"
  /\ seen[p] # main
  /\ IF Conflicts(p) THEN model \in {main.model, branch[p].model}
     ELSE model = Merged(p).model
  /\ branch' = [branch EXCEPT ![p] = [Merged(p) EXCEPT !.model = model]]
  /\ seen' = [seen EXCEPT ![p] = main]
  /\ passed' = [passed EXCEPT ![p] = "no"]
  /\ UNCHANGED <<main, prod, excuses>>

Check(p) ==
  /\ passed[p] \in {"no", "stale"}
  /\ branch[p] # seen[p]
  /\ ~Conflicts(p)
  /\ CheckMigrations(Merged(p))
  /\ CheckDrift(Merged(p))
  /\ passed' = [passed EXCEPT ![p] = "fresh"]
  /\ UNCHANGED <<main, seen, branch, prod, excuses>>

\* A migration is late if one that sorts after it was applied before.
Late(files) ==
  \E f \in files \ prod.files, g \in prod.files : Precedes(f, g)

Merge(p) ==
  /\ passed[p] \in {"fresh", "stale"}
  /\ ~Conflicts(p)
  /\ main' = Merged(p)
  /\ passed' = [q \in Requests |->
                  IF q = p THEN "merged"
                  ELSE IF passed[q] = "fresh" THEN "stale" ELSE passed[q]]
  /\ excuses' = excuses \cup (IF passed[p] = "stale" THEN {"stale"} ELSE {})
  /\ seen' = [seen EXCEPT ![p] = main']
  /\ branch' = [branch EXCEPT ![p] = main']
  /\ UNCHANGED prod

\* prisma migrate deploy
Deploy ==
  /\ prod.files # main.files
  /\ prod' = [model |-> Replay(prod.model, main.files \ prod.files),
              files |-> main.files]
  /\ excuses' = excuses \cup (IF Late(main.files) THEN {"late"} ELSE {})
  /\ UNCHANGED <<main, seen, branch, passed>>

Author(p) ==
  \/ \E model \in Models : ChangeModel(p, model) \/ Update(p, model)
  \/ \E at \in 1..MaxTime : CreateMigration(p, at)
  \/ \E f \in branch[p].files :
       DeleteMigration(p, f)
         \/ \E sets \in Models \cup {NoSql} : EditMigration(p, f, sets)

MigrationsNext == Deploy \/ \E p \in Requests : Author(p) \/ Check(p) \/ Merge(p)

MigrationsSpec == MigrationsInit /\ [][MigrationsNext]_migrationVars

-----------------------------------------------------------------------------

\* The requests and main; checks that main has not left behind are those of what
\* would be merged now.
RequestsTypeOK ==
  /\ main \in Trees
  /\ seen \in [Requests -> Trees] /\ branch \in [Requests -> Trees]
  /\ passed \in [Requests -> {"no", "fresh", "stale", "merged"}]
  /\ excuses \subseteq {"stale", "late"}
  /\ \A p \in Requests : passed[p] = "fresh" =>
       ~Conflicts(p) /\ CheckMigrations(Merged(p)) /\ CheckDrift(Merged(p))

\* And production.
MigrationsTypeOK == RequestsTypeOK /\ prod \in Trees

\* What was merged once is never edited or deleted, even by a request that
\* passed its checks before others were merged.
MigrationsAreAppendOnly == [][main.files \subseteq main'.files]_migrationVars

\* The migrations of main reproduce its schema, and their timestamps differ,
\* unless a request was merged on a check that main had left behind.
MainReproducesItsSchema ==
  "stale" \notin excuses =>
    /\ Replay(0, main.files) = main.model
    /\ \A f, g \in main.files : f.at = g.at => f = g

\* Production has the schema of main once all is deployed, unless a request was
\* merged on such a check or a migration came to be applied after one that its
\* name sorts it before: neither script compares names with those of main.
ProductionHasTheSchema ==
  excuses = {} /\ prod.files = main.files => prod.model = main.model

=============================================================================
