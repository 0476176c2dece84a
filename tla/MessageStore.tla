---------------------------- MODULE MessageStore ----------------------------
(***************************************************************************)
(* The Postgres table behind MessageRepository and the writes it offers.   *)
(* A table maps each message id to its row, or to NoRow.  What a column    *)
(* holds is abstracted to the job that supplied it: `writer[f]' is the     *)
(* job whose payload column f came from, NoJob for a column left NULL.     *)
(* Every write of the repository is one SQL statement, hence atomic.       *)
(***************************************************************************)
EXTENDS Naturals

CONSTANTS Ids,      \* message ids (uuidv7 primary keys)
          Jobs,     \* jobs of the message queue
          NoRow,    \* "no row has this id"
          NoJob     \* "no job supplied this"

\* The columns a client supplies.
Fields == {"text", "meta"}

Names == {"create", "update", "delete"}

Rows == [writer : [Fields -> Jobs \cup {NoJob}], updatedAt : Nat]

Tables == [Ids -> Rows \cup {NoRow}]

\* What a request body may carry once the route's schema accepted it: a
\* create has a text, an update is not empty, a delete carries nothing.
Payloads ==
  [name : {"create"}, id : Ids, fields : {{"text"}, Fields}]
    \cup [name : {"update"}, id : Ids, fields : (SUBSET Fields) \ {{}}]
    \cup [name : {"delete"}, id : Ids, fields : {{}}]

\* A queued job: the payload and the moment of Queue.add.
JobRecords ==
  [name : Names, id : Ids, fields : SUBSET Fields, timestamp : Nat]

ASSUME StoreAssumption ==
  /\ NoRow \notin Rows /\ NoRow \notin Nat
  /\ NoJob \notin Jobs
  /\ NoJob \notin JobRecords

-----------------------------------------------------------------------------

Exists(t, id) == t[id] # NoRow

\* upsert with an empty update: an existing row is left as it is.
CreateIfAbsent(t, j, job) ==
  IF Exists(t, job.id)
  THEN t
  ELSE [t EXCEPT ![job.id] =
          [writer    |-> [f \in Fields |-> IF f \in job.fields THEN j ELSE NoJob],
           updatedAt |-> job.timestamp]]

\* Mutants of NotNewer: the comparison is forgotten, or strict.
NotNewerUnguarded(t, job) == Exists(t, job.id)

NotNewerStrict(t, job) ==
  Exists(t, job.id) /\ t[job.id].updatedAt < job.timestamp

\* The where clause of updateMany, `updatedAt: { lte: updatedAt }'.
NotNewer(t, job) ==
  Exists(t, job.id) /\ t[job.id].updatedAt <= job.timestamp

\* Mutants of UpdateMany: the row is not stamped, or made if it is missing.
UpdateManyUnstamped(t, j, job) ==
  IF NotNewer(t, job)
  THEN [t EXCEPT ![job.id].writer =
          [f \in Fields |-> IF f \in job.fields THEN j ELSE @[f]]]
  ELSE t

UpsertMany(t, j, job) ==
  IF NotNewer(t, job) \/ ~Exists(t, job.id)
  THEN [t EXCEPT ![job.id] =
          [writer |-> [f \in Fields |-> j], updatedAt |-> job.timestamp]]
  ELSE t

\* updateMany: columns the payload does not name keep their value.
UpdateMany(t, j, job) ==
  IF NotNewer(t, job)
  THEN [t EXCEPT ![job.id] =
          [writer    |-> [f \in Fields |->
                            IF f \in job.fields THEN j ELSE t[job.id].writer[f]],
           updatedAt |-> job.timestamp]]
  ELSE t

DeleteMany(t, job) == [t EXCEPT ![job.id] = NoRow]

\* The first statement each kind of job sends to the database.
Apply(t, j, job) ==
  CASE job.name = "create" -> CreateIfAbsent(t, j, job)
    [] job.name = "update" -> UpdateMany(t, j, job)
    [] job.name = "delete" -> DeleteMany(t, job)
=============================================================================
