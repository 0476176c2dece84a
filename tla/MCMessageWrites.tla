-------------------------- MODULE MCMessageWrites ---------------------------
EXTENDS MessageWrites, TLC

Symmetric == Permutations(Jobs) \cup Permutations(Workers) \cup Permutations(Ids)

Create(id, fields) == [name |-> "create", id |-> id, fields |-> fields]
Update(id, fields) == [name |-> "update", id |-> id, fields |-> fields]
Delete(id)         == [name |-> "delete", id |-> id, fields |-> {}]

\* A message is created and updated, in part and as a whole.
CreateAndUpdate ==
  {Create(id, {"text"}) : id \in Ids}
    \cup {Update(id, fields) : id \in Ids, fields \in {{"meta"}, Fields}}

\* Every request carries the whole message.
CreateAndReplace ==
  {Create(id, Fields) : id \in Ids} \cup {Update(id, Fields) : id \in Ids}

\* The update is of a column the create leaves NULL.
PartialWrites ==
  UNION {{Create(id, {"text"}), Update(id, {"meta"}), Delete(id)} : id \in Ids}

CreateUpdateDelete ==
  UNION {{Create(id, Fields), Update(id, {"text"}), Delete(id)} : id \in Ids}

SameClock == [c \in Clients |-> 0]

-----------------------------------------------------------------------------
(* Statements of the documentation that the code does not keep *)

\* "Every write is safe to repeat": a worker that executes a create job which
\* another run has already completed leaves the table as it is.
RepeatedCreateIsSafe ==
  [][\A w \in Workers :
       /\ At(w, "write") /\ workers'[w].step \notin {"write", "idle"}
       /\ jobs[workers[w].job].name = "create"
       /\ queue[workers[w].job].state = "completed"
       => table' = table]_vars

\* "Last write wins by enqueue time": the column shows the last enqueued of
\* the completed updates that wrote it.
LastWriteOfColumnWins ==
  \A j \in Jobs, f \in Fields :
    /\ queue[j].state = "completed"
    /\ jobs[j].name = "update"
    /\ f \in jobs[j].fields
    /\ JobsOf(jobs[j].id, "delete") = {}
    /\ \A k \in Jobs : Added(k) /\ k # j /\ jobs[k].id = jobs[j].id /\ f \in jobs[k].fields
                         => jobs[k].timestamp < jobs[j].timestamp
    => table[jobs[j].id].writer[f] = j
=============================================================================
