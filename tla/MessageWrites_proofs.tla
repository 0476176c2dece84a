----------------------- MODULE MessageWrites_proofs -------------------------
(***************************************************************************)
(* Theorems about the write path, for every set of ids, jobs, workers and  *)
(* clients, every workload, number of attempts and stalls, and clock skew. *)
(***************************************************************************)
EXTENDS MCMessageWrites, TLAPS

-----------------------------------------------------------------------------
(* What one statement of the repository does to the table *)

\* A statement leaves a table of well-formed rows.
LEMMA ApplyType ==
  ASSUME NEW t \in Tables, NEW j \in Jobs, NEW job \in JobRecords
  PROVE  Apply(t, j, job) \in Tables
<1>1. CASE job.name = "create"
  BY <1>1 DEF Apply, CreateIfAbsent, Tables, Rows, JobRecords, Fields, Exists
<1>2. CASE job.name = "update"
  BY <1>2 DEF Apply, UpdateMany, NotNewer, Tables, Rows, JobRecords, Fields, Exists
<1>3. CASE job.name = "delete"
  BY <1>3 DEF Apply, DeleteMany, Tables, Rows, JobRecords
<1> QED
  BY <1>1, <1>2, <1>3 DEF JobRecords, Names

\* A statement touches the row of its own message only.
LEMMA ApplyElsewhere ==
  ASSUME NEW t \in Tables, NEW j \in Jobs, NEW job \in JobRecords,
         NEW id \in Ids, id # job.id
  PROVE  Apply(t, j, job)[id] = t[id]
<1>1. CASE job.name = "create"
  BY <1>1 DEF Apply, CreateIfAbsent, Tables, JobRecords
<1>2. CASE job.name = "update"
  BY <1>2 DEF Apply, UpdateMany, Tables, JobRecords
<1>3. CASE job.name = "delete"
  BY <1>3 DEF Apply, DeleteMany, Tables, JobRecords
<1> QED
  BY <1>1, <1>2, <1>3 DEF JobRecords, Names

\* The row an update leaves behind when its where clause matches.
LEMMA UpdatedRow ==
  ASSUME NEW t \in Tables, NEW j \in Jobs, NEW job \in JobRecords,
         job.name = "update", NotNewer(t, job)
  PROVE  LET u   == Apply(t, j, job)
             row == [writer    |-> [f \in Fields |->
                                      IF f \in job.fields
                                      THEN j ELSE t[job.id].writer[f]],
                     updatedAt |-> job.timestamp]
         IN  /\ u = [t EXCEPT ![job.id] = row]
             /\ u[job.id] = row
             /\ row \in Rows
             /\ Exists(u, job.id)
<1> DEFINE row == [writer    |-> [f \in Fields |->
                                    IF f \in job.fields
                                    THEN j ELSE t[job.id].writer[f]],
                   updatedAt |-> job.timestamp]
<1>1. Apply(t, j, job) = [t EXCEPT ![job.id] = row]
  BY DEF Apply, UpdateMany
<1>2. t[job.id] \in Rows /\ job.id \in Ids
  BY DEF NotNewer, Exists, Tables, JobRecords
<1>3. row \in Rows
  BY <1>2 DEF Rows, JobRecords, Fields
<1>4. Apply(t, j, job)[job.id] = row
  BY <1>1, <1>2 DEF Tables
<1> QED
  BY <1>1, <1>3, <1>4, StoreAssumption DEF Exists

\* The same, column by column.
LEMMA UpdatedColumns ==
  ASSUME NEW t \in Tables, NEW j \in Jobs, NEW job \in JobRecords,
         job.name = "update", NotNewer(t, job)
  PROVE  LET u == Apply(t, j, job) IN
           /\ Exists(u, job.id)
           /\ u[job.id].updatedAt = job.timestamp
           /\ \A f \in Fields : u[job.id].writer[f] =
                IF f \in job.fields THEN j ELSE t[job.id].writer[f]
<1> DEFINE row == [writer    |-> [f \in Fields |->
                                    IF f \in job.fields
                                    THEN j ELSE t[job.id].writer[f]],
                   updatedAt |-> job.timestamp]
<1>1. Apply(t, j, job)[job.id] = row /\ Exists(Apply(t, j, job), job.id)
  BY UpdatedRow
<1> QED
  BY <1>1

\* The row a create inserts when there is none.
LEMMA CreatedColumns ==
  ASSUME NEW t \in Tables, NEW j \in Jobs, NEW job \in JobRecords,
         job.name = "create", ~Exists(t, job.id)
  PROVE  LET u == Apply(t, j, job) IN
           /\ Exists(u, job.id)
           /\ u[job.id].updatedAt = job.timestamp
           /\ \A f \in Fields : u[job.id].writer[f] =
                IF f \in job.fields THEN j ELSE NoJob
<1> DEFINE row == [writer    |-> [f \in Fields |-> IF f \in job.fields THEN j ELSE NoJob],
                   updatedAt |-> job.timestamp]
<1>1. Apply(t, j, job) = [t EXCEPT ![job.id] = row]
  BY DEF Apply, CreateIfAbsent
<1>2. row \in Rows /\ job.id \in Ids
  BY DEF Rows, JobRecords, Fields
<1> QED
  BY <1>1, <1>2, StoreAssumption DEF Tables, Exists

\* Every write is safe to repeat at once: a second execution of the same
\* statement finds the table as it would leave it.
THEOREM ApplyIsIdempotent ==
  ASSUME NEW t \in Tables, NEW j \in Jobs, NEW job \in JobRecords
  PROVE  Apply(Apply(t, j, job), j, job) = Apply(t, j, job)
<1> DEFINE u == Apply(t, j, job)
<1>0. u \in Tables /\ job.id \in Ids
  BY ApplyType DEF JobRecords
<1>1. CASE job.name = "create"
  <2>1. Exists(u, job.id)
    BY <1>0, <1>1, StoreAssumption DEF Apply, CreateIfAbsent, Tables, Rows, JobRecords, Fields, Exists
  <2> QED
    BY <1>1, <2>1 DEF Apply, CreateIfAbsent
<1>2. CASE job.name = "update"
  <2>1. CASE ~NotNewer(t, job)
    BY <1>2, <2>1 DEF Apply, UpdateMany
  <2>2. CASE NotNewer(t, job)
    <3>1. /\ Exists(u, job.id)
          /\ u[job.id] = [writer    |-> [f \in Fields |->
                                          IF f \in job.fields
                                          THEN j ELSE t[job.id].writer[f]],
                         updatedAt |-> job.timestamp]
      BY <1>2, <2>2, UpdatedRow
    <3>2. NotNewer(u, job)
      BY <3>1 DEF NotNewer, JobRecords
    <3>3. Apply(u, j, job) =
            [u EXCEPT ![job.id] =
               [writer    |-> [f \in Fields |->
                                 IF f \in job.fields THEN j ELSE u[job.id].writer[f]],
                updatedAt |-> job.timestamp]]
      BY <1>2, <3>2, <1>0, UpdatedRow
    <3>4. [f \in Fields |-> IF f \in job.fields THEN j ELSE u[job.id].writer[f]]
            = [f \in Fields |-> IF f \in job.fields THEN j ELSE t[job.id].writer[f]]
      BY <3>1
    <3>5. Apply(u, j, job) = [u EXCEPT ![job.id] = u[job.id]]
      BY <3>1, <3>3, <3>4
    <3> QED
      BY <3>5, <1>0 DEF Tables
  <2> QED
    BY <2>1, <2>2
<1>3. CASE job.name = "delete"
  BY <1>3, <1>0 DEF Apply, DeleteMany, Tables, JobRecords
<1> QED
  BY <1>1, <1>2, <1>3 DEF JobRecords, Names

\* Two updates of whole messages with different enqueue times commute: the
\* row they leave does not depend on the order the workers ran them in.
THEOREM WholeUpdatesCommute ==
  ASSUME NEW t \in Tables,
         NEW j \in Jobs, NEW a \in JobRecords,
         NEW k \in Jobs, NEW b \in JobRecords,
         a.name = "update", b.name = "update",
         a.fields = Fields, b.fields = Fields,
         a.timestamp # b.timestamp
  PROVE  Apply(Apply(t, j, a), k, b) = Apply(Apply(t, k, b), j, a)
<1> DEFINE whole(i, job) == [writer    |-> [f \in Fields |-> i],
                             updatedAt |-> job.timestamp]
<1>1. ASSUME NEW u \in Tables, NEW i \in Jobs, NEW job \in JobRecords,
             job.name = "update", job.fields = Fields
      PROVE  Apply(u, i, job) = IF NotNewer(u, job)
                                THEN [u EXCEPT ![job.id] = whole(i, job)] ELSE u
  BY <1>1 DEF Apply, UpdateMany
<1>2. /\ a.id \in Ids /\ b.id \in Ids /\ a.timestamp \in Nat /\ b.timestamp \in Nat
      /\ Apply(t, j, a) \in Tables /\ Apply(t, k, b) \in Tables
  BY ApplyType DEF JobRecords
<1>3. whole(j, a) # NoRow /\ whole(k, b) # NoRow
  BY <1>2, StoreAssumption DEF Rows
<1>4. \A id \in Ids : Exists(t, id) => t[id].updatedAt \in Nat
  BY DEF Tables, Rows, Exists
<1>5. Apply(Apply(t, j, a), k, b)
        = IF NotNewer(Apply(t, j, a), b)
          THEN [Apply(t, j, a) EXCEPT ![b.id] = whole(k, b)] ELSE Apply(t, j, a)
  BY <1>1, <1>2
<1>6. Apply(Apply(t, k, b), j, a)
        = IF NotNewer(Apply(t, k, b), a)
          THEN [Apply(t, k, b) EXCEPT ![a.id] = whole(j, a)] ELSE Apply(t, k, b)
  BY <1>1, <1>2
<1>7. /\ Apply(t, j, a) = IF NotNewer(t, a)
                          THEN [t EXCEPT ![a.id] = whole(j, a)] ELSE t
      /\ Apply(t, k, b) = IF NotNewer(t, b)
                          THEN [t EXCEPT ![b.id] = whole(k, b)] ELSE t
  BY <1>1
<1>8. whole(j, a).updatedAt = a.timestamp /\ whole(k, b).updatedAt = b.timestamp
  OBVIOUS
<1> DEFINE ta == Apply(t, j, a)
           tb == Apply(t, k, b)
<1>9. ASSUME NEW id \in Ids
      PROVE  Apply(ta, k, b)[id] = Apply(tb, j, a)[id]
  <2> HIDE DEF whole, ta, tb
  <2>1. /\ ta \in Tables /\ tb \in Tables
        /\ ta = IF NotNewer(t, a) THEN [t EXCEPT ![a.id] = whole(j, a)] ELSE t
        /\ tb = IF NotNewer(t, b) THEN [t EXCEPT ![b.id] = whole(k, b)] ELSE t
        /\ Apply(ta, k, b) = IF NotNewer(ta, b)
                             THEN [ta EXCEPT ![b.id] = whole(k, b)] ELSE ta
        /\ Apply(tb, j, a) = IF NotNewer(tb, a)
                             THEN [tb EXCEPT ![a.id] = whole(j, a)] ELSE tb
    BY <1>2, <1>5, <1>6, <1>7 DEF ta, tb
  <2>a. /\ ta[id] = IF NotNewer(t, a) /\ id = a.id THEN whole(j, a) ELSE t[id]
        /\ tb[id] = IF NotNewer(t, b) /\ id = b.id THEN whole(k, b) ELSE t[id]
        /\ Apply(ta, k, b)[id] = IF NotNewer(ta, b) /\ id = b.id
                                 THEN whole(k, b) ELSE ta[id]
        /\ Apply(tb, j, a)[id] = IF NotNewer(tb, a) /\ id = a.id
                                 THEN whole(j, a) ELSE tb[id]
    BY <2>1 DEF Tables
  <2>2. CASE a.id # b.id
    <3>1. /\ ta[b.id] = t[b.id] /\ tb[a.id] = t[a.id]
      BY <1>2, <2>1, <2>2 DEF Tables
    <3>2. /\ NotNewer(ta, b) <=> NotNewer(t, b)
          /\ NotNewer(tb, a) <=> NotNewer(t, a)
      BY <3>1 DEF NotNewer, Exists
    <3> QED
      BY <2>2, <2>a, <3>2
  <2>3. CASE a.id = b.id /\ ~Exists(t, a.id)
    BY <2>1, <2>3 DEF NotNewer
  <2>4. CASE a.id = b.id /\ Exists(t, a.id)
    <3>1. t[a.id].updatedAt \in Nat
      BY <1>2, <1>4, <2>4
    <3>2. /\ NotNewer(t, a) <=> t[a.id].updatedAt <= a.timestamp
          /\ NotNewer(t, b) <=> t[a.id].updatedAt <= b.timestamp
      BY <2>4 DEF NotNewer
    <3>3. CASE a.timestamp < b.timestamp
      <4>1. NotNewer(ta, b) <=> NotNewer(t, b)
        BY <1>2, <1>3, <1>8, <2>1, <2>4, <3>1, <3>2, <3>3 DEF NotNewer, Exists, Tables
      <4>2. NotNewer(tb, a) <=> NotNewer(t, a) /\ ~NotNewer(t, b)
        BY <1>2, <1>3, <1>8, <2>1, <2>4, <3>1, <3>2, <3>3 DEF NotNewer, Exists, Tables
      <4> QED
        BY <2>4, <2>a, <4>1, <4>2
    <3>4. CASE b.timestamp < a.timestamp
      <4>1. NotNewer(tb, a) <=> NotNewer(t, a)
        BY <1>2, <1>3, <1>8, <2>1, <2>4, <3>1, <3>2, <3>4 DEF NotNewer, Exists, Tables
      <4>2. NotNewer(ta, b) <=> NotNewer(t, b) /\ ~NotNewer(t, a)
        BY <1>2, <1>3, <1>8, <2>1, <2>4, <3>1, <3>2, <3>4 DEF NotNewer, Exists, Tables
      <4> QED
        BY <2>4, <2>a, <4>1, <4>2
    <3> QED
      BY <1>2, <3>3, <3>4
  <2> QED
    BY <2>2, <2>3, <2>4
<1> HIDE DEF whole
<1>10. /\ Apply(Apply(t, j, a), k, b) \in Tables
       /\ Apply(Apply(t, k, b), j, a) \in Tables
  BY <1>2, ApplyType
<1> QED
  BY <1>9, <1>10 DEF Tables

-----------------------------------------------------------------------------
(* What has been added, and what is on its way *)


Deleted(id) == JobsOf(id, "delete") # {}

\* A job that anything refers to has been added, and its payload is one the
\* routes let through.
JobsAreAdded ==
  /\ \A j \in Jobs : Added(j) =>
       /\ jobs[j].name = "create" => "text" \in jobs[j].fields
       /\ jobs[j].name = "update" => jobs[j].fields # {}
  /\ \A j \in Jobs : queue[j].state # "none" => Added(j)
  /\ \A i \in 1..Len(wait) : Added(wait[i])
  /\ \A w \in Workers : ~At(w, "idle") =>
       workers[w].job \in Jobs /\ Added(workers[w].job)
  /\ \A w \in Workers : At(w, "recheck") => jobs[workers[w].job].name = "update"
  /\ \A id \in Ids, f \in Fields :
       Exists(table, id) /\ table[id].writer[f] # NoJob
         => Added(table[id].writer[f])

\* What passed the existence check is about a row that is still there, unless
\* a delete was enqueued.
CheckedRowsExist ==
  /\ \A c \in Clients : requests[c] # NoRequest
       => Deleted(requests[c].id) \/ Exists(table, requests[c].id)
  /\ \A j \in Jobs : Added(j) /\ jobs[j].name # "create"
       => Deleted(jobs[j].id) \/ Exists(table, jobs[j].id)

Newer(j) ==
  /\ Exists(table, jobs[j].id)
  /\ table[jobs[j].id].updatedAt > jobs[j].timestamp

\* A worker past the write of an update leaves a row that holds it.
WorkersStand ==
  \A w \in Workers :
    LET j == workers[w].job IN
    ~At(w, "idle") /\ jobs[j].name = "update" /\ ~Deleted(jobs[j].id)
      => /\ At(w, "invalidate") \/ At(w, "done") => Stands(j)
         /\ At(w, "recheck") => Newer(j)

IInv ==
  /\ TypeOK
  /\ JobsAreAdded
  /\ CheckedRowsExist
  /\ RowVersionIsNewestField
  /\ WorkersStand
  /\ CompletedUpdateStands
  /\ GivesUpOnlyIfDeleted

-----------------------------------------------------------------------------
(* Types *)

LEMMA PayloadRecords ==
  \A p \in Payloads :
    /\ p.name \in Names /\ p.id \in Ids /\ p.fields \in SUBSET Fields
    /\ p.name = "create" => "text" \in p.fields
    /\ p.name = "update" => p.fields # {}
BY DEF Payloads, Names, Fields

LEMMA TypeInit == Init => TypeOK
BY DEF Init, TypeOK, Tables, QueueRecords, States, Idle, Steps

\* A worker that is executing something executes an added job.
LEMMA Executing ==
  ASSUME TypeOK, JobsAreAdded, NEW w \in Workers, ~At(w, "idle")
  PROVE  /\ workers[w].job \in Jobs
         /\ jobs[workers[w].job] \in JobRecords
         /\ jobs[workers[w].job] # NoJob
BY DEF TypeOK, JobsAreAdded, Added

LEMMA RecordExcept ==
  ASSUME NEW r \in QueueRecords, NEW n \in Nat
  PROVE  /\ [r EXCEPT !.attempts = n] \in QueueRecords
         /\ [r EXCEPT !.stalls = n] \in QueueRecords
         /\ [r EXCEPT !.stalls = @ + 1] \in QueueRecords
BY DEF QueueRecords

LEMMA TypeStep == TypeOK /\ JobsAreAdded /\ [Next]_vars => TypeOK'
<1> SUFFICES ASSUME TypeOK, JobsAreAdded, [Next]_vars
             PROVE  TypeOK'
  OBVIOUS
<1> USE DEF TypeOK
<1>1. ASSUME NEW c \in Clients, NEW payload \in Workload, AssertExists(c, payload)
      PROVE  TypeOK'
  <2>1. payload \in Payloads
    BY WritesAssumption
  <2> QED
    BY <1>1, <2>1 DEF AssertExists
<1>2. ASSUME NEW c \in Clients, NEW p \in Payloads, NEW j \in Jobs,
             NEW t \in 0..MaxClock, Enqueue(c, p, j, t)
      PROVE  /\ jobs' \in [Jobs -> JobRecords \cup {NoJob}]
             /\ queue' \in [Jobs -> QueueRecords]
             /\ wait' \in Seq(Jobs)
             /\ clock' \in Nat
             /\ table' \in Tables
             /\ workers' \in [Workers -> [step : Steps, job : Jobs \cup {NoJob}]]
  <2>1. t \in Nat /\ t + Offset[c] \in Nat
    BY WritesAssumption
  <2>2. [name |-> p.name, id |-> p.id, fields |-> p.fields,
         timestamp |-> t + Offset[c]] \in JobRecords
    BY <2>1, PayloadRecords DEF JobRecords
  <2>3. queue' \in [Jobs -> QueueRecords]
    BY <1>2 DEF Enqueue, QueueRecords, States
  <2> QED
    BY <1>2, <2>1, <2>2, <2>3 DEF Enqueue
<1>3. ASSUME NEW c \in Clients, NEW payload \in Workload, NEW j \in Jobs,
             NEW t \in 0..MaxClock, EnqueueCreate(c, payload, j, t)
      PROVE  TypeOK'
  <2>1. payload \in Payloads
    BY WritesAssumption
  <2> QED
    BY <1>2, <1>3, <2>1 DEF EnqueueCreate
<1>4. ASSUME NEW c \in Clients, NEW j \in Jobs, NEW t \in 0..MaxClock,
             EnqueueChecked(c, j, t)
      PROVE  TypeOK'
  <2>1. requests[c] \in Payloads
    BY <1>4 DEF EnqueueChecked
  <2> QED
    BY <1>2, <1>4, <2>1 DEF EnqueueChecked
<1>5. ASSUME NEW c \in Clients, EnqueueFails(c)
      PROVE  TypeOK'
  BY <1>5 DEF EnqueueFails
<1>6. ASSUME NEW w \in Workers, Take(w)
      PROVE  TypeOK'
  <2>1. Head(wait) \in Jobs /\ Tail(wait) \in Seq(Jobs)
    BY <1>6 DEF Take
  <2>2. queue' \in [Jobs -> QueueRecords]
    <3>1. queue' = [queue EXCEPT ![Head(wait)].state = "active", ![Head(wait)].owner = w]
      BY <1>6 DEF Take
    <3>2. [queue[Head(wait)] EXCEPT !.state = "active", !.owner = w] \in QueueRecords
      BY <2>1 DEF QueueRecords, States
    <3> QED
      BY <2>1, <3>1, <3>2
  <2> QED
    BY <1>6, <2>1, <2>2 DEF Take, Steps
<1>7. ASSUME NEW w \in Workers, NEW step \in Steps, Goto(w, step)
      PROVE  workers' \in [Workers -> [step : Steps, job : Jobs \cup {NoJob}]]
  BY <1>7 DEF Goto
<1>8. ASSUME NEW w \in Workers, Write(w) \/ WriteFails(w)
      PROVE  TypeOK'
  <2>1. ~At(w, "idle")
    BY <1>8 DEF Write, WriteFails, At
  <2>2. Apply(table, workers[w].job, jobs[workers[w].job]) \in Tables
    BY <2>1, Executing, ApplyType
  <2>3. \E step \in Steps : Goto(w, step)
    BY <1>8 DEF Write, WriteFails, Steps
  <2> QED
    BY <1>7, <1>8, <2>2, <2>3 DEF Write, WriteFails
<1>9. ASSUME NEW w \in Workers, Recheck(w) \/ RecheckFails(w) \/ Invalidate(w)
      PROVE  TypeOK'
  <2>1. \E step \in Steps : Goto(w, step)
    BY <1>9 DEF Recheck, RecheckFails, Invalidate, Steps
  <2> QED
    BY <1>7, <1>9, <2>1 DEF Recheck, RecheckFails, Invalidate
<1>10. ASSUME NEW w \in Workers, NEW step \in Steps, NEW record \in QueueRecords,
              Settle(w, step, record)
       PROVE  TypeOK'
  BY <1>10 DEF Settle, Idle, Steps
<1>11. ASSUME NEW j \in Jobs, NEW state \in States
       PROVE  Released(j, state) \in QueueRecords
  BY <1>11 DEF Released, QueueRecords
<1>12. ASSUME NEW w \in Workers, Complete(w) \/ FailForGood(w) \/ FailAttempt(w)
       PROVE  TypeOK'
  <2>1. ~At(w, "idle")
    BY <1>12 DEF Complete, FailForGood, FailAttempt, Settle, At
  <2>2. workers[w].job \in Jobs
    BY <2>1, Executing
  <2>3. CASE Complete(w)
    BY <1>10, <1>11, <2>2, <2>3 DEF Complete, States, Steps
  <2>4. CASE FailForGood(w)
    BY <1>10, <1>11, <2>2, <2>4 DEF FailForGood, States, Steps
  <2>5. CASE FailAttempt(w)
    <3> DEFINE j    == workers[w].job
               made == queue[j].attempts + 1
               rec  == [Released(j, IF made < Attempts THEN "delayed" ELSE "failed")
                          EXCEPT !.attempts = made]
    <3>1. rec \in QueueRecords
      <4>1. queue[j] \in QueueRecords
        BY <2>2 DEF TypeOK
      <4>2. made \in Nat
        BY <4>1 DEF QueueRecords
      <4>3. (IF made < Attempts THEN "delayed" ELSE "failed") \in States
        BY DEF States
      <4>4. Released(j, IF made < Attempts THEN "delayed" ELSE "failed") \in QueueRecords
        BY <1>11, <2>2, <4>3
      <4> QED
        BY <4>2, <4>4, RecordExcept
    <3>2. Settle(w, "error", rec)
      BY <2>5 DEF FailAttempt
    <3> QED
      BY <1>10, <3>1, <3>2 DEF Steps
  <2> QED
    BY <1>12, <2>3, <2>4, <2>5
<1>13. ASSUME NEW w \in Workers, Crash(w)
       PROVE  TypeOK'
  BY <1>13 DEF Crash, Idle, Steps
<1>14. ASSUME NEW j \in Jobs, Promote(j)
       PROVE  TypeOK'
  <2>1. queue' \in [Jobs -> QueueRecords]
    BY <1>14 DEF Promote, QueueRecords, States
  <2> QED
    BY <1>14, <2>1 DEF Promote
<1>15. ASSUME NEW j \in Jobs, Stall(j)
       PROVE  TypeOK'
  <2>1. <<j>> \o wait \in Seq(Jobs)
    OBVIOUS
  <2>2. \A state \in States : [Released(j, state) EXCEPT !.stalls = @ + 1] \in QueueRecords
    BY <1>11, RecordExcept DEF QueueRecords
  <2>3. queue' \in [Jobs -> QueueRecords]
    BY <1>15, <2>2 DEF Stall, States
  <2> QED
    BY <1>15, <2>1, <2>3 DEF Stall
<1>16. CASE UNCHANGED vars
  BY <1>16 DEF vars
<1> QED
  BY <1>1, <1>3, <1>4, <1>5, <1>6, <1>8, <1>9, <1>12, <1>13, <1>14, <1>15, <1>16
  DEF Next, WorkerStep

-----------------------------------------------------------------------------
(* What a step does to the table and to the added jobs *)

\* A step of the write path adds one job, or executes one statement of an
\* added job, or leaves the table and the jobs alone.
AddsJob ==
  /\ table' = table
  /\ \E j \in Jobs, r \in JobRecords :
       /\ jobs[j] = NoJob
       /\ jobs' = [jobs EXCEPT ![j] = r]
       /\ r.name = "create" => "text" \in r.fields
       /\ r.name = "update" => r.fields # {}
       /\ r.name # "create" => Deleted(r.id) \/ Exists(table, r.id)

AppliesJob ==
  /\ jobs' = jobs
  /\ \E j \in Jobs :
       /\ jobs[j] \in JobRecords
       /\ Added(j)
       /\ table' = Apply(table, j, jobs[j])

LEMMA StepKinds ==
  ASSUME TypeOK, JobsAreAdded, CheckedRowsExist, [Next]_vars
  PROVE  UNCHANGED <<table, jobs>> \/ AddsJob \/ AppliesJob
<1>1. ASSUME NEW c \in Clients, NEW p \in Payloads, NEW j \in Jobs,
             NEW t \in 0..MaxClock, Enqueue(c, p, j, t),
             p.name # "create" => Deleted(p.id) \/ Exists(table, p.id)
      PROVE  AddsJob
  <2> DEFINE r == [name |-> p.name, id |-> p.id, fields |-> p.fields,
                   timestamp |-> t + Offset[c]]
  <2>1. r \in JobRecords
    BY PayloadRecords, WritesAssumption DEF JobRecords
  <2>2. r.name = p.name /\ r.id = p.id /\ r.fields = p.fields
    OBVIOUS
  <2>3. table' = table /\ jobs[j] = NoJob /\ jobs' = [jobs EXCEPT ![j] = r]
    BY <1>1 DEF Enqueue
  <2> HIDE DEF r
  <2> QED
    BY <1>1, <2>1, <2>2, <2>3, PayloadRecords DEF AddsJob
<1>2. ASSUME NEW c \in Clients, NEW payload \in Workload, NEW j \in Jobs,
             NEW t \in 0..MaxClock, EnqueueCreate(c, payload, j, t)
      PROVE  AddsJob
  BY <1>1, <1>2, WritesAssumption DEF EnqueueCreate
<1>3. ASSUME NEW c \in Clients, NEW j \in Jobs, NEW t \in 0..MaxClock,
             EnqueueChecked(c, j, t)
      PROVE  AddsJob
  BY <1>1, <1>3 DEF EnqueueChecked, CheckedRowsExist, TypeOK
<1>4. ASSUME NEW w \in Workers, Write(w) \/ WriteFails(w)
      PROVE  UNCHANGED <<table, jobs>> \/ AppliesJob
  <2>1. ~At(w, "idle")
    BY <1>4 DEF Write, WriteFails, At
  <2> QED
    BY <1>4, <2>1, Executing DEF Write, WriteFails, AppliesJob, Added
<1>5. ASSUME NEW w \in Workers,
             \/ Take(w) \/ Recheck(w) \/ RecheckFails(w) \/ Invalidate(w) \/ Crash(w)
             \/ Complete(w) \/ FailAttempt(w) \/ FailForGood(w)
      PROVE  UNCHANGED <<table, jobs>>
  BY <1>5 DEF Take, Recheck, RecheckFails, Invalidate, Crash, Complete,
              FailAttempt, FailForGood, Settle
<1> QED
  BY <1>2, <1>3, <1>4, <1>5
  DEF Next, WorkerStep, AssertExists, EnqueueFails, Promote, Stall, vars

\* Jobs are never forgotten or changed, so neither is a request to delete.
LEMMA JobsStay ==
  ASSUME TypeOK, UNCHANGED <<table, jobs>> \/ AddsJob \/ AppliesJob
  PROVE  /\ \A j \in Jobs : Added(j) => Added(j)' /\ jobs'[j] = jobs[j]
         /\ \A id \in Ids : Deleted(id) => Deleted(id)'
<1>1. \A j \in Jobs : Added(j) => Added(j)' /\ jobs'[j] = jobs[j]
  <2>1. CASE jobs' = jobs
    BY <2>1 DEF Added
  <2>2. CASE AddsJob
    <3>1. PICK k \in Jobs, r \in JobRecords :
            jobs[k] = NoJob /\ jobs' = [jobs EXCEPT ![k] = r]
      BY <2>2 DEF AddsJob
    <3> QED
      BY <3>1 DEF Added, TypeOK
  <2> QED
    BY <2>1, <2>2 DEF AppliesJob
<1> QED
  BY <1>1 DEF Deleted, JobsOf, Added

\* A row nobody asked to delete stays, never gets older, and while its
\* version stays the same no column moves away from that version.
LEMMA RowStays ==
  ASSUME TypeOK, JobsAreAdded, RowVersionIsNewestField,
         UNCHANGED <<table, jobs>> \/ AddsJob \/ AppliesJob,
         NEW id \in Ids, Exists(table, id), ~Deleted(id)
  PROVE  /\ Exists(table', id)
         /\ table'[id].updatedAt \in Nat
         /\ table'[id].updatedAt >= table[id].updatedAt
         /\ table'[id].updatedAt = table[id].updatedAt
              => \A f \in Fields : \/ WrittenAt(id, f)' = WrittenAt(id, f)
                                   \/ WrittenAt(id, f)' = table[id].updatedAt
<1>1. /\ table[id] \in Rows
      /\ table[id].updatedAt \in Nat
      /\ \A f \in Fields : table[id].writer[f] \in Jobs \cup {NoJob}
      /\ \A f \in Fields : table[id].writer[f] # NoJob => Added(table[id].writer[f])
  BY DEF TypeOK, Tables, Rows, Exists, JobsAreAdded
<1>2. \A f \in Fields : table[id].writer[f] # NoJob
        => jobs'[table[id].writer[f]] = jobs[table[id].writer[f]]
  BY <1>1, JobsStay, StoreAssumption
<1>3. CASE table'[id] = table[id]
  BY <1>1, <1>2, <1>3 DEF WrittenAt, Exists
<1>4. CASE AppliesJob /\ table'[id] # table[id]
  <2>1. PICK j \in Jobs : /\ jobs' = jobs
                          /\ jobs[j] \in JobRecords
                          /\ Added(j)
                          /\ table' = Apply(table, j, jobs[j])
    BY <1>4 DEF AppliesJob
  <2>2. jobs[j].id = id
    BY <1>4, <2>1, ApplyElsewhere DEF TypeOK
  <2>3. jobs[j].name # "delete"
    BY <2>1, <2>2 DEF Deleted, JobsOf
  <2>4. jobs[j].name # "create"
    BY <1>4, <2>1, <2>2 DEF Apply, CreateIfAbsent
  <2>5. jobs[j].name = "update" /\ NotNewer(table, jobs[j])
    BY <1>4, <2>1, <2>3, <2>4 DEF Apply, UpdateMany, JobRecords, Names
  <2>6. /\ Exists(table', id)
        /\ table'[id].updatedAt = jobs[j].timestamp
        /\ \A f \in Fields : table'[id].writer[f] =
             IF f \in jobs[j].fields THEN j ELSE table[id].writer[f]
    BY <2>1, <2>2, <2>5, UpdatedColumns DEF TypeOK
  <2>7. jobs[j].timestamp \in Nat /\ table[id].updatedAt <= jobs[j].timestamp
    BY <2>1, <2>2, <2>5 DEF NotNewer, JobRecords
  <2>8. \A f \in Fields : \/ WrittenAt(id, f)' = WrittenAt(id, f)
                          \/ WrittenAt(id, f)' = jobs[j].timestamp
    BY <2>1, <2>6, StoreAssumption DEF WrittenAt
  <2> QED
    BY <1>1, <2>6, <2>7, <2>8
<1> QED
  BY <1>3, <1>4 DEF AddsJob

\* Hence an update the row holds stays held, one older than the row stays so.
LEMMA StandsStay ==
  ASSUME TypeOK, JobsAreAdded, RowVersionIsNewestField,
         UNCHANGED <<table, jobs>> \/ AddsJob \/ AppliesJob,
         NEW j \in Jobs, Added(j), ~Deleted(jobs[j].id)'
  PROVE  /\ Stands(j) => Stands(j)'
         /\ Newer(j) => Newer(j)'
<1> DEFINE id == jobs[j].id
<1>1. /\ jobs[j] \in JobRecords /\ id \in Ids /\ jobs[j].timestamp \in Nat
      /\ jobs[j].fields \subseteq Fields
  BY DEF TypeOK, Added, JobRecords
<1>2. jobs'[j] = jobs[j] /\ ~Deleted(id)
  BY <1>1, JobsStay
<1>3. ASSUME Exists(table, id)
      PROVE  /\ Exists(table', id)
             /\ table[id].updatedAt \in Nat
             /\ table'[id].updatedAt \in Nat
             /\ table'[id].updatedAt >= table[id].updatedAt
             /\ table'[id].updatedAt = table[id].updatedAt
                  => \A f \in Fields : \/ WrittenAt(id, f)' = WrittenAt(id, f)
                                       \/ WrittenAt(id, f)' = table[id].updatedAt
  BY <1>1, <1>2, <1>3, RowStays DEF TypeOK, Tables, Rows, Exists
<1> HIDE DEF id
<1>4. Newer(j) => Newer(j)'
  BY <1>1, <1>2, <1>3 DEF Newer, id
<1>5. ASSUME Stands(j)
      PROVE  Stands(j)'
  <2>1. Exists(table, id)
    BY <1>5 DEF Stands, id
  <2>2. CASE table'[id].updatedAt > jobs[j].timestamp
    BY <1>2, <1>3, <2>1, <2>2 DEF Stands, id
  <2>3. CASE ~(table'[id].updatedAt > jobs[j].timestamp)
    <3>1. /\ table[id].updatedAt = jobs[j].timestamp
          /\ table'[id].updatedAt = jobs[j].timestamp
          /\ \A f \in jobs[j].fields : WrittenAt(id, f) = jobs[j].timestamp
      BY <1>1, <1>3, <1>5, <2>1, <2>3 DEF Stands, id
    <3>2. \A f \in jobs[j].fields : WrittenAt(id, f)' = jobs[j].timestamp
      BY <1>1, <1>3, <2>1, <3>1
    <3> QED
      BY <1>2, <1>3, <2>1, <3>1, <3>2 DEF Stands, id
  <2> QED
    BY <2>2, <2>3
<1> QED
  BY <1>4, <1>5

-----------------------------------------------------------------------------
(* Each part of the invariant is preserved *)

LEMMA VersionStep ==
  ASSUME IInv, UNCHANGED <<table, jobs>> \/ AddsJob \/ AppliesJob
  PROVE  RowVersionIsNewestField'
<1> USE DEF IInv
<1>1. /\ \A j \in Jobs : Added(j) => Added(j)' /\ jobs'[j] = jobs[j]
      /\ \A j \in Jobs : Added(j) => jobs[j] \in JobRecords /\ jobs[j].timestamp \in Nat
  BY JobsStay DEF TypeOK, Added, JobRecords
<1> SUFFICES ASSUME NEW id \in Ids, Exists(table', id)
             PROVE  /\ \A f \in Fields : WrittenAt(id, f)' <= table'[id].updatedAt
                    /\ \E f \in Fields : /\ table'[id].writer[f] # NoJob
                                         /\ WrittenAt(id, f)' = table'[id].updatedAt
  BY DEF RowVersionIsNewestField, Exists
<1>2. Exists(table, id) =>
        /\ table[id].updatedAt \in Nat
        /\ \A f \in Fields : table[id].writer[f] # NoJob
             => table[id].writer[f] \in Jobs /\ Added(table[id].writer[f])
        /\ \A f \in Fields : WrittenAt(id, f) <= table[id].updatedAt
        /\ \E f \in Fields : /\ table[id].writer[f] # NoJob
                             /\ WrittenAt(id, f) = table[id].updatedAt
  BY DEF TypeOK, Tables, Rows, Exists, JobsAreAdded, RowVersionIsNewestField
<1>4. CASE table'[id] = table[id]
  <2>1. Exists(table, id)
    BY <1>4 DEF Exists
  <2>2. \A f \in Fields : WrittenAt(id, f)' = WrittenAt(id, f)
    BY <1>1, <1>2, <1>4, <2>1 DEF WrittenAt
  <2> QED
    BY <1>2, <1>4, <2>1, <2>2
<1>5. CASE table'[id] # table[id]
  <2>1. PICK j \in Jobs : /\ jobs' = jobs
                          /\ jobs[j] \in JobRecords
                          /\ Added(j)
                          /\ table' = Apply(table, j, jobs[j])
    BY <1>5 DEF AppliesJob, AddsJob
  <2>2. jobs[j].id = id /\ table \in Tables
    BY <1>5, <2>1, ApplyElsewhere DEF TypeOK
  <2>3. \A f \in Fields : WrittenAt(id, f)' =
          IF table'[id].writer[f] = NoJob
          THEN 0 ELSE jobs[table'[id].writer[f]].timestamp
    BY <2>1 DEF WrittenAt
  <2>4. CASE jobs[j].name = "create"
    <3>1. ~Exists(table, id)
      BY <1>5, <2>1, <2>2, <2>4 DEF Apply, CreateIfAbsent
    <3>2. /\ table'[id].updatedAt = jobs[j].timestamp
          /\ \A f \in Fields : table'[id].writer[f] =
               IF f \in jobs[j].fields THEN j ELSE NoJob
      BY <2>1, <2>2, <2>4, <3>1, CreatedColumns
    <3>3. "text" \in jobs[j].fields /\ "text" \in Fields
      BY <2>1, <2>4 DEF JobsAreAdded, Fields
    <3> QED
      BY <1>1, <2>1, <2>3, <3>2, <3>3, StoreAssumption
  <2>5. CASE jobs[j].name = "update"
    <3>1. NotNewer(table, jobs[j])
      BY <1>5, <2>1, <2>5 DEF Apply, UpdateMany
    <3>2. /\ table'[id].updatedAt = jobs[j].timestamp
          /\ \A f \in Fields : table'[id].writer[f] =
               IF f \in jobs[j].fields THEN j ELSE table[id].writer[f]
      BY <2>1, <2>2, <2>5, <3>1, UpdatedColumns
    <3>3. PICK f \in Fields : f \in jobs[j].fields
      BY <2>1, <2>5 DEF JobsAreAdded, JobRecords
    <3>4. Exists(table, id) /\ table[id].updatedAt <= jobs[j].timestamp
      BY <2>2, <3>1 DEF NotNewer
    <3>5. \A g \in Fields : WrittenAt(id, g)' = IF g \in jobs[j].fields
                                                THEN jobs[j].timestamp
                                                ELSE WrittenAt(id, g)
      BY <2>3, <3>2, StoreAssumption DEF WrittenAt
    <3>6. \A g \in Fields : WrittenAt(id, g) \in Nat
      BY <1>1, <1>2, <3>4 DEF WrittenAt
    <3> QED
      BY <1>1, <1>2, <2>1, <3>2, <3>3, <3>4, <3>5, <3>6, StoreAssumption
  <2>6. CASE jobs[j].name = "delete"
    BY <2>1, <2>2, <2>6 DEF Apply, DeleteMany, Exists, Tables
  <2> QED
    BY <2>1, <2>4, <2>5, <2>6 DEF JobRecords, Names
<1> QED
  BY <1>4, <1>5

LEMMA CompletedFrom ==
  ASSUME TypeOK, JobsAreAdded, [Next]_vars, NEW j \in Jobs,
         queue'[j].state = "completed"
  PROVE  \/ queue[j].state = "completed"
         \/ \E w \in Workers : At(w, "done") /\ workers[w].job = j
<1> SUFFICES ASSUME queue[j].state # "completed"
             PROVE  \E w \in Workers : At(w, "done") /\ workers[w].job = j
  OBVIOUS
<1>1. queue' # queue
  OBVIOUS
<1>3. ASSUME NEW w \in Workers, FailForGood(w) \/ FailAttempt(w)
      PROVE  FALSE
  <2>1. ~At(w, "idle") /\ workers[w].job \in Jobs
    BY <1>3, Executing DEF FailForGood, FailAttempt, Settle, At
  <2>2. workers[w].job = j /\ queue[j].owner = w
    BY <1>3, <2>1 DEF FailForGood, FailAttempt, Settle, TypeOK
  <2>3. queue[j] \in QueueRecords
    BY DEF TypeOK
  <2>4. queue'[j].state \in {"delayed", "failed"}
    <3>1. \A state \in States, n \in Nat :
            /\ Released(j, state).state = state
            /\ [Released(j, state) EXCEPT !.attempts = n].state = state
      BY <2>3 DEF Released, QueueRecords
    <3>2. queue[j].attempts + 1 \in Nat
      BY <2>3 DEF QueueRecords
    <3>3. CASE FailForGood(w)
      <4>1. queue' = [queue EXCEPT ![j] = Released(j, "failed")]
        BY <2>2, <3>3 DEF FailForGood, Settle
      <4> QED
        BY <3>1, <3>2, <4>1 DEF TypeOK, States
    <3>4. CASE FailAttempt(w)
      <4> DEFINE made == queue[j].attempts + 1
                 rec  == [Released(j, IF made < Attempts THEN "delayed" ELSE "failed")
                            EXCEPT !.attempts = made]
      <4>1. queue' = [queue EXCEPT ![j] = rec]
        BY <2>2, <3>4 DEF FailAttempt, Settle
      <4>2. rec.state \in {"delayed", "failed"}
        BY <3>1, <3>2 DEF States
      <4> HIDE DEF rec
      <4> QED
        BY <4>1, <4>2 DEF TypeOK
    <3> QED
      BY <1>3, <3>3, <3>4
  <2> QED
    BY <2>4
<1>4. ASSUME NEW w \in Workers, Complete(w)
      PROVE  At(w, "done") /\ workers[w].job = j
  <2>1. ~At(w, "idle") /\ workers[w].job \in Jobs /\ At(w, "done")
    BY <1>4, Executing DEF Complete, Settle, At
  <2> QED
    BY <1>4, <2>1 DEF Complete, Settle, TypeOK
<1>5. ASSUME NEW c \in Clients, NEW p \in Payloads, NEW k \in Jobs,
             NEW t \in 0..MaxClock, Enqueue(c, p, k, t)
      PROVE  FALSE
  BY <1>5 DEF Enqueue, TypeOK, QueueRecords
<1>6. ASSUME NEW w \in Workers, Take(w)
      PROVE  FALSE
  BY <1>6 DEF Take, TypeOK, QueueRecords
<1>7. ASSUME NEW k \in Jobs, Promote(k) \/ Stall(k)
      PROVE  FALSE
  BY <1>7 DEF Promote, Stall, Released, TypeOK, QueueRecords
<1>8. \A p \in Workload : p \in Payloads
  BY WritesAssumption
<1>9. \A c \in Clients : requests[c] # NoRequest => requests[c] \in Payloads
  BY DEF TypeOK
<1> QED
  BY <1>1, <1>3, <1>4, <1>5, <1>6, <1>7, <1>8, <1>9
  DEF Next, WorkerStep, AssertExists, EnqueueCreate, EnqueueChecked, EnqueueFails,
      Write, WriteFails, Recheck, RecheckFails, Invalidate, Crash, vars

LEMMA FirstWaiting ==
  ASSUME TypeOK, JobsAreAdded, wait # <<>>
  PROVE  /\ Head(wait) \in Jobs /\ Added(Head(wait))
         /\ \A i \in 1..Len(Tail(wait)) : Tail(wait)[i] \in Jobs /\ Added(Tail(wait)[i])
<1>1. wait \in Seq(Jobs) /\ Len(wait) \in Nat /\ Len(wait) # 0
  BY DEF TypeOK
<1>2. \A i \in 1..Len(wait) : wait[i] \in Jobs /\ Added(wait[i])
  BY <1>1 DEF JobsAreAdded
<1>3. Head(wait) = wait[1] /\ 1 \in 1..Len(wait)
  BY <1>1
<1>4. Len(Tail(wait)) = Len(wait) - 1
      /\ \A i \in 1..Len(Tail(wait)) : Tail(wait)[i] = wait[i + 1]
  BY <1>1
<1>5. \A i \in 1..Len(Tail(wait)) : i + 1 \in 1..Len(wait)
  BY <1>1, <1>4
<1> QED
  BY <1>2, <1>3, <1>4, <1>5

\* What a step does to one worker.
LEMMA WorkerMoves ==
  ASSUME TypeOK, [Next]_vars, NEW w \in Workers
  PROVE  \/ workers'[w] = workers[w]
         \/ workers'[w] = Idle
         \/ Take(w)
         \/ Write(w) \/ WriteFails(w) \/ Recheck(w) \/ RecheckFails(w) \/ Invalidate(w)
<1>1. ASSUME NEW v \in Workers, v # w,
             Take(v) \/ WorkerStep(v) \/ Crash(v)
      PROVE  workers'[w] = workers[w]
  BY <1>1 DEF Take, WorkerStep, Write, WriteFails, Recheck, RecheckFails, Invalidate,
              Complete, FailAttempt, FailForGood, Settle, Crash, Goto, TypeOK
<1>2. CASE Complete(w) \/ FailAttempt(w) \/ FailForGood(w) \/ Crash(w)
  BY <1>2 DEF Complete, FailAttempt, FailForGood, Settle, Crash, TypeOK
<1>3. CASE workers' = workers
  BY <1>3
<1> QED
  BY <1>1, <1>2, <1>3
  DEF Next, WorkerStep, AssertExists, EnqueueCreate, EnqueueChecked, Enqueue,
      EnqueueFails, Promote, Stall, vars

LEMMA AddedStep ==
  ASSUME IInv, [Next]_vars
  PROVE  JobsAreAdded'
<1> USE DEF IInv
<1>1. UNCHANGED <<table, jobs>> \/ AddsJob \/ AppliesJob
  BY StepKinds
<1>2. /\ \A j \in Jobs : Added(j) => Added(j)' /\ jobs'[j] = jobs[j]
      /\ \A j \in Jobs : Added(j) => jobs[j] \in JobRecords
  BY <1>1, JobsStay DEF TypeOK, Added
<1>3. TypeOK'
  BY TypeStep
<1>4. \A p \in Workload : p \in Payloads
  BY WritesAssumption
<1>5. \A c \in Clients : requests[c] # NoRequest => requests[c] \in Payloads
  BY DEF TypeOK
<1>6. \A w \in Workers : ~At(w, "idle")
        => workers[w].job \in Jobs /\ Added(workers[w].job)
  BY DEF JobsAreAdded
<1>7. \A j \in Jobs : Added(j)' =>
        /\ jobs'[j].name = "create" => "text" \in jobs'[j].fields
        /\ jobs'[j].name = "update" => jobs'[j].fields # {}
  <2>1. CASE jobs' = jobs
    BY <2>1 DEF JobsAreAdded, Added
  <2>2. CASE AddsJob
    BY <2>2 DEF AddsJob, JobsAreAdded, Added, TypeOK
  <2> QED
    BY <1>1, <2>1, <2>2 DEF AppliesJob
<1>8. ASSUME NEW c \in Clients, NEW p \in Payloads, NEW k \in Jobs,
             NEW t \in 0..MaxClock, Enqueue(c, p, k, t)
      PROVE  /\ Added(k)'
             /\ \A j \in Jobs : queue'[j].state # "none" => Added(j)'
             /\ \A i \in 1..Len(wait') : jobs'[wait'[i]] # NoJob
  <2>1. Added(k)'
    <3> DEFINE r == [name |-> p.name, id |-> p.id, fields |-> p.fields,
                     timestamp |-> t + Offset[c]]
    <3>1. r \in JobRecords
      BY PayloadRecords, WritesAssumption DEF JobRecords
    <3>2. r # NoJob
      BY <3>1, StoreAssumption
    <3>3. jobs' = [jobs EXCEPT ![k] = r]
      BY <1>8 DEF Enqueue
    <3> HIDE DEF r
    <3> QED
      BY <3>2, <3>3 DEF Added, TypeOK
  <2>2. \A j \in Jobs : queue'[j].state # "none" => j = k \/ queue[j].state # "none"
    BY <1>8 DEF Enqueue, TypeOK
  <2>3. \A i \in 1..Len(wait') : wait'[i] = k \/ (i \in 1..Len(wait) /\ wait'[i] = wait[i])
    BY <1>8 DEF Enqueue, TypeOK
  <2>4. \A i \in 1..Len(wait) : wait[i] \in Jobs
    BY DEF TypeOK
  <2> QED
    BY <1>2, <2>1, <2>2, <2>3, <2>4 DEF JobsAreAdded, Added
<1>9. \A j \in Jobs : queue'[j].state # "none" => Added(j)'
  <2>1. ASSUME NEW w \in Workers, Take(w)
        PROVE  \A j \in Jobs : queue'[j].state # "none" => Added(j)
    <3>1. Head(wait) \in Jobs /\ Added(Head(wait))
      BY <2>1, FirstWaiting DEF Take
    <3> QED
      BY <2>1, <3>1 DEF Take, TypeOK, JobsAreAdded
  <2>2. ASSUME NEW w \in Workers, Complete(w) \/ FailAttempt(w) \/ FailForGood(w)
        PROVE  \A j \in Jobs : queue'[j].state # "none" => Added(j)
    <3>1. workers[w].job \in Jobs /\ Added(workers[w].job)
      BY <1>6, <2>2 DEF Complete, FailAttempt, FailForGood, Settle, At
    <3>2. \A j \in Jobs : j # workers[w].job => queue'[j] = queue[j]
      BY <2>2, <3>1 DEF Complete, FailAttempt, FailForGood, Settle, TypeOK
    <3> QED
      BY <3>1, <3>2 DEF JobsAreAdded
  <2>3. ASSUME NEW k \in Jobs, Promote(k) \/ Stall(k)
        PROVE  \A j \in Jobs : queue'[j].state # "none" => Added(j)
    <3>1. Added(k)
      BY <2>3 DEF Promote, Stall, JobsAreAdded
    <3>2. \A j \in Jobs : j # k => queue'[j] = queue[j]
      BY <2>3 DEF Promote, Stall, TypeOK
    <3> QED
      BY <3>1, <3>2 DEF JobsAreAdded
  <2>4. CASE queue' = queue
    BY <1>2, <2>4 DEF JobsAreAdded
  <2> QED
    BY <1>2, <1>4, <1>5, <1>8, <2>1, <2>2, <2>3, <2>4
    DEF Next, WorkerStep, AssertExists, EnqueueCreate, EnqueueChecked, EnqueueFails,
        Write, WriteFails, Recheck, RecheckFails, Invalidate, Crash, vars
<1>10. \A i \in 1..Len(wait') : jobs'[wait'[i]] # NoJob
  <2>1. ASSUME NEW w \in Workers, Take(w)
        PROVE  \A i \in 1..Len(wait') : wait'[i] \in Jobs /\ Added(wait'[i])
    BY <2>1, FirstWaiting DEF Take
  <2>2. ASSUME NEW k \in Jobs, Promote(k) \/ Stall(k)
        PROVE  \A i \in 1..Len(wait') : wait'[i] \in Jobs /\ Added(wait'[i])
    <3>1. Added(k)
      BY <2>2 DEF Promote, Stall, JobsAreAdded
    <3>2. wait' \in {wait, Append(wait, k), <<k>> \o wait}
      BY <2>2 DEF Promote, Stall
    <3>3. CASE wait' = wait
      BY <3>3 DEF TypeOK, JobsAreAdded
    <3>4. CASE wait' = Append(wait, k)
      BY <3>1, <3>4 DEF TypeOK, JobsAreAdded
    <3>5. CASE wait' = <<k>> \o wait
      <4>1. /\ Len(wait') = Len(wait) + 1
            /\ \A i \in 1..Len(wait') : wait'[i] = IF i = 1 THEN k ELSE wait[i - 1]
        BY <3>5 DEF TypeOK
      <4>2. \A i \in 1..Len(wait) : wait[i] \in Jobs /\ Added(wait[i])
        BY DEF TypeOK, JobsAreAdded
      <4>3. Len(wait) \in Nat
        BY DEF TypeOK
      <4>4. \A i \in 1..Len(wait') : i = 1 \/ i - 1 \in 1..Len(wait)
        BY <4>1, <4>3
      <4> QED
        BY <3>1, <4>1, <4>2, <4>4
    <3> QED
      BY <3>2, <3>3, <3>4, <3>5
  <2>3. CASE wait' = wait
    BY <1>2, <2>3 DEF JobsAreAdded, TypeOK, Added
  <2> QED
    BY <1>2, <1>4, <1>5, <1>8, <2>1, <2>2, <2>3
    DEF Added, Next, WorkerStep, AssertExists, EnqueueCreate, EnqueueChecked, EnqueueFails,
        Write, WriteFails, Recheck, RecheckFails, Invalidate, Complete, FailAttempt,
        FailForGood, Settle, Crash, vars
<1>11. ASSUME NEW w \in Workers
       PROVE  /\ ~At(w, "idle")' => workers'[w].job \in Jobs /\ jobs'[workers'[w].job] # NoJob
              /\ At(w, "recheck")' => jobs'[workers'[w].job].name = "update"
  <2>1. CASE workers'[w] = workers[w]
    BY <1>2, <2>1 DEF At, JobsAreAdded, Added
  <2>2. CASE Take(w)
    <3>1. Head(wait) \in Jobs /\ Added(Head(wait))
      BY <2>2, FirstWaiting DEF Take
    <3>2. workers'[w] = [step |-> "write", job |-> Head(wait)]
      BY <2>2 DEF Take, TypeOK
    <3> QED
      BY <1>2, <3>1, <3>2 DEF At, Added
  <2>3. CASE workers'[w] = Idle
    BY <2>3 DEF At, Idle
  <2>4. CASE Write(w) \/ WriteFails(w) \/ Recheck(w) \/ RecheckFails(w) \/ Invalidate(w)
    <3>1. workers'[w].job = workers[w].job /\ ~At(w, "idle")
      BY <2>4 DEF Write, WriteFails, Recheck, RecheckFails, Invalidate, Goto, At, TypeOK
    <3>2. workers'[w].job \in Jobs /\ Added(workers[w].job)
      BY <1>6, <3>1
    <3>3. At(w, "recheck")' => Write(w) /\ jobs[workers[w].job].name = "update"
      BY <2>4 DEF Write, WriteFails, Recheck, RecheckFails, Invalidate, Goto, At, TypeOK
    <3> QED
      BY <1>2, <3>1, <3>2, <3>3 DEF Added
  <2> QED
    BY <2>1, <2>2, <2>3, <2>4, WorkerMoves
<1>12. ASSUME NEW id \in Ids, NEW f \in Fields, Exists(table', id),
              table'[id].writer[f] # NoJob
       PROVE  jobs'[table'[id].writer[f]] # NoJob
  <2>1. CASE table'[id] = table[id]
    <3>1. Exists(table, id) /\ table[id].writer[f] \in Jobs
      BY <1>12, <2>1 DEF Exists, TypeOK, Tables, Rows
    <3> QED
      BY <1>2, <1>12, <2>1, <3>1 DEF JobsAreAdded, Added
  <2>2. CASE table'[id] # table[id]
    <3>1. PICK j \in Jobs : /\ jobs' = jobs
                            /\ jobs[j] \in JobRecords
                            /\ Added(j)
                            /\ table' = Apply(table, j, jobs[j])
      BY <1>1, <2>2 DEF AppliesJob, AddsJob
    <3>2. jobs[j].id = id /\ table \in Tables
      BY <2>2, <3>1, ApplyElsewhere DEF TypeOK
    <3>3. CASE jobs[j].name = "create"
      <4>1. ~Exists(table, id)
        BY <2>2, <3>1, <3>2, <3>3 DEF Apply, CreateIfAbsent
      <4>2. table'[id].writer[f] \in {j, NoJob}
        BY <3>1, <3>2, <3>3, <4>1, CreatedColumns
      <4> QED
        BY <1>2, <1>12, <3>1, <4>2 DEF Added
    <3>4. CASE jobs[j].name = "update"
      <4>1. NotNewer(table, jobs[j])
        BY <2>2, <3>1, <3>4 DEF Apply, UpdateMany
      <4>2. table'[id].writer[f] \in {j, table[id].writer[f]}
        BY <3>1, <3>2, <3>4, <4>1, UpdatedColumns
      <4>3. Exists(table, id) /\ table[id].writer[f] \in Jobs \cup {NoJob}
        BY <3>2, <4>1 DEF NotNewer, Exists, Tables, Rows
      <4> QED
        BY <1>2, <1>12, <3>1, <4>2, <4>3 DEF JobsAreAdded, Added
    <3>5. CASE jobs[j].name = "delete"
      BY <1>12, <3>1, <3>2, <3>5 DEF Apply, DeleteMany, Exists, Tables
    <3> QED
      BY <3>1, <3>3, <3>4, <3>5 DEF JobRecords, Names
  <2> QED
    BY <2>1, <2>2
<1> QED
  BY <1>7, <1>9, <1>10, <1>11, <1>12 DEF JobsAreAdded, Exists, Added

LEMMA CheckedStep ==
  ASSUME IInv, [Next]_vars
  PROVE  CheckedRowsExist'
<1> USE DEF IInv
<1>1. UNCHANGED <<table, jobs>> \/ AddsJob \/ AppliesJob
  BY StepKinds
<1>2. ASSUME NEW id \in Ids, Deleted(id) \/ Exists(table, id)
      PROVE  Deleted(id)' \/ Exists(table', id)
  BY <1>1, <1>2, JobsStay, RowStays
<1>3. ASSUME NEW c \in Clients, requests'[c] # NoRequest
      PROVE  /\ requests'[c].id \in Ids
             /\ Deleted(requests'[c].id) \/ Exists(table, requests'[c].id)
  <2>1. CASE requests'[c] = requests[c]
    BY <1>3, <2>1, PayloadRecords DEF CheckedRowsExist, TypeOK
  <2>2. ASSUME NEW d \in Clients, NEW payload \in Workload, AssertExists(d, payload)
        PROVE  requests'[c] = requests[c] \/ (requests'[c] = payload /\ Exists(table, payload.id))
    BY <2>2 DEF AssertExists, TypeOK
  <2>3. ASSUME NEW d \in Clients, requests' = [requests EXCEPT ![d] = NoRequest]
        PROVE  requests'[c] = requests[c]
    BY <1>3, <2>3 DEF TypeOK
  <2>4. CASE requests' = requests
    BY <2>1, <2>4
  <2>5. \A p \in Workload : p \in Payloads /\ p.id \in Ids
    BY WritesAssumption, PayloadRecords
  <2> QED
    BY <2>1, <2>2, <2>3, <2>4, <2>5
    DEF Next, WorkerStep, EnqueueCreate, EnqueueChecked, EnqueueFails, Take, Write,
        WriteFails, Recheck, RecheckFails, Invalidate, Complete, FailAttempt,
        FailForGood, Settle, Crash, Promote, Stall, vars
<1>4. ASSUME NEW j \in Jobs, jobs'[j] # NoJob, jobs'[j].name # "create"
      PROVE  /\ jobs'[j].id \in Ids
             /\ Deleted(jobs'[j].id) \/ Exists(table, jobs'[j].id)
  <2>1. CASE jobs'[j] = jobs[j]
    BY <1>4, <2>1 DEF CheckedRowsExist, Added, TypeOK, JobRecords
  <2>2. CASE AddsJob
    BY <1>4, <2>1, <2>2 DEF AddsJob, TypeOK, JobRecords
  <2> QED
    BY <1>1, <2>1, <2>2 DEF AppliesJob
<1>5. \A c \in Clients : requests'[c] # NoRequest
        => Deleted(requests[c].id)' \/ Exists(table', requests'[c].id)
  BY <1>2, <1>3 DEF Deleted, JobsOf, Added
<1>6. \A j \in Jobs : jobs'[j] # NoJob /\ jobs'[j].name # "create"
        => Deleted(jobs[j].id)' \/ Exists(table', jobs'[j].id)
  BY <1>2, <1>4 DEF Deleted, JobsOf, Added
<1> QED
  BY <1>5, <1>6 DEF CheckedRowsExist, Added, Exists

LEMMA WorkersStep ==
  ASSUME IInv, [Next]_vars
  PROVE  WorkersStand'
<1> USE DEF IInv
<1>1. UNCHANGED <<table, jobs>> \/ AddsJob \/ AppliesJob
  BY StepKinds
<1> SUFFICES ASSUME NEW w \in Workers,
                    ~At(w, "idle")',
                    jobs'[workers'[w].job].name = "update",
                    ~Deleted(jobs[workers[w].job].id)'
             PROVE  /\ (At(w, "invalidate") \/ At(w, "done"))' => Stands(workers[w].job)'
                    /\ At(w, "recheck")' => Newer(workers[w].job)'
  BY DEF WorkersStand, At, Stands, Newer
<1>2. CASE workers'[w] = Idle
  BY <1>2 DEF Idle, At
<1>3. CASE Take(w)
  BY <1>3 DEF Take, At, TypeOK
<1>4. CASE ~At(w, "idle") /\ workers'[w].job = workers[w].job
  <2>1. PICK j \in Jobs : j = workers[w].job
    BY <1>4, Executing
  <2>2. /\ Added(j) /\ jobs[j] \in JobRecords /\ jobs'[j] = jobs[j]
        /\ workers'[w].job = j
    BY <1>1, <1>4, <2>1, JobsStay, Executing DEF JobsAreAdded
  <2>3. jobs[j].name = "update" /\ jobs[j].id \in Ids
    BY <2>2 DEF JobRecords
  <2>4. ~Deleted(jobs[j].id)'
    BY <2>2 DEF Deleted, JobsOf, Added
  <2>5. ~Deleted(jobs[j].id)
    BY <1>1, <2>2, <2>3, <2>4, JobsStay DEF Deleted, JobsOf, Added
  <2>6. /\ Stands(j) => Stands(j)'
        /\ Newer(j) => Newer(j)'
    BY <1>1, <2>2, <2>4, StandsStay
  <2>7. /\ At(w, "invalidate") \/ At(w, "done") => Stands(j)
        /\ At(w, "recheck") => Newer(j)
    BY <1>4, <2>1, <2>3, <2>5 DEF WorkersStand
  <2>8. CASE workers'[w] = workers[w]
    BY <2>2, <2>6, <2>7, <2>8 DEF At, Stands, Newer
  <2>9. CASE Write(w)
    <3>1. /\ table' = Apply(table, j, jobs[j]) /\ jobs' = jobs
          /\ workers'[w].step = IF ~NotNewer(table, jobs[j])
                                THEN "recheck" ELSE "invalidate"
      BY <1>4, <2>1, <2>3, <2>9 DEF Write, Goto, TypeOK
    <3>2. CASE NotNewer(table, jobs[j])
      <4>1. /\ Exists(table', jobs[j].id)
            /\ table'[jobs[j].id].updatedAt = jobs[j].timestamp
            /\ \A f \in Fields : table'[jobs[j].id].writer[f] =
                 IF f \in jobs[j].fields THEN j ELSE table[jobs[j].id].writer[f]
        BY <2>2, <2>3, <3>1, <3>2, UpdatedColumns DEF TypeOK
      <4>2. \A f \in jobs[j].fields : WrittenAt(jobs[j].id, f)' = jobs[j].timestamp
        BY <2>2, <3>1, <4>1, StoreAssumption DEF WrittenAt, JobRecords
      <4>3. Stands(j)'
        BY <3>1, <4>1, <4>2 DEF Stands, Exists
      <4> QED
        BY <2>2, <3>1, <3>2, <4>3 DEF At, Stands
    <3>3. CASE ~NotNewer(table, jobs[j])
      <4>1. table' = table
        BY <2>3, <3>1, <3>3 DEF Apply, UpdateMany
      <4>2. Exists(table, jobs[j].id)
        BY <2>2, <2>3, <2>5 DEF CheckedRowsExist
      <4>3. /\ table[jobs[j].id].updatedAt \in Nat
            /\ jobs[j].timestamp \in Nat
        BY <2>2, <2>3, <4>2 DEF TypeOK, Tables, Rows, Exists, JobRecords
      <4>4. table[jobs[j].id].updatedAt > jobs[j].timestamp
        BY <3>3, <4>2, <4>3 DEF NotNewer
      <4>5. Newer(j)'
        BY <3>1, <4>1, <4>2, <4>4 DEF Newer, Exists
      <4> QED
        BY <2>2, <3>1, <3>3, <4>5 DEF At, Newer
    <3> QED
      BY <3>2, <3>3
  <2>10. CASE Recheck(w)
    <3>1. workers'[w].step \in {"done", "unrecoverable"} /\ At(w, "recheck")
      BY <2>10 DEF Recheck, Goto, TypeOK
    <3>2. Newer(j)'
      BY <2>6, <2>7, <3>1
    <3>3. Stands(j)'
      BY <3>2 DEF Newer, Stands
    <3> QED
      BY <2>2, <3>1, <3>3 DEF At, Stands
  <2>11. CASE Invalidate(w)
    <3>1. workers'[w].step = "done" /\ At(w, "invalidate")
      BY <2>11 DEF Invalidate, Goto, TypeOK
    <3>2. Stands(j)'
      BY <2>6, <2>7, <3>1
    <3> QED
      BY <2>2, <3>1, <3>2 DEF At, Stands
  <2>12. CASE WriteFails(w) \/ RecheckFails(w)
    BY <2>12 DEF WriteFails, RecheckFails, Goto, At, TypeOK
  <2> QED
    BY <1>2, <1>3, <2>8, <2>9, <2>10, <2>11, <2>12, WorkerMoves
<1>5. \/ workers'[w] = workers[w]
      \/ Write(w) \/ WriteFails(w) \/ Recheck(w) \/ RecheckFails(w) \/ Invalidate(w)
      => ~At(w, "idle") /\ workers'[w].job = workers[w].job
  BY DEF Write, WriteFails, Recheck, RecheckFails, Invalidate, Goto, At, TypeOK
<1> QED
  BY <1>2, <1>3, <1>4, <1>5, WorkerMoves

LEMMA CompletedStep ==
  ASSUME IInv, [Next]_vars
  PROVE  CompletedUpdateStands'
<1> USE DEF IInv
<1>1. UNCHANGED <<table, jobs>> \/ AddsJob \/ AppliesJob
  BY StepKinds
<1> SUFFICES ASSUME NEW j \in Jobs,
                    queue'[j].state = "completed",
                    jobs'[j].name = "update",
                    ~Deleted(jobs[j].id)'
             PROVE  Stands(j)'
  BY DEF CompletedUpdateStands, Deleted
<1>2. \/ queue[j].state = "completed"
      \/ \E w \in Workers : At(w, "done") /\ workers[w].job = j
  BY CompletedFrom
<1>3. Added(j) /\ jobs[j] \in JobRecords
  BY <1>2 DEF JobsAreAdded, At, TypeOK, Added
<1>4. jobs'[j] = jobs[j] /\ jobs[j].name = "update" /\ jobs[j].id \in Ids
  BY <1>1, <1>3, JobsStay DEF JobRecords
<1>5. ~Deleted(jobs[j].id)
  BY <1>1, <1>4, JobsStay DEF Deleted, JobsOf, Added
<1>6. Stands(j)
  BY <1>2, <1>4, <1>5 DEF CompletedUpdateStands, WorkersStand, At, Deleted
<1> QED
  BY <1>1, <1>3, <1>6, StandsStay

LEMMA GivesUpStep ==
  ASSUME IInv, [Next]_vars
  PROVE  GivesUpOnlyIfDeleted'
<1> USE DEF IInv
<1>1. UNCHANGED <<table, jobs>> \/ AddsJob \/ AppliesJob
  BY StepKinds
<1> SUFFICES ASSUME NEW w \in Workers, At(w, "unrecoverable")'
             PROVE  Deleted(jobs[workers[w].job].id)'
  BY DEF GivesUpOnlyIfDeleted, Deleted, At
<1>2. workers'[w] = workers[w] \/ Recheck(w)
  <2>1. CASE workers'[w] = Idle
    BY <2>1 DEF At, Idle
  <2>2. CASE Take(w)
    BY <2>2 DEF At, Take, TypeOK
  <2>3. CASE Write(w) \/ WriteFails(w) \/ RecheckFails(w) \/ Invalidate(w)
    BY <2>3 DEF At, Write, WriteFails, RecheckFails, Invalidate, Goto, TypeOK
  <2> QED
    BY <2>1, <2>2, <2>3, WorkerMoves
<1>3. ~At(w, "idle") /\ workers'[w].job = workers[w].job
  <2>1. CASE workers'[w] = workers[w]
    BY <2>1 DEF At
  <2>2. CASE Recheck(w)
    BY <2>2 DEF At, Recheck, Goto, TypeOK
  <2> QED
    BY <1>2, <2>1, <2>2
<1>4. PICK j \in Jobs : j = workers[w].job
  BY <1>3, Executing
<1>5. Added(j) /\ jobs[j] \in JobRecords /\ jobs'[j] = jobs[j] /\ jobs[j].id \in Ids
  BY <1>1, <1>3, <1>4, JobsStay, Executing DEF JobsAreAdded, JobRecords
<1>6. Deleted(jobs[j].id)
  <2>1. CASE workers'[w] = workers[w]
    BY <1>4, <2>1 DEF GivesUpOnlyIfDeleted, Deleted, At
  <2>2. CASE Recheck(w)
    <3>1. ~Exists(table, jobs[j].id)
      BY <1>4, <2>2 DEF Recheck, Goto, At, TypeOK
    <3>2. jobs[j].name = "update"
      BY <1>4, <2>2 DEF Recheck, JobsAreAdded
    <3> QED
      BY <1>5, <3>1, <3>2 DEF CheckedRowsExist
  <2> QED
    BY <1>2, <2>1, <2>2
<1> QED
  BY <1>1, <1>3, <1>4, <1>5, <1>6, JobsStay DEF Deleted, JobsOf, Added

-----------------------------------------------------------------------------
(* Theorems *)

\* Each state of the write path satisfies the inductive invariant.
THEOREM Invariance == Spec => []IInv
<1>1. Init => IInv
  <2> SUFFICES ASSUME Init
               PROVE  IInv
    OBVIOUS
  <2>1. TypeOK
    BY TypeInit
  <2> QED
    BY <2>1 DEF Init, IInv, JobsAreAdded, CheckedRowsExist, RowVersionIsNewestField,
                WorkersStand, CompletedUpdateStands,
                GivesUpOnlyIfDeleted, Added, Exists, At, Idle
<1>2. IInv /\ [Next]_vars => IInv'
  <2> SUFFICES ASSUME IInv, [Next]_vars
               PROVE  IInv'
    OBVIOUS
  <2>1. UNCHANGED <<table, jobs>> \/ AddsJob \/ AppliesJob
    BY StepKinds DEF IInv
  <2>2. TypeOK'
    BY TypeStep DEF IInv
  <2> QED
    BY <2>1, <2>2, AddedStep, CheckedStep, VersionStep, WorkersStep, CompletedStep,
       GivesUpStep DEF IInv
<1> QED
  BY <1>1, <1>2, PTL DEF Spec

\* Every variable keeps its type.
THEOREM TypeCorrect == Spec => []TypeOK
BY Invariance, PTL DEF IInv

\* updatedAt is always the enqueue time of the row's newest column.
THEOREM VersionIsNewest == Spec => []RowVersionIsNewestField
BY Invariance, PTL DEF IInv

\* Last write wins by enqueue time: a completed update is in the row, or
\* something newer is, unless a delete was enqueued.
THEOREM LastWriteWins == Spec => []CompletedUpdateStands
BY Invariance, PTL DEF IInv

\* A job is given up as "not found" only if a delete was enqueued.
THEOREM NoLostMessage == Spec => []GivesUpOnlyIfDeleted
BY Invariance, PTL DEF IInv

\* Only the execution of a create brings a message back.
THEOREM OnlyCreatesCreate == Spec => GoneStaysGone
<1>1. IInv /\ [Next]_vars =>
        [\A id \in Ids : Exists(table', id) => Exists(table, id) \/ BeingCreated(id)]_vars
  <2> SUFFICES ASSUME IInv, [Next]_vars, NEW id \in Ids,
                      Exists(table', id), ~Exists(table, id)
               PROVE  BeingCreated(id)
    OBVIOUS
  <2>1. PICK w \in Workers : /\ At(w, "write")
                             /\ table' = Apply(table, workers[w].job, jobs[workers[w].job])
    BY DEF Next, WorkerStep, AssertExists, EnqueueCreate, EnqueueChecked, Enqueue,
           EnqueueFails, Take, Write, WriteFails, Recheck, RecheckFails, Invalidate,
           Complete, FailAttempt, FailForGood, Settle, Crash, Promote, Stall, vars
  <2>2. PICK j \in Jobs : j = workers[w].job /\ jobs[j] \in JobRecords
    BY <2>1, Executing DEF IInv, At
  <2>3. jobs[j].id = id /\ table \in Tables
    BY <2>1, <2>2, ApplyElsewhere DEF IInv, TypeOK, Exists
  <2>4. jobs[j].name = "create"
    BY <2>1, <2>2, <2>3
    DEF Apply, UpdateMany, DeleteMany, NotNewer, Exists, Tables, JobRecords, Names
  <2> QED
    BY <2>1, <2>2, <2>3, <2>4 DEF BeingCreated, At
<1> QED
  BY <1>1, Invariance, PTL DEF Spec, GoneStaysGone

-----------------------------------------------------------------------------
(* Refinement *)

RequestOf(r) == [name |-> r.name, id |-> r.id, timestamp |-> r.timestamp]

LEMMA AcceptStep ==
  ASSUME TypeOK, AddsJob
  PROVE  Register!Accept
<1>1. PICK j \in Jobs, r \in JobRecords :
        jobs[j] = NoJob /\ jobs' = [jobs EXCEPT ![j] = r] /\ table' = table
  BY DEF AddsJob
<1>2. r # NoJob /\ RequestOf(r) \in Register!Requests
  BY StoreAssumption DEF JobRecords, RequestOf, Register!Requests, Names
<1>3. \A k \in Jobs : jobs'[k] = IF k = j THEN r ELSE jobs[k]
  BY <1>1 DEF TypeOK
<1>4. AcceptedRequests' = AcceptedRequests \cup {RequestOf(r)}
  BY <1>1, <1>2, <1>3 DEF AcceptedRequests, Added, RequestOf
<1>5. Versions' = Versions
  BY <1>1 DEF Versions, Exists
<1> QED
  BY <1>2, <1>4, <1>5 DEF Register!Accept

LEMMA TakeEffectStep ==
  ASSUME TypeOK, AppliesJob
  PROVE  Register!TakeEffect \/ UNCHANGED <<AcceptedRequests, Versions>>
<1>1. PICK j \in Jobs : /\ jobs' = jobs
                        /\ jobs[j] \in JobRecords
                        /\ Added(j)
                        /\ table' = Apply(table, j, jobs[j])
  BY DEF AppliesJob
<1> DEFINE r  == RequestOf(jobs[j])
           id == jobs[j].id
<1>2. AcceptedRequests' = AcceptedRequests
  BY <1>1 DEF AcceptedRequests, Added
<1>3. r \in AcceptedRequests
  BY <1>1 DEF AcceptedRequests, RequestOf
<1>4. /\ r.name = jobs[j].name /\ r.id = id /\ r.timestamp = jobs[j].timestamp
      /\ id \in Ids /\ jobs[j].timestamp \in Nat /\ table \in Tables
  BY <1>1 DEF RequestOf, JobRecords, TypeOK
<1>5. CASE table' = table
  BY <1>2, <1>5 DEF Versions, Exists
<1>6. CASE table' # table
  <2>1. \A i \in Ids : i # id => table'[i] = table[i]
    BY <1>1, <1>4, ApplyElsewhere
  <2>2. ASSUME NEW v,
               IF Exists(table', id) THEN table'[id].updatedAt = v ELSE v = NoRow
        PROVE  Versions' = [Versions EXCEPT ![id] = v]
    BY <1>4, <2>1, <2>2 DEF Versions, Exists
  <2>3. CASE jobs[j].name = "create"
    <3>1. ~Exists(table, id)
      BY <1>1, <1>6, <2>3 DEF Apply, CreateIfAbsent
    <3>2. Exists(table', id) /\ table'[id].updatedAt = jobs[j].timestamp
      BY <1>1, <1>4, <2>3, <3>1, CreatedColumns
    <3>3. Versions' = [Versions EXCEPT ![id] = jobs[j].timestamp]
      BY <2>2, <3>2
    <3>4. Versions[id] = NoRow
      BY <1>4, <3>1 DEF Versions
    <3>5. Register!Create(r)
      BY <1>4, <2>3, <3>3, <3>4 DEF Register!Create
    <3> QED
      BY <1>2, <1>3, <3>5 DEF Register!TakeEffect
  <2>4. CASE jobs[j].name = "update"
    <3>1. NotNewer(table, jobs[j])
      BY <1>1, <1>6, <2>4 DEF Apply, UpdateMany
    <3>2. Exists(table', id) /\ table'[id].updatedAt = jobs[j].timestamp
      BY <1>1, <1>4, <2>4, <3>1, UpdatedColumns
    <3>3. Versions' = [Versions EXCEPT ![id] = jobs[j].timestamp]
      BY <2>2, <3>2
    <3>4. /\ Versions[id] = table[id].updatedAt
          /\ table[id].updatedAt \in Nat
          /\ table[id].updatedAt <= jobs[j].timestamp
      BY <1>4, <3>1 DEF Versions, NotNewer, Exists, Tables, Rows
    <3>5. Register!Update(r)
      BY <1>4, <2>4, <3>3, <3>4, StoreAssumption DEF Register!Update
    <3> QED
      BY <1>2, <1>3, <3>5 DEF Register!TakeEffect
  <2>5. CASE jobs[j].name = "delete"
    <3>1. ~Exists(table', id)
      BY <1>1, <1>4, <2>5 DEF Apply, DeleteMany, Exists, Tables
    <3>2. Versions' = [Versions EXCEPT ![id] = NoRow]
      BY <2>2, <3>1
    <3>3. Register!Delete(r)
      BY <1>4, <2>5, <3>2 DEF Register!Delete
    <3> QED
      BY <1>2, <1>3, <3>3 DEF Register!TakeEffect
  <2> QED
    BY <1>1, <2>3, <2>4, <2>5 DEF JobRecords, Names
<1> QED
  BY <1>5, <1>6

\* The write path implements the register of MessageRegister.
THEOREM Refinement == Spec => ImplementsRegister
<1>1. Init => Register!Init
  BY DEF Init, Register!Init, AcceptedRequests, Versions, Added, Exists
<1>2. IInv /\ [Next]_vars => [Register!Next]_(Register!vars)
  <2> SUFFICES ASSUME IInv, [Next]_vars
               PROVE  [Register!Next]_(Register!vars)
    OBVIOUS
  <2>1. TypeOK /\ (UNCHANGED <<table, jobs>> \/ AddsJob \/ AppliesJob)
    BY StepKinds DEF IInv
  <2>2. CASE UNCHANGED <<table, jobs>>
    BY <2>2 DEF Register!vars, AcceptedRequests, Versions, Added, Exists
  <2>3. CASE AddsJob
    BY <2>1, <2>3, AcceptStep DEF Register!Next
  <2>4. CASE AppliesJob
    BY <2>1, <2>4, TakeEffectStep DEF Register!Next, Register!vars
  <2> QED
    BY <2>1, <2>2, <2>3, <2>4
<1> QED
  BY <1>1, <1>2, Invariance, PTL DEF Spec, ImplementsRegister, Register!Spec

-----------------------------------------------------------------------------
(* Requests that carry the whole message *)

WholeRequests == \A p \in Workload : p.name # "delete" => p.fields = Fields

WholePayloads ==
  /\ \A c \in Clients :
       requests[c] # NoRequest /\ requests[c].name # "delete" => requests[c].fields = Fields
  /\ \A j \in Jobs : Added(j) /\ jobs[j].name # "delete" => jobs[j].fields = Fields

\* Each column of a row comes from a job of the message.
WholeRows ==
  \A id \in Ids, f \in Fields : Exists(table, id) =>
    LET k == table[id].writer[f]
    IN k \in Jobs /\ Added(k) /\ jobs[k].id = id /\ jobs[k].name # "delete"

LEMMA WholePayloadsStep ==
  ASSUME WholeRequests, TypeOK, WholePayloads, [Next]_vars
  PROVE  WholePayloads'
<1>1. ASSUME NEW c \in Clients, NEW p \in Payloads, NEW j \in Jobs, NEW t \in 0..MaxClock,
             Enqueue(c, p, j, t), p.name # "delete" => p.fields = Fields
      PROVE  \A i \in Jobs : Added(i)' /\ jobs'[i].name # "delete" => jobs'[i].fields = Fields
  <2> DEFINE r == [name |-> p.name, id |-> p.id, fields |-> p.fields,
                   timestamp |-> t + Offset[c]]
  <2>1. jobs' = [jobs EXCEPT ![j] = r] /\ r.name = p.name /\ r.fields = p.fields
    BY <1>1 DEF Enqueue
  <2> HIDE DEF r
  <2> QED
    BY <1>1, <2>1 DEF WholePayloads, Added, TypeOK
<1>2. ASSUME NEW c \in Clients, NEW p \in Workload, AssertExists(c, p)
      PROVE  WholePayloads'
  BY <1>2 DEF AssertExists, WholePayloads, WholeRequests, Added, TypeOK
<1>3. ASSUME NEW c \in Clients, NEW p \in Workload, NEW j \in Jobs, NEW t \in 0..MaxClock,
             EnqueueCreate(c, p, j, t)
      PROVE  WholePayloads'
  <2>1. p \in Payloads /\ Enqueue(c, p, j, t) /\ UNCHANGED requests
        /\ (p.name # "delete" => p.fields = Fields)
    BY <1>3, WritesAssumption DEF EnqueueCreate, WholeRequests
  <2> QED
    BY <1>1, <2>1 DEF WholePayloads
<1>4. ASSUME NEW c \in Clients, NEW j \in Jobs, NEW t \in 0..MaxClock, EnqueueChecked(c, j, t)
      PROVE  WholePayloads'
  <2>1. /\ requests[c] # NoRequest /\ requests[c] \in Payloads
        /\ Enqueue(c, requests[c], j, t)
        /\ requests' = [requests EXCEPT ![c] = NoRequest]
        /\ requests[c].name # "delete" => requests[c].fields = Fields
    BY <1>4 DEF EnqueueChecked, WholePayloads, TypeOK
  <2>2. \A d \in Clients : requests'[d] # NoRequest => requests'[d] = requests[d]
    BY <2>1 DEF TypeOK
  <2> QED
    BY <1>1, <2>1, <2>2 DEF WholePayloads
<1>5. ASSUME NEW c \in Clients, EnqueueFails(c)
      PROVE  WholePayloads'
  BY <1>5 DEF EnqueueFails, WholePayloads, Added, TypeOK
<1>6. CASE UNCHANGED <<jobs, requests>>
  BY <1>6 DEF WholePayloads, Added
<1> QED
  BY <1>2, <1>3, <1>4, <1>5, <1>6
  DEF Next, WorkerStep, Take, Write, WriteFails, Recheck, RecheckFails, Invalidate,
      Complete, FailAttempt, FailForGood, Settle, Crash, Promote, Stall, vars

LEMMA WholeRowsStep ==
  ASSUME TypeOK, WholePayloads, WholeRows,
         UNCHANGED <<table, jobs>> \/ AddsJob \/ AppliesJob
  PROVE  WholeRows'
<1> SUFFICES ASSUME NEW id \in Ids, NEW f \in Fields, Exists(table', id),
                    NEW k, k = table'[id].writer[f]
             PROVE  k \in Jobs /\ Added(k)' /\ jobs'[k].id = id /\ jobs'[k].name # "delete"
  BY DEF WholeRows, Exists
<1>1. \A i \in Jobs : Added(i) => Added(i)' /\ jobs'[i] = jobs[i]
  BY JobsStay
<1>2. CASE table'[id] = table[id]
  <2>1. Exists(table, id)
    BY <1>2 DEF Exists
  <2>2. k \in Jobs /\ Added(k) /\ jobs[k].id = id /\ jobs[k].name # "delete"
    BY <1>2, <2>1 DEF WholeRows
  <2> QED
    BY <1>1, <2>2
<1>3. CASE table'[id] # table[id]
  <2>1. PICK j \in Jobs : /\ jobs' = jobs
                          /\ jobs[j] \in JobRecords
                          /\ Added(j)
                          /\ table' = Apply(table, j, jobs[j])
    BY <1>3 DEF AppliesJob, AddsJob
  <2>2. jobs[j].id = id /\ table \in Tables
    BY <1>3, <2>1, ApplyElsewhere DEF TypeOK
  <2>3. jobs[j].name # "delete"
    BY <2>1, <2>2 DEF Apply, DeleteMany, Exists, Tables
  <2>4. f \in jobs[j].fields
    BY <2>1, <2>3 DEF WholePayloads
  <2>5. k = j
    <3>1. CASE jobs[j].name = "create"
      <4>1. ~Exists(table, id)
        BY <1>3, <2>1, <2>2, <3>1 DEF Apply, CreateIfAbsent
      <4> QED
        BY <2>1, <2>2, <2>4, <3>1, <4>1, CreatedColumns
    <3>2. CASE jobs[j].name = "update"
      <4>1. NotNewer(table, jobs[j])
        BY <1>3, <2>1, <3>2 DEF Apply, UpdateMany
      <4> QED
        BY <2>1, <2>2, <2>4, <3>2, <4>1, UpdatedColumns
    <3> QED
      BY <2>1, <2>3, <3>1, <3>2 DEF JobRecords, Names
  <2> QED
    BY <1>1, <2>1, <2>2, <2>3, <2>5
<1> QED
  BY <1>2, <1>3

\* The README's "last write wins by enqueue time" holds of each column if every
\* request carries the whole message: then the row has no column that is older
\* than its version.
THEOREM WholeWritesWin ==
  ASSUME WholeRequests
  PROVE  Spec => []LastWriteOfColumnWins
<1> DEFINE Inv == WholePayloads /\ WholeRows
<1>1. Init => Inv
  BY DEF Init, WholePayloads, WholeRows, Added, Exists
<1>2. IInv /\ Inv /\ [Next]_vars => Inv'
  <2> SUFFICES ASSUME IInv, Inv, [Next]_vars PROVE Inv'
    OBVIOUS
  <2>1. UNCHANGED <<table, jobs>> \/ AddsJob \/ AppliesJob
    BY StepKinds DEF IInv
  <2> QED
    BY <2>1, WholePayloadsStep, WholeRowsStep DEF IInv
<1>3. IInv /\ Inv => LastWriteOfColumnWins
  <2> SUFFICES ASSUME IInv, Inv, NEW j \in Jobs, NEW f \in Fields,
                      queue[j].state = "completed", jobs[j].name = "update",
                      f \in jobs[j].fields, JobsOf(jobs[j].id, "delete") = {},
                      \A k \in Jobs : Added(k) /\ k # j /\ jobs[k].id = jobs[j].id
                                        /\ f \in jobs[k].fields
                                      => jobs[k].timestamp < jobs[j].timestamp
               PROVE  table[jobs[j].id].writer[f] = j
    BY DEF LastWriteOfColumnWins
  <2> DEFINE id == jobs[j].id
             Of(g) == table[id].writer[g]
  <2>1. Added(j) /\ jobs[j] \in JobRecords /\ id \in Ids /\ jobs[j].timestamp \in Nat
    BY DEF IInv, JobsAreAdded, TypeOK, Added, JobRecords
  <2>2. Stands(j)
    BY DEF IInv, CompletedUpdateStands
  <2>3. Exists(table, id) /\ table[id].updatedAt \in Nat
    BY <2>1, <2>2, StoreAssumption DEF Stands, IInv, TypeOK, Tables, Rows, Exists
  <2>4. \A g \in Fields : /\ Of(g) \in Jobs /\ Added(Of(g)) /\ jobs[Of(g)].id = id
                          /\ Of(g) # NoJob /\ f \in jobs[Of(g)].fields
                          /\ jobs[Of(g)].timestamp \in Nat
                          /\ WrittenAt(id, g) = jobs[Of(g)].timestamp
    <3> TAKE g \in Fields
    <3>1. Of(g) \in Jobs /\ Added(Of(g)) /\ jobs[Of(g)].id = id /\ jobs[Of(g)].name # "delete"
      BY <2>1, <2>3 DEF WholeRows
    <3>2. Of(g) # NoJob /\ jobs[Of(g)] \in JobRecords
      BY <3>1, StoreAssumption DEF IInv, TypeOK, Added
    <3>3. f \in jobs[Of(g)].fields
      BY <3>1 DEF WholePayloads
    <3> QED
      BY <3>1, <3>2, <3>3 DEF WrittenAt, JobRecords
  <2>5. \A g \in Fields : Of(g) # j => jobs[Of(g)].timestamp < jobs[j].timestamp
    BY <2>4
  <2>6. CASE table[id].updatedAt > jobs[j].timestamp
    <3>1. PICK g \in Fields : WrittenAt(id, g) = table[id].updatedAt
      BY <2>1, <2>3 DEF IInv, RowVersionIsNewestField
    <3> HIDE DEF Of
    <3>2. jobs[Of(g)].timestamp > jobs[j].timestamp
      BY <2>4, <2>6, <3>1
    <3> QED
      BY <2>1, <2>4, <2>5, <3>2
  <2>7. CASE WrittenAt(id, f) = jobs[j].timestamp
    <3>1. jobs[Of(f)].timestamp = jobs[j].timestamp
      BY <2>4, <2>7
    <3> QED
      BY <2>1, <2>5, <3>1
  <2> QED
    BY <2>2, <2>6, <2>7 DEF Stands
<1> QED
  BY <1>1, <1>2, <1>3, Invariance, PTL DEF Spec

-----------------------------------------------------------------------------
(* Repeated creates *)

\* A create that was executed leaves a row, unless a delete was enqueued.
CreatedRowsExist ==
  /\ \A w \in Workers :
       /\ At(w, "invalidate") \/ At(w, "done")
       /\ jobs[workers[w].job].name = "create"
       => Deleted(jobs[workers[w].job].id) \/ Exists(table, jobs[workers[w].job].id)
  /\ \A j \in Jobs :
       /\ queue[j].state = "completed"
       /\ jobs[j].name = "create"
       => Deleted(jobs[j].id) \/ Exists(table, jobs[j].id)

LEMMA CreatedStep ==
  ASSUME IInv, CreatedRowsExist, [Next]_vars
  PROVE  CreatedRowsExist'
<1> USE DEF IInv
<1>1. UNCHANGED <<table, jobs>> \/ AddsJob \/ AppliesJob
  BY StepKinds
<1>2. ASSUME NEW j \in Jobs, Added(j),
             Deleted(jobs[j].id) \/ Exists(table, jobs[j].id)
      PROVE  (Deleted(jobs[j].id) \/ Exists(table, jobs[j].id))'
  <2>1. jobs[j] \in JobRecords /\ jobs[j].id \in Ids /\ jobs'[j] = jobs[j]
    BY <1>1, <1>2, JobsStay DEF TypeOK, Added, JobRecords
  <2>2. CASE Deleted(jobs[j].id)
    BY <1>1, <2>1, <2>2, JobsStay DEF Deleted, JobsOf, Added
  <2>3. CASE ~Deleted(jobs[j].id) /\ Exists(table, jobs[j].id)
    BY <1>1, <2>1, <2>3, RowStays
  <2> QED
    BY <1>2, <2>2, <2>3
<1>3. ASSUME NEW w \in Workers,
             (At(w, "invalidate") \/ At(w, "done"))',
             (jobs[workers[w].job].name = "create")'
      PROVE  (Deleted(jobs[workers[w].job].id) \/ Exists(table, jobs[workers[w].job].id))'
  <2>1. /\ workers'[w] = workers[w] \/ Write(w) \/ Recheck(w) \/ Invalidate(w)
        /\ ~At(w, "idle") /\ workers'[w].job = workers[w].job
    <3>1. workers'[w] # Idle /\ ~Take(w) /\ ~WriteFails(w) /\ ~RecheckFails(w)
      BY <1>3 DEF At, Idle, Take, WriteFails, RecheckFails, Goto, TypeOK
    <3>2. \/ workers'[w] = workers[w]
          \/ Write(w) \/ Recheck(w) \/ Invalidate(w)
          => ~At(w, "idle") /\ workers'[w].job = workers[w].job
      BY <1>3 DEF At, Write, Recheck, Invalidate, Goto, TypeOK
    <3> QED
      BY <3>1, <3>2, WorkerMoves
  <2>2. PICK j \in Jobs : j = workers[w].job
    BY <2>1, Executing
  <2>3. /\ Added(j) /\ jobs[j] \in JobRecords /\ jobs'[j] = jobs[j]
        /\ workers'[w].job = j /\ jobs[j].name = "create"
    BY <1>1, <1>3, <2>1, <2>2, JobsStay, Executing DEF JobsAreAdded
  <2>4. CASE workers'[w] = workers[w] \/ Invalidate(w)
    <3>1. At(w, "invalidate") \/ At(w, "done")
      BY <1>3, <2>4 DEF At, Invalidate
    <3>2. Deleted(jobs[j].id) \/ Exists(table, jobs[j].id)
      BY <2>2, <2>3, <3>1 DEF CreatedRowsExist
    <3> QED
      BY <1>2, <2>3, <3>2
  <2>5. CASE Write(w)
    <3>1. table' = Apply(table, j, jobs[j]) /\ table \in Tables
      BY <2>2, <2>5 DEF Write, TypeOK
    <3>2. Exists(table', jobs[j].id)
      <4>1. CASE Exists(table, jobs[j].id)
        BY <2>3, <3>1, <4>1 DEF Apply, CreateIfAbsent
      <4>2. CASE ~Exists(table, jobs[j].id)
        BY <2>3, <3>1, <4>2, CreatedColumns
      <4> QED
        BY <4>1, <4>2
    <3> QED
      BY <2>3, <3>2 DEF Exists
  <2>6. CASE Recheck(w)
    BY <2>2, <2>3, <2>6 DEF Recheck, JobsAreAdded
  <2> QED
    BY <2>1, <2>4, <2>5, <2>6
<1>4. ASSUME NEW j \in Jobs, queue'[j].state = "completed", jobs'[j].name = "create"
      PROVE  (Deleted(jobs[j].id) \/ Exists(table, jobs[j].id))'
  <2>1. \/ queue[j].state = "completed"
        \/ \E w \in Workers : At(w, "done") /\ workers[w].job = j
    BY <1>4, CompletedFrom
  <2>2. Added(j)
    BY <2>1 DEF JobsAreAdded, At
  <2>3. jobs[j].name = "create"
    BY <1>1, <1>4, <2>2, JobsStay
  <2>4. Deleted(jobs[j].id) \/ Exists(table, jobs[j].id)
    BY <2>1, <2>3 DEF CreatedRowsExist
  <2> QED
    BY <1>2, <2>2, <2>4
<1> QED
  BY <1>3, <1>4 DEF CreatedRowsExist

\* The README's "every write is safe to repeat" holds of a create whose message
\* nobody asked to delete: once it is completed, running it again, after a lost
\* lock, leaves the table as it is.
THEOREM RepeatedCreateNeedsDelete ==
  Spec => [][\A w \in Workers :
               /\ At(w, "write") /\ workers'[w].step \notin {"write", "idle"}
               /\ jobs[workers[w].job].name = "create"
               /\ queue[workers[w].job].state = "completed"
               /\ JobsOf(jobs[workers[w].job].id, "delete") = {}
               => table' = table]_vars
<1>1. Init => CreatedRowsExist
  BY DEF Init, CreatedRowsExist, At, Idle
<1>2. IInv /\ CreatedRowsExist /\ [Next]_vars => CreatedRowsExist'
  BY CreatedStep
<1>3. IInv /\ CreatedRowsExist /\ [Next]_vars =>
        [\A w \in Workers :
           /\ At(w, "write") /\ workers'[w].step \notin {"write", "idle"}
           /\ jobs[workers[w].job].name = "create"
           /\ queue[workers[w].job].state = "completed"
           /\ JobsOf(jobs[workers[w].job].id, "delete") = {}
           => table' = table]_vars
  <2> SUFFICES ASSUME IInv, CreatedRowsExist, [Next]_vars, NEW w \in Workers,
                      At(w, "write"), workers'[w].step \notin {"write", "idle"},
                      jobs[workers[w].job].name = "create",
                      queue[workers[w].job].state = "completed",
                      JobsOf(jobs[workers[w].job].id, "delete") = {}
               PROVE  table' = table
    OBVIOUS
  <2>1. TypeOK
    BY DEF IInv
  <2>2. PICK j \in Jobs : j = workers[w].job /\ jobs[j] \in JobRecords
    BY <2>1, Executing DEF IInv, At
  <2>3. Exists(table, jobs[j].id)
    BY <2>2 DEF CreatedRowsExist, Deleted
  <2>4. Apply(table, j, jobs[j]) = table
    BY <2>2, <2>3 DEF Apply, CreateIfAbsent
  <2>5. Write(w) \/ WriteFails(w)
    <3>1. workers'[w] # workers[w] /\ workers'[w] # Idle
      BY DEF At, Idle
    <3>2. ~Take(w) /\ ~Recheck(w) /\ ~RecheckFails(w) /\ ~Invalidate(w)
      BY DEF At, Take, Recheck, RecheckFails, Invalidate
    <3> QED
      BY <2>1, <3>1, <3>2, WorkerMoves
  <2> QED
    BY <2>2, <2>4, <2>5 DEF Write, WriteFails
<1> QED
  BY <1>1, <1>2, <1>3, Invariance, PTL DEF Spec
=============================================================================
