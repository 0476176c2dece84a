--------------------------- MODULE MessageWrites ----------------------------
(***************************************************************************)
(* The write path of the message module: a request handler checks that the *)
(* message exists and adds a job to the BullMQ queue, a worker takes the   *)
(* job, writes the table, invalidates the list cache and settles the job.  *)
(*                                                                         *)
(* BullMQ is modelled from the way the module configures and uses it: the  *)
(* waiting list is first-in first-out, a failed attempt is delayed and     *)
(* goes back to the end of the list until `attempts' are used up, a job    *)
(* whose lock was not renewed (the worker died, or was too busy) is        *)
(* stalled and put back at the front, once.  The worker that lost the lock *)
(* may still be running, so two workers can execute one job.               *)
(***************************************************************************)
EXTENDS MessageStore, Sequences

CONSTANTS Workers,     \* worker processes, one job at a time each
          Clients,     \* API requests in flight
          Workload,    \* the requests clients may send
          NoRequest,   \* "this client has no request in flight"
          NoWorker,    \* "nobody holds the lock of this job"
          Attempts,    \* attempts in the default job options (3)
          MaxStalled,  \* BullMQ's maxStalledCount (1)
          Offset,      \* how far ahead the clock of each client's API host is
          MaxClock     \* the latest time a job is added

ASSUME WritesAssumption ==
  /\ Workload \subseteq Payloads
  /\ NoRequest \notin Payloads
  /\ NoWorker \notin Workers
  /\ Attempts \in Nat \ {0}
  /\ MaxStalled \in Nat
  /\ MaxClock \in Nat
  /\ Offset \in [Clients -> Nat]

VARIABLES table,     \* the rows
          jobs,      \* name, data and timestamp of each job added so far
          queue,     \* where BullMQ has each job
          wait,      \* the waiting list, head first
          workers,   \* what each worker is doing
          requests,  \* requests between their existence check and Queue.add
          clock      \* the time of the latest Queue.add

vars == <<table, jobs, queue, wait, workers, requests, clock>>

States == {"none", "waiting", "active", "delayed", "completed", "failed"}

\* "write" and "recheck" precede the two statements of the repository;
\* "done", "error" and "unrecoverable" are how the processor ended.
Steps == {"idle", "write", "recheck", "invalidate", "done", "error",
          "unrecoverable"}

QueueRecords ==
  [state : States, attempts : Nat, stalls : Nat,
   owner : Workers \cup {NoWorker}]

TypeOK ==
  /\ table \in Tables
  /\ jobs \in [Jobs -> JobRecords \cup {NoJob}]
  /\ queue \in [Jobs -> QueueRecords]
  /\ wait \in Seq(Jobs)
  /\ workers \in [Workers -> [step : Steps, job : Jobs \cup {NoJob}]]
  /\ requests \in [Clients -> Payloads \cup {NoRequest}]
  /\ clock \in Nat

Idle == [step |-> "idle", job |-> NoJob]

Init ==
  /\ table = [id \in Ids |-> NoRow]
  /\ jobs = [j \in Jobs |-> NoJob]
  /\ queue = [j \in Jobs |-> [state |-> "none", attempts |-> 0, stalls |-> 0,
                              owner |-> NoWorker]]
  /\ wait = <<>>
  /\ workers = [w \in Workers |-> Idle]
  /\ requests = [c \in Clients |-> NoRequest]
  /\ clock = 0

-----------------------------------------------------------------------------
(* The API: check, then add *)

\* Queue.add stamps the job with the clock of the API host at time t, which
\* is no earlier than the previous call's.
Enqueue(c, payload, j, t) ==
  /\ jobs[j] = NoJob
  /\ t >= clock
  /\ jobs' = [jobs EXCEPT ![j] =
                [name |-> payload.name, id |-> payload.id,
                 fields |-> payload.fields, timestamp |-> t + Offset[c]]]
  /\ queue' = [queue EXCEPT ![j].state = "waiting"]
  /\ wait' = Append(wait, j)
  /\ clock' = t
  /\ UNCHANGED <<table, workers>>

\* The id is the client's, or a new one Postgres generated: either way it
\* is not looked up.
EnqueueCreate(c, payload, j, t) ==
  /\ requests[c] = NoRequest
  /\ payload.name = "create"
  /\ Enqueue(c, payload, j, t)
  /\ UNCHANGED requests

\* Mutant of AssertExists: any message may be updated and deleted.
AssertNothing(c, payload) ==
  /\ requests[c] = NoRequest
  /\ payload.name # "create"
  /\ requests' = [requests EXCEPT ![c] = payload]
  /\ UNCHANGED <<table, jobs, queue, wait, workers, clock>>

\* assertExists: an update or a delete goes on only if the row is there now.
\* A request refused with 404 changes nothing.
AssertExists(c, payload) ==
  /\ requests[c] = NoRequest
  /\ payload.name # "create"
  /\ Exists(table, payload.id)
  /\ requests' = [requests EXCEPT ![c] = payload]
  /\ UNCHANGED <<table, jobs, queue, wait, workers, clock>>

EnqueueChecked(c, j, t) ==
  /\ requests[c] # NoRequest
  /\ Enqueue(c, requests[c], j, t)
  /\ requests' = [requests EXCEPT ![c] = NoRequest]

\* Redis is down: the producer connection has no offline queue, the request
\* is answered with 500 and nothing is queued.
EnqueueFails(c) ==
  /\ requests[c] # NoRequest
  /\ requests' = [requests EXCEPT ![c] = NoRequest]
  /\ UNCHANGED <<table, jobs, queue, wait, workers, clock>>

-----------------------------------------------------------------------------
(* The worker *)

Goto(w, step) == workers' = [workers EXCEPT ![w].step = step]

At(w, step) == workers[w].step = step

Take(w) ==
  /\ At(w, "idle")
  /\ wait # <<>>
  /\ LET j == Head(wait) IN
       /\ queue' = [queue EXCEPT ![j].state = "active", ![j].owner = w]
       /\ workers' = [workers EXCEPT ![w] = [step |-> "write", job |-> j]]
  /\ wait' = Tail(wait)
  /\ UNCHANGED <<table, jobs, requests, clock>>

\* The statement commits.  An update that matched no row goes on to look
\* whether the row is there at all.
Write(w) ==
  LET j == workers[w].job IN
  /\ At(w, "write")
  /\ table' = Apply(table, j, jobs[j])
  /\ Goto(w, IF jobs[j].name = "update" /\ ~NotNewer(table, jobs[j])
             THEN "recheck" ELSE "invalidate")
  /\ UNCHANGED <<jobs, queue, wait, requests, clock>>

\* The database rejects the statement, or commits it and the answer is lost.
WriteFails(w) ==
  LET j == workers[w].job IN
  /\ At(w, "write")
  /\ table' \in {table, Apply(table, j, jobs[j])}
  /\ Goto(w, "error")
  /\ UNCHANGED <<jobs, queue, wait, requests, clock>>

\* findUnique after a count of 0: the update was stale and the job ends, or
\* the row is gone and NotFoundError becomes an UnrecoverableError.
Recheck(w) ==
  /\ At(w, "recheck")
  /\ Goto(w, IF Exists(table, jobs[workers[w].job].id)
             THEN "done" ELSE "unrecoverable")
  /\ UNCHANGED <<table, jobs, queue, wait, requests, clock>>

RecheckFails(w) ==
  /\ At(w, "recheck")
  /\ Goto(w, "error")
  /\ UNCHANGED <<table, jobs, queue, wait, requests, clock>>

\* cacheService.invalidate never throws.
Invalidate(w) ==
  /\ At(w, "invalidate")
  /\ Goto(w, "done")
  /\ UNCHANGED <<table, jobs, queue, wait, requests, clock>>

\* The worker reports to BullMQ, which ignores it if the lock was lost.
Settle(w, step, record) ==
  /\ At(w, step)
  /\ workers' = [workers EXCEPT ![w] = Idle]
  /\ queue' = IF queue[workers[w].job].owner = w
              THEN [queue EXCEPT ![workers[w].job] = record]
              ELSE queue
  /\ UNCHANGED <<table, jobs, wait, requests, clock>>

Released(j, state) == [queue[j] EXCEPT !.state = state, !.owner = NoWorker]

Complete(w) == Settle(w, "done", Released(workers[w].job, "completed"))

FailForGood(w) ==
  Settle(w, "unrecoverable", Released(workers[w].job, "failed"))

\* Mutant of FailAttempt: the attempt is not counted.
FailUncounted(w) ==
  LET j == workers[w].job
  IN Settle(w, "error",
            Released(j, IF queue[j].attempts + 1 < Attempts THEN "delayed" ELSE "failed"))

\* Any other error: the attempt is counted, the job delayed by the backoff
\* or, after the last attempt, kept as failed.
FailAttempt(w) ==
  LET j    == workers[w].job
      made == queue[j].attempts + 1
  IN Settle(w, "error",
            [Released(j, IF made < Attempts THEN "delayed" ELSE "failed")
               EXCEPT !.attempts = made])

\* The process dies; its successor starts idle.
Crash(w) ==
  /\ ~At(w, "idle")
  /\ workers' = [workers EXCEPT ![w] = Idle]
  /\ UNCHANGED <<table, jobs, queue, wait, requests, clock>>

-----------------------------------------------------------------------------
(* BullMQ *)

\* The backoff of a delayed job is over.
Promote(j) ==
  /\ queue[j].state = "delayed"
  /\ queue' = [queue EXCEPT ![j].state = "waiting"]
  /\ wait' = Append(wait, j)
  /\ UNCHANGED <<table, jobs, workers, requests, clock>>

\* The lock of an active job ran out.
Stall(j) ==
  /\ queue[j].state = "active"
  /\ LET again == queue[j].stalls < MaxStalled IN
       /\ queue' = [queue EXCEPT
                      ![j] = [Released(j, IF again THEN "waiting" ELSE "failed")
                                EXCEPT !.stalls = @ + 1]]
       /\ wait' = IF again THEN <<j>> \o wait ELSE wait
  /\ UNCHANGED <<table, jobs, workers, requests, clock>>

-----------------------------------------------------------------------------

WorkerStep(w) ==
  \/ Write(w) \/ WriteFails(w)
  \/ Recheck(w) \/ RecheckFails(w)
  \/ Invalidate(w)
  \/ Complete(w) \/ FailAttempt(w) \/ FailForGood(w)

Next ==
  \/ \E c \in Clients :
       \/ \E payload \in Workload : AssertExists(c, payload)
       \/ \E j \in Jobs, t \in 0..MaxClock :
            \/ \E payload \in Workload : EnqueueCreate(c, payload, j, t)
            \/ EnqueueChecked(c, j, t)
       \/ EnqueueFails(c)
  \/ \E w \in Workers : Take(w) \/ WorkerStep(w) \/ Crash(w)
  \/ \E j \in Jobs : Promote(j) \/ Stall(j)

Spec == Init /\ [][Next]_vars

\* No worker executes this active job any more, so nobody renews its lock.
Abandoned(j) ==
  /\ queue[j].state = "active"
  /\ \A w \in Workers : workers[w].job = j => queue[j].owner # w

\* A live worker takes steps, the queue hands out its jobs, backoff timers
\* fire and the stalled check finds abandoned jobs.  Nobody has to send
\* requests, and nothing has to crash, fail or stall while it is worked on.
Fairness ==
  /\ WF_vars(\E w \in Workers : Take(w))
  /\ \A w \in Workers : WF_vars(WorkerStep(w))
  /\ \A j \in Jobs : WF_vars(Promote(j))
  /\ \A j \in Jobs : WF_vars(Abandoned(j) /\ Stall(j))

FairSpec == Spec /\ Fairness
-----------------------------------------------------------------------------
(* Properties *)

Added(j) == jobs[j] # NoJob

\* The jobs of one message.
JobsOf(id, name) == {j \in Jobs : Added(j) /\ jobs[j].id = id /\ jobs[j].name = name}

\* When the content of column f was enqueued; a NULL column is older than any job.
WrittenAt(id, f) ==
  IF table[id].writer[f] = NoJob THEN 0 ELSE jobs[table[id].writer[f]].timestamp

\* updatedAt is the enqueue time of the newest column: no write, stale,
\* repeated or half executed, leaves content in a row that is newer than the
\* row's version, nor a version no content stands for.
RowVersionIsNewestField ==
  \A id \in Ids : Exists(table, id) =>
    /\ \A f \in Fields : WrittenAt(id, f) <= table[id].updatedAt
    /\ \E f \in Fields :
         /\ table[id].writer[f] # NoJob
         /\ WrittenAt(id, f) = table[id].updatedAt

\* The row holds update j or something enqueued later: either the row is
\* newer, or each column of j was enqueued at the same moment as j.
Stands(j) ==
  LET id == jobs[j].id IN
  /\ Exists(table, id)
  /\ \/ table[id].updatedAt > jobs[j].timestamp
     \/ /\ table[id].updatedAt = jobs[j].timestamp
        /\ \A f \in jobs[j].fields : WrittenAt(id, f) = jobs[j].timestamp

\* Last write wins by enqueue time (updateIfNotNewer): once an update job is
\* completed, in whatever order, after whatever retries and with other
\* workers on the same row, the row holds it or something newer, unless
\* somebody asked for the message to be deleted.
CompletedUpdateStands ==
  \A j \in Jobs :
    /\ queue[j].state = "completed"
    /\ jobs[j].name = "update"
    /\ JobsOf(jobs[j].id, "delete") = {}
    => Stands(j)

\* NotFoundError in the worker means "deleted in the meantime": a job the
\* API accepted after its existence check gives up for good only if a delete
\* of the same message was enqueued.
GivesUpOnlyIfDeleted ==
  \A w \in Workers :
    At(w, "unrecoverable") => JobsOf(jobs[workers[w].job].id, "delete") # {}

\* A worker is executing a create of the message.
BeingCreated(id) ==
  \E w \in Workers : /\ ~At(w, "idle")
                     /\ jobs[workers[w].job].name = "create"
                     /\ jobs[workers[w].job].id = id

\* A message that is gone stays gone until a create of it is executed: an
\* update that was checked before the delete and runs after it, late or
\* again, does not bring the message back.
GoneStaysGone ==
  [][\A id \in Ids : Exists(table', id) => Exists(table, id) \/ BeingCreated(id)]_vars

\* Every job that entered the queue is settled, whichever of its attempts
\* fail, stall or are cut off by a crash.
EveryJobIsSettled ==
  \A j \in Jobs :
    queue[j].state \in {"waiting", "active", "delayed"}
      ~> queue[j].state \in {"completed", "failed"}

-----------------------------------------------------------------------------
(* Refinement *)

AcceptedRequests ==
  {[name |-> jobs[j].name, id |-> jobs[j].id, timestamp |-> jobs[j].timestamp] :
     j \in {k \in Jobs : Added(k)}}

Versions ==
  [id \in Ids |-> IF Exists(table, id) THEN table[id].updatedAt ELSE NoRow]

Register == INSTANCE MessageRegister
              WITH Absent <- NoRow, accepted <- AcceptedRequests, version <- Versions

\* The write path implements the register: whatever the workers, retries,
\* stalls and crashes do, each step of the table is one accepted request
\* taking effect, and no step replaces a version by an older one.
ImplementsRegister == Register!Spec
=============================================================================
