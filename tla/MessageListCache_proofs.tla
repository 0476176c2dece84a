----------------------- MODULE MessageListCache_proofs ----------------------
(***************************************************************************)
(* Why a cached list may be stale, for every number of ids, jobs, workers, *)
(* clients and readers, every workload, number of attempts and stalls.     *)
(***************************************************************************)
EXTENDS MessageListCache, MessageWrites_proofs

OwnersAreActive ==
  \A j \in Jobs : queue[j].owner \in Workers => queue[j].state = "active"

\* No other job has changed the row since this one did: executed once more, it
\* would match the row again, and not look for it.
StillMatches(j) ==
  Added(j) /\ (jobs[j].name = "update" => NotNewer(table, jobs[j]))

Cause == abandoned \/ \E j \in Jobs : IsDue(j) /\ StillMatches(j)

EntryHasACause == Stale /\ cached.doubt = "none" => Cause

\* What is about to be stored is like what is stored.
FillsHaveACause ==
  \A r \in Readers :
    /\ readers[r].step = "store" /\ readers[r].doubt = "none"
    /\ readers[r].page # Page(table)
    => Cause

LInv == ListTypeOK /\ OwnersAreActive /\ EntryHasACause /\ FillsHaveACause

QueueSide == WriteSide \/ \E w \in Workers : GiveUp(w)

-----------------------------------------------------------------------------
(* The write path underneath *)

LEMMA WritePathSteps == [ListNext]_allVars => [Next]_vars
<1> SUFFICES ASSUME [ListNext]_allVars PROVE [Next]_vars
  OBVIOUS
<1>1. CASE UNCHANGED allVars
  BY <1>1 DEF allVars
<1>2. CASE WriteSide
  <2>1. NextJob \subseteq Jobs
    BY DEF NextJob
  <2> QED
    BY <1>2, <2>1 DEF WriteSide, Next, WorkerStep
<1>3. ASSUME NEW w \in Workers,
             GiveUp(w) \/ InvalidateList(w) \/ InvalidateFails(w)
      PROVE  Next
  BY <1>3 DEF GiveUp, InvalidateList, InvalidateFails, Next, WorkerStep
<1>4. ASSUME NEW r \in Readers, Hit(r) \/ Miss(r) \/ ReaderStep(r)
      PROVE  vars' = vars
  BY <1>4 DEF Hit, Miss, ReaderStep, GetMessages, GetMessagesFails, Store,
    StoreFails, allVars
<1>5. CASE Tick
  BY <1>5 DEF Tick
<1> QED
  BY <1>1, <1>2, <1>3, <1>4, <1>5 DEF ListNext

THEOREM ListOnWritePath == ListSpec => Spec
<1>1. ListInit => Init
  BY DEF ListInit
<1>2. [ListNext]_allVars => [Next]_vars
  BY WritePathSteps
<1> QED
  BY <1>1, <1>2, PTL DEF ListSpec, Spec

-----------------------------------------------------------------------------
(* Types *)

LEMMA PagesArePages ==
  ASSUME TypeOK
  PROVE  Page(table) \in Pages
<1> DEFINE S == {i \in Ids : Exists(table, i)}
<1>1. \A i \in S : table[i].writer \in [Fields -> Jobs \cup {NoJob}]
  BY DEF TypeOK, Tables, Rows, Exists
<1>2. Page(table) \in [S -> [Fields -> Jobs \cup {NoJob}]]
  BY <1>1 DEF Page
<1>3. S \in SUBSET Ids
  OBVIOUS
<1> HIDE DEF S
<1> QED
  BY <1>2, <1>3 DEF Pages

Fills == [step : {"idle", "miss", "store"}, page : Pages \cup {NoPage}, doubt : Doubts]

StoresArePages ==
  \A r \in Readers : readers[r].step = "store" => readers[r].page \in Pages

LEMMA EntryRecords ==
  ASSUME NEW e \in Entries
  PROVE  /\ \A d \in Doubts : /\ [e EXCEPT !.doubt = d] \in Entries
                              /\ [e EXCEPT !.doubt = d].doubt = d
         /\ e.age + 1 # Ttl => [e EXCEPT !.age = @ + 1] \in Entries
         /\ [e EXCEPT !.age = @ + 1].page = e.page
         /\ [e EXCEPT !.age = @ + 1].doubt = e.doubt
BY CacheAssumption DEF Entries

LEMMA FillRecords ==
  ASSUME NEW f \in Fills
  PROVE  /\ \A d \in Doubts : LET g == [f EXCEPT !.doubt = d] IN
              g \in Fills /\ g.doubt = d /\ g.step = f.step /\ g.page = f.page
         /\ [f EXCEPT !.step = "miss"] \in Fills
         /\ [f EXCEPT !.step = "miss"].step = "miss"
BY DEF Fills

LEMMA MarkFillsType ==
  ASSUME readers \in [Readers -> Fills], NEW d \in Doubts, MarkFills(d)
  PROVE  /\ readers' \in [Readers -> Fills]
         /\ \A r \in Readers : readers'[r].step = "store" =>
              /\ readers[r].step = "store" /\ readers'[r].page = readers[r].page
              /\ readers'[r].doubt = d
<1>1. readers' = [r \in Readers |->
                    IF readers[r].step = "store"
                    THEN [readers[r] EXCEPT !.doubt = d] ELSE readers[r]]
  BY DEF MarkFills
<1>2. \A r \in Readers : readers'[r] \in Fills
  BY <1>1, FillRecords
<1>3. ASSUME NEW r \in Readers, readers'[r].step = "store"
      PROVE  /\ readers[r].step = "store" /\ readers'[r].page = readers[r].page
             /\ readers'[r].doubt = d
  <2>1. CASE readers[r].step = "store"
    BY <1>1, <2>1, FillRecords
  <2>2. CASE readers[r].step # "store"
    BY <1>1, <1>3, <2>2
  <2> QED
    BY <2>1, <2>2
<1> QED
  BY <1>1, <1>2, <1>3

LEMMA ListTypeStep ==
  ASSUME ListTypeOK, TypeOK', [ListNext]_allVars
  PROVE  ListTypeOK'
<1>0. /\ TypeOK /\ cached \in Entries \cup {NoPage}
      /\ readers \in [Readers -> Fills] /\ StoresArePages /\ abandoned \in BOOLEAN
  BY DEF ListTypeOK, Fills, StoresArePages
<1>1. SUFFICES /\ cached' \in Entries \cup {NoPage}
               /\ readers' \in [Readers -> Fills] /\ StoresArePages'
               /\ abandoned' \in BOOLEAN
  BY DEF ListTypeOK, Fills, StoresArePages, Entries, Pages, Doubts
<1>2. CASE UNCHANGED allVars
  BY <1>0, <1>2 DEF allVars, listVars, StoresArePages
<1>3. CASE WriteSide
  BY <1>0, <1>3 DEF WriteSide, listVars, StoresArePages
<1>4. ASSUME NEW w \in Workers, GiveUp(w)
      PROVE  /\ cached' = cached /\ readers' = readers /\ abandoned' \in BOOLEAN
  BY <1>4 DEF GiveUp
<1>5. ASSUME NEW w \in Workers, InvalidateList(w) \/ InvalidateFails(w)
      PROVE  /\ cached' \in Entries \cup {NoPage}
             /\ readers' \in [Readers -> Fills] /\ StoresArePages'
             /\ abandoned' = abandoned
  <2>1. CASE InvalidateList(w)
    BY <1>0, <2>1, MarkFillsType DEF InvalidateList, Doubts, StoresArePages
  <2>2. CASE InvalidateFails(w)
    BY <1>0, <2>2, MarkFillsType, EntryRecords DEF InvalidateFails, Doubts, StoresArePages
  <2> QED
    BY <1>5, <2>1, <2>2
<1>6. ASSUME NEW r \in Readers, Hit(r) \/ Miss(r) \/ ReaderStep(r)
      PROVE  /\ cached' \in Entries \cup {NoPage}
             /\ readers' \in [Readers -> Fills] /\ StoresArePages'
             /\ abandoned' = abandoned
  <2>1. CASE Hit(r)
    BY <1>0, <2>1 DEF Hit, allVars, listVars, StoresArePages
  <2>2. CASE Miss(r)
    BY <1>0, <2>2, FillRecords DEF Miss, StoresArePages
  <2>3. CASE GetMessages(r)
    <3>1. [step |-> "store", page |-> Page(table), doubt |-> "none"] \in Fills
      BY <1>0, PagesArePages DEF Fills, Doubts
    <3> QED
      BY <1>0, <2>3, <3>1, PagesArePages DEF GetMessages, StoresArePages
  <2>4. Away \in Fills /\ Away.step # "store"
    BY DEF Away, Fills, Doubts
  <2>5. CASE GetMessagesFails(r) \/ StoreFails(r)
    BY <1>0, <2>4, <2>5 DEF GetMessagesFails, StoreFails, StoresArePages
  <2>6. CASE Store(r)
    <3>1. [page |-> readers[r].page, age |-> 0, doubt |-> readers[r].doubt]
            \in Entries
      BY <1>0, <2>6, CacheAssumption DEF Store, Fills, Entries, StoresArePages
    <3> QED
      BY <1>0, <2>4, <2>6, <3>1 DEF Store, StoresArePages
  <2> QED
    BY <1>6, <2>1, <2>2, <2>3, <2>5, <2>6 DEF ReaderStep
<1>7. CASE Tick
  BY <1>0, <1>7, EntryRecords DEF Tick, StoresArePages
<1> QED
  BY <1>0, <1>2, <1>3, <1>4, <1>5, <1>6, <1>7 DEF ListNext, StoresArePages

-----------------------------------------------------------------------------
(* Causes stay *)

\* Nothing was done to job j, no worker about to invalidate for it went away,
\* and its owner has not come to the end of it.
LEMMA DueStays ==
  ASSUME NEW j \in Jobs, IsDue(j), queue'[j] = queue[j],
         \A w \in Workers :
           workers[w].job = j /\ At(w, "invalidate") => workers'[w] = workers[w],
         \A w \in Workers :
           /\ queue[j].owner = w /\ workers'[w].job = j
           /\ workers'[w].step \in {"recheck", "done"}
           => workers[w].job = j /\ workers[w].step \in {"recheck", "done"}
  PROVE  IsDue(j)'
BY DEF IsDue, At

LEMMA StillMatchesStays ==
  ASSUME NEW j \in Jobs, StillMatches(j), table' = table,
         jobs' = jobs \/ \E k \in Jobs : /\ jobs[k] = NoJob
                                         /\ \A i \in Jobs \ {k} : jobs'[i] = jobs[i]
  PROVE  StillMatches(j)'
<1>1. jobs'[j] = jobs[j]
  BY DEF StillMatches, Added
<1> QED
  BY <1>1 DEF StillMatches, Added, NotNewer, Exists

\* What the tables of the queue and of the workers become.
LEMMA MovesOf ==
  ASSUME TypeOK, NEW w \in Workers, NEW step \in Steps
  PROVE  /\ Goto(w, step) =>
              /\ workers'[w] = [step |-> step, job |-> workers[w].job]
              /\ \A v \in Workers \ {w} : workers'[v] = workers[v]
         /\ workers' = [workers EXCEPT ![w] = Idle] =>
              /\ workers'[w] = Idle
              /\ \A v \in Workers \ {w} : workers'[v] = workers[v]
<1>1. workers \in [Workers -> [step : Steps, job : Jobs \cup {NoJob}]]
  BY DEF TypeOK
<1>2. [workers[w] EXCEPT !.step = step] = [step |-> step, job |-> workers[w].job]
  BY <1>1
<1> QED
  BY <1>1, <1>2 DEF Goto

LEMMA IdleHasNoJob == Idle.job \notin Jobs /\ Idle.step = "idle"
BY StoreAssumption DEF Idle

LEMMA AddingStays ==
  ASSUME TypeOK, NEW c \in Clients, NEW payload, NEW k \in Jobs, NEW t,
         Enqueue(c, payload, k, t),
         NEW j \in Jobs, IsDue(j), StillMatches(j)
  PROVE  IsDue(j)' /\ StillMatches(j)'
<1>1. /\ jobs[k] = NoJob /\ workers' = workers /\ table' = table
      /\ queue' = [queue EXCEPT ![k].state = "waiting"]
      /\ \A i \in Jobs \ {k} : jobs'[i] = jobs[i]
  BY DEF Enqueue, TypeOK
<1>2. j # k
  BY <1>1 DEF StillMatches, Added
<1>3. queue'[j] = queue[j]
  BY <1>1, <1>2 DEF TypeOK
<1>4. IsDue(j)'
  BY <1>1, <1>3, DueStays
<1>5. StillMatches(j)'
  BY <1>1, StillMatchesStays
<1> QED
  BY <1>4, <1>5

LEMMA TakeStays ==
  ASSUME TypeOK, JobsAreAdded, NEW w \in Workers, Take(w), NEW j \in Jobs, IsDue(j)
  PROVE  IsDue(j)'
<1> DEFINE k == Head(wait)
<1>1. k \in Jobs
  BY FirstWaiting DEF Take
<1>2. /\ At(w, "idle")
      /\ queue' = [queue EXCEPT ![k].state = "active", ![k].owner = w]
      /\ workers' = [workers EXCEPT ![w] = [step |-> "write", job |-> k]]
  BY DEF Take
<1> HIDE DEF k
<1>3. /\ workers'[w] = [step |-> "write", job |-> k]
      /\ \A v \in Workers \ {w} : workers'[v] = workers[v]
  BY <1>2 DEF TypeOK
<1>4. CASE j = k
  <2>1. queue'[j].state = "active" /\ queue'[j].owner = w
    BY <1>1, <1>2, <1>4 DEF TypeOK, QueueRecords
  <2> QED
    BY <1>3, <2>1 DEF IsDue, At
<1>5. CASE j # k
  <2>1. queue'[j] = queue[j]
    BY <1>2, <1>5 DEF TypeOK
  <2>2. ASSUME NEW v \in Workers, workers[v].job = j, At(v, "invalidate")
        PROVE  workers'[v] = workers[v]
    BY <1>2, <1>3, <2>2 DEF At
  <2>3. ASSUME NEW v \in Workers, workers'[v].job = j
        PROVE  workers'[v] = workers[v]
    BY <1>3, <1>5, <2>3
  <2> QED
    BY <2>1, <2>2, <2>3, DueStays
<1> QED
  BY <1>4, <1>5

\* A statement that left the table as it was.
LEMMA WriteStays ==
  ASSUME TypeOK, JobsAreAdded, NEW w \in Workers, Write(w), table' = table,
         NEW j \in Jobs, IsDue(j), StillMatches(j)
  PROVE  IsDue(j)'
<1> DEFINE k == workers[w].job
           next == IF jobs[k].name = "update" /\ ~NotNewer(table, jobs[k])
                   THEN "recheck" ELSE "invalidate"
<1>1. At(w, "write") /\ Goto(w, next) /\ queue' = queue /\ next \in Steps
  BY DEF Write, Steps
<1>2. next = "recheck" => k # j
  BY DEF StillMatches
<1> HIDE DEF next
<1>3. /\ workers'[w] = [step |-> next, job |-> k]
      /\ \A v \in Workers \ {w} : workers'[v] = workers[v]
  BY <1>1, MovesOf
<1>4. CASE k = j /\ next = "invalidate"
  BY <1>3, <1>4 DEF IsDue, At
<1>5. CASE k # j
  <2>1. ASSUME NEW v \in Workers, workers[v].job = j, At(v, "invalidate")
        PROVE  workers'[v] = workers[v]
    BY <1>1, <1>3, <2>1 DEF At
  <2>2. ASSUME NEW v \in Workers, workers'[v].job = j
        PROVE  workers'[v] = workers[v]
    BY <1>3, <1>5, <2>2
  <2> QED
    BY <1>1, <2>1, <2>2, DueStays
<1>6. next \in {"recheck", "invalidate"}
  BY DEF next
<1> QED
  BY <1>2, <1>4, <1>5, <1>6

\* The steps that do not end a job nor begin one.
LEMMA MoveStays ==
  ASSUME TypeOK, NEW w \in Workers, queue' = queue,
         NEW j \in Jobs, IsDue(j),
         \/ At(w, "recheck") /\ \E step \in {"done", "unrecoverable", "error"} : Goto(w, step)
         \/ At(w, "write") /\ Goto(w, "error")
         \/ ~At(w, "invalidate") /\ workers' = [workers EXCEPT ![w] = Idle]
  PROVE  IsDue(j)'
<1>1. \A v \in Workers \ {w} : workers'[v] = workers[v]
  BY MovesOf DEF Steps
<1>2. ~At(w, "invalidate")
  BY DEF At
<1>3. ASSUME NEW v \in Workers, workers[v].job = j, At(v, "invalidate")
      PROVE  workers'[v] = workers[v]
  BY <1>1, <1>2, <1>3
<1>4. ASSUME workers'[w].job = j, workers'[w].step \in {"recheck", "done"}
      PROVE  workers[w].job = j /\ workers[w].step \in {"recheck", "done"}
  <2>1. CASE At(w, "recheck") /\ \E step \in {"done", "unrecoverable", "error"} : Goto(w, step)
    <3>1. PICK step \in {"done", "unrecoverable", "error"} : Goto(w, step)
      BY <2>1
    <3>2. step \in Steps
      BY DEF Steps
    <3>3. workers'[w] = [step |-> step, job |-> workers[w].job]
      BY <3>1, <3>2, MovesOf
    <3> QED
      BY <1>4, <2>1, <3>3 DEF At
  <2>2. CASE At(w, "write") /\ Goto(w, "error")
    <3>1. "error" \in Steps
      BY DEF Steps
    <3>2. workers'[w] = [step |-> "error", job |-> workers[w].job]
      BY <2>2, <3>1, MovesOf
    <3> QED
      BY <1>4, <3>2
  <2>3. CASE workers' = [workers EXCEPT ![w] = Idle]
    BY <1>4, <2>3, MovesOf, IdleHasNoJob DEF Steps
  <2> QED
    BY <2>1, <2>2, <2>3
<1> QED
  BY <1>1, <1>3, <1>4, DueStays

LEMMA ReleasedIs ==
  ASSUME TypeOK, NEW j \in Jobs, NEW state
  PROVE  /\ Released(j, state).state = state
         /\ Released(j, state).owner = NoWorker
         /\ \A n : [Released(j, state) EXCEPT !.attempts = n].state = state
         /\ \A n : [Released(j, state) EXCEPT !.attempts = n].owner = NoWorker
         /\ [Released(j, state) EXCEPT !.stalls = @ + 1].state = state
         /\ [Released(j, state) EXCEPT !.stalls = @ + 1].owner = NoWorker
BY DEF Released, TypeOK, QueueRecords

\* How a worker settles a job: after its invalidation, or to be run again, or as failed.
LEMMA SettleStays ==
  ASSUME TypeOK, JobsAreAdded, OwnersAreActive, NEW w \in Workers,
         Complete(w) \/ FailAttempt(w) \/ FailForGood(w),
         NEW j \in Jobs, IsDue(j)
  PROVE  IsDue(j)'
<1> DEFINE k == workers[w].job
<1>1. PICK step, record :
        /\ Settle(w, step, record)
        /\ step \in {"done", "error", "unrecoverable"}
        /\ k \in Jobs => record.state \in {"completed", "delayed", "failed"}
        /\ k \in Jobs /\ step # "done" => record.state \in {"delayed", "failed"}
  <2>1. CASE Complete(w)
    BY <2>1, ReleasedIs DEF Complete
  <2>2. CASE FailForGood(w)
    BY <2>2, ReleasedIs DEF FailForGood
  <2>3. CASE FailAttempt(w)
    <3> DEFINE made == queue[k].attempts + 1
               record == [Released(k, IF made < Attempts THEN "delayed" ELSE "failed")
                            EXCEPT !.attempts = made]
    <3>1. Settle(w, "error", record)
      BY <2>3 DEF FailAttempt
    <3>2. k \in Jobs => record.state \in {"delayed", "failed"}
      BY ReleasedIs
    <3> HIDE DEF record
    <3> QED
      BY <3>1, <3>2
  <2> QED
    BY <2>1, <2>2, <2>3
<1>2. At(w, step) /\ workers' = [workers EXCEPT ![w] = Idle] /\ ~At(w, "invalidate")
  BY <1>1 DEF Settle, At
<1>3. k \in Jobs
  BY <1>1, <1>2, Executing DEF At
<1>4. CASE queue' = queue
  BY <1>2, <1>4, MoveStays
<1>5. CASE queue[k].owner = w /\ queue' = [queue EXCEPT ![k] = record]
  <2>1. /\ workers'[w] = Idle
        /\ \A v \in Workers \ {w} : workers'[v] = workers[v]
    BY <1>2, MovesOf DEF Steps
  <2>2. ASSUME NEW v \in Workers, workers[v].job = j, At(v, "invalidate")
        PROVE  workers'[v] = workers[v]
    BY <1>2, <2>1, <2>2
  <2>3. CASE j # k
    <3>1. queue'[j] = queue[j]
      BY <1>5, <2>3 DEF TypeOK
    <3>2. ASSUME NEW v \in Workers, workers'[v].job = j
          PROVE  workers'[v] = workers[v]
      BY <2>1, <3>2, IdleHasNoJob
    <3> QED
      BY <2>2, <3>1, <3>2, DueStays
  <2>4. CASE j = k /\ step # "done"
    <3>1. queue'[j].state \in {"delayed", "failed"}
      BY <1>1, <1>3, <1>5, <2>4 DEF TypeOK
    <3> QED
      BY <3>1 DEF IsDue
  <2>5. CASE j = k /\ step = "done"
    <3>1. queue[j].state = "active"
      BY <1>3, <1>5, <2>5 DEF OwnersAreActive
    <3>2. PICK v \in Workers : workers[v].job = j /\ At(v, "invalidate")
      BY <1>2, <1>5, <2>5, <3>1 DEF IsDue
    <3> QED
      BY <2>2, <3>2 DEF IsDue, At
  <2> QED
    BY <2>3, <2>4, <2>5
<1> QED
  BY <1>1, <1>4, <1>5 DEF Settle

LEMMA QueueStays ==
  ASSUME TypeOK, NEW k \in Jobs, Promote(k) \/ Stall(k), NEW j \in Jobs, IsDue(j)
  PROVE  IsDue(j)'
<1>1. workers' = workers
  BY DEF Promote, Stall
<1>2. CASE j # k
  <2>1. queue'[j] = queue[j]
    BY <1>2 DEF Promote, Stall, TypeOK
  <2> QED
    BY <1>1, <2>1, DueStays
<1>3. CASE j = k
  <2>1. queue'[k].state \in {"waiting", "failed"}
    <3>1. CASE Promote(k)
      BY <3>1 DEF Promote, TypeOK, QueueRecords
    <3>2. CASE Stall(k)
      BY <3>2, ReleasedIs DEF Stall, TypeOK
    <3> QED
      BY <3>1, <3>2
  <2> QED
    BY <1>3, <2>1 DEF IsDue
<1> QED
  BY <1>2, <1>3

\* Who owned the job and died is not at it any more: it is active, and stalls.
LEMMA OwnerCrashStays ==
  ASSUME TypeOK, JobsAreAdded, OwnersAreActive, NEW w \in Workers, Crash(w),
         queue[workers[w].job].owner = w, NEW j \in Jobs, IsDue(j)
  PROVE  IsDue(j)'
<1> DEFINE k == workers[w].job
<1>1. ~At(w, "idle") /\ workers' = [workers EXCEPT ![w] = Idle] /\ queue' = queue
  BY DEF Crash
<1>2. /\ workers'[w] = Idle
      /\ \A v \in Workers \ {w} : workers'[v] = workers[v]
  BY <1>1, MovesOf DEF Steps
<1>3. k \in Jobs /\ queue[k].state = "active"
  BY <1>1, Executing DEF OwnersAreActive
<1>4. CASE j = k
  <2>1. ASSUME NEW v \in Workers, queue'[j].owner = v, workers'[v].job = j
        PROVE  FALSE
    BY <1>1, <1>2, <1>4, <2>1, IdleHasNoJob
  <2> QED
    BY <1>1, <1>3, <1>4, <2>1 DEF IsDue
<1>5. CASE j # k
  <2>1. ASSUME NEW v \in Workers, workers[v].job = j
        PROVE  workers'[v] = workers[v]
    BY <1>2, <1>5, <2>1
  <2>2. ASSUME NEW v \in Workers, workers'[v].job = j
        PROVE  workers'[v] = workers[v]
    BY <1>2, <2>2, IdleHasNoJob
  <2> QED
    BY <1>1, <2>1, <2>2, DueStays
<1> QED
  BY <1>4, <1>5

\* A step that leaves the table alone leaves a cause.
LEMMA CauseStays ==
  ASSUME TypeOK, JobsAreAdded, OwnersAreActive, QueueSide, table' = table, Cause
  PROVE  Cause'
<1>1. CASE abandoned
  BY <1>1 DEF Cause, QueueSide, WriteSide, GiveUp, listVars
<1>2. CASE \E j \in Jobs : IsDue(j) /\ StillMatches(j)
  <2>1. PICK j \in Jobs : IsDue(j) /\ StillMatches(j)
    BY <1>2
  <2>2. ASSUME jobs' = jobs, IsDue(j)'
        PROVE  Cause'
    BY <2>1, <2>2, StillMatchesStays DEF Cause
  <2>3. ASSUME NEW c \in Clients, NEW payload, NEW k \in Jobs, NEW t,
               Enqueue(c, payload, k, t)
        PROVE  Cause'
    BY <2>1, <2>3, AddingStays DEF Cause
  <2>4. ASSUME NEW c \in Clients, NEW payload,
               AssertExists(c, payload) \/ EnqueueFails(c)
        PROVE  Cause'
    <3>1. jobs' = jobs /\ queue' = queue /\ workers' = workers
      BY <2>4 DEF AssertExists, EnqueueFails
    <3>2. IsDue(j)'
      BY <2>1, <3>1, DueStays
    <3> QED
      BY <2>2, <3>1, <3>2
  <2>5. ASSUME NEW w \in Workers, Take(w)
        PROVE  Cause'
    BY <2>1, <2>2, <2>5, TakeStays DEF Take
  <2>6. ASSUME NEW w \in Workers, Write(w)
        PROVE  Cause'
    BY <2>1, <2>2, <2>6, WriteStays DEF Write
  <2>7. ASSUME NEW w \in Workers, Recheck(w) \/ RecheckFails(w)
        PROVE  Cause'
    <3>1. /\ jobs' = jobs /\ queue' = queue /\ At(w, "recheck")
          /\ \E step \in {"done", "unrecoverable", "error"} : Goto(w, step)
      BY <2>7 DEF Recheck, RecheckFails
    <3> QED
      BY <2>1, <2>2, <3>1, MoveStays
  <2>8. ASSUME NEW w \in Workers, Complete(w) \/ FailAttempt(w) \/ FailForGood(w)
        PROVE  Cause'
    <3>1. jobs' = jobs
      BY <2>8 DEF Complete, FailAttempt, FailForGood, Settle
    <3> QED
      BY <2>1, <2>2, <2>8, <3>1, SettleStays
  <2>9. ASSUME NEW k \in Jobs, Promote(k) \/ Stall(k)
        PROVE  Cause'
    <3>1. jobs' = jobs
      BY <2>9 DEF Promote, Stall
    <3> QED
      BY <2>1, <2>2, <2>9, <3>1, QueueStays
  <2>10. ASSUME NEW w \in Workers, GiveUp(w)
         PROVE  Cause'
    <3>1. CASE WriteFails(w)
      <4>1. jobs' = jobs /\ queue' = queue /\ At(w, "write") /\ Goto(w, "error")
        BY <3>1 DEF WriteFails
      <4> QED
        BY <2>1, <2>2, <4>1, MoveStays
    <3>2. CASE Crash(w) /\ ~At(w, "invalidate")
      <4>1. jobs' = jobs /\ queue' = queue /\ workers' = [workers EXCEPT ![w] = Idle]
        BY <3>2 DEF Crash
      <4> QED
        BY <2>1, <2>2, <3>2, <4>1, MoveStays
    <3>3. CASE Crash(w) /\ At(w, "invalidate") /\ queue[workers[w].job].owner # w
      <4>1. abandoned'
        BY <2>10, <3>3 DEF GiveUp
      <4> QED
        BY <4>1 DEF Cause
    <3>4. CASE Crash(w) /\ At(w, "invalidate") /\ queue[workers[w].job].owner = w
      BY <2>1, <2>2, <3>4, OwnerCrashStays DEF Crash
    <3> QED
      BY <2>10, <3>1, <3>2, <3>3, <3>4 DEF GiveUp
  <2>11. NextJob \subseteq Jobs
    BY DEF NextJob
  <2> QED
    BY <2>3, <2>4, <2>5, <2>6, <2>7, <2>8, <2>9, <2>10, <2>11
    DEF QueueSide, WriteSide, EnqueueCreate, EnqueueChecked
<1> QED
  BY <1>1, <1>2 DEF Cause

\* A step that changes the table gives a cause.
LEMMA ChangeIsDue ==
  ASSUME TypeOK, TypeOK', JobsAreAdded, OwnersAreActive, QueueSide, table' # table
  PROVE  Cause'
<1>1. PICK w \in Workers : Write(w) \/ (WriteFails(w) /\ GiveUp(w))
  <2>1. \A w \in Workers : /\ ~Take(w) /\ ~Recheck(w) /\ ~RecheckFails(w) /\ ~Crash(w)
                          /\ ~Complete(w) /\ ~FailAttempt(w) /\ ~FailForGood(w)
    BY DEF Take, Recheck, RecheckFails, Crash, Complete, FailAttempt, FailForGood, Settle
  <2>2. \A c \in Clients : \A payload, j, t :
          /\ ~AssertExists(c, payload) /\ ~EnqueueCreate(c, payload, j, t)
          /\ ~EnqueueChecked(c, j, t) /\ ~EnqueueFails(c)
    BY DEF AssertExists, EnqueueCreate, EnqueueChecked, Enqueue, EnqueueFails
  <2>3. \A j \in Jobs : ~Promote(j) /\ ~Stall(j)
    BY DEF Promote, Stall
  <2>4. CASE WriteSide
    BY <2>1, <2>2, <2>3, <2>4 DEF WriteSide
  <2>5. CASE \E w \in Workers : GiveUp(w)
    BY <2>1, <2>5 DEF GiveUp
  <2> QED
    BY <2>4, <2>5 DEF QueueSide
<1>2. At(w, "write")
  BY <1>1 DEF Write, WriteFails
<1>3. PICK k \in Jobs : k = workers[w].job
  BY <1>2, Executing DEF At
<1>4. /\ table' = Apply(table, k, jobs[k])
      /\ jobs' = jobs /\ queue' = queue
  BY <1>1, <1>3 DEF Write, WriteFails
<1>5. jobs[k] \in JobRecords /\ Added(k)
  BY <1>2, <1>3, Executing DEF At, Added
<1>6. jobs[k].name = "update" => NotNewer(table, jobs[k])
  BY <1>4 DEF Apply, UpdateMany
<1>7. StillMatches(k)'
  <2>1. Added(k)'
    BY <1>4, <1>5 DEF Added
  <2>2. ASSUME jobs[k].name = "update"
        PROVE  NotNewer(Apply(table, k, jobs[k]), jobs[k])
    <3>1. table \in Tables /\ jobs[k].timestamp \in Nat
      BY <1>5 DEF TypeOK, JobRecords
    <3>2. /\ Exists(Apply(table, k, jobs[k]), jobs[k].id)
          /\ Apply(table, k, jobs[k])[jobs[k].id].updatedAt = jobs[k].timestamp
      BY <1>5, <1>6, <2>2, <3>1, UpdatedColumns
    <3> QED
      BY <3>1, <3>2 DEF NotNewer
  <2>3. jobs[k].name = "update" => NotNewer(table, jobs[k])'
    BY <1>4, <2>2 DEF NotNewer, Exists
  <2> QED
    BY <1>4, <2>1, <2>3 DEF StillMatches
<1>8. CASE Write(w)
  <2>1. Goto(w, "invalidate") /\ "invalidate" \in Steps
    BY <1>3, <1>6, <1>8 DEF Write, Steps
  <2>2. workers'[w] = [step |-> "invalidate", job |-> k]
    BY <1>3, <2>1, MovesOf
  <2>3. IsDue(k)'
    BY <2>2 DEF IsDue, At
  <2> QED
    BY <1>7, <2>3 DEF Cause
<1>9. CASE GiveUp(w) /\ queue[k].owner # w
  BY <1>3, <1>9 DEF GiveUp, Cause
<1>10. CASE WriteFails(w) /\ queue[k].owner = w
  <2>1. queue[k].state = "active"
    BY <1>10 DEF OwnersAreActive
  <2>2. Goto(w, "error") /\ "error" \in Steps
    BY <1>10 DEF WriteFails, Steps
  <2>3. workers'[w] = [step |-> "error", job |-> k]
    BY <1>3, <2>2, MovesOf
  <2>4. IsDue(k)'
    BY <1>4, <1>10, <2>1, <2>3 DEF IsDue, At
  <2> QED
    BY <1>7, <2>4 DEF Cause
<1> QED
  BY <1>1, <1>8, <1>9, <1>10

-----------------------------------------------------------------------------
(* The invariant *)

LEMMA OwnersStep ==
  ASSUME TypeOK, JobsAreAdded, OwnersAreActive, [Next]_vars
  PROVE  OwnersAreActive'
<1>0. queue \in [Jobs -> QueueRecords]
  BY DEF TypeOK
<1>1. CASE queue' = queue
  BY <1>1 DEF OwnersAreActive
<1>2. ASSUME NEW c \in Clients, NEW payload, NEW k \in Jobs, NEW t,
             Enqueue(c, payload, k, t)
      PROVE  OwnersAreActive'
  <2>1. queue[k].state = "none"
    BY <1>0, <1>2 DEF JobsAreAdded, Added, Enqueue
  <2>2. queue[k].owner \notin Workers
    BY <2>1 DEF OwnersAreActive
  <2>3. queue' = [queue EXCEPT ![k].state = "waiting"]
    BY <1>2 DEF Enqueue
  <2> QED
    BY <1>0, <2>2, <2>3 DEF OwnersAreActive, QueueRecords
<1>3. ASSUME NEW w \in Workers, Take(w)
      PROVE  OwnersAreActive'
  <2>1. PICK k \in Jobs : queue' = [queue EXCEPT ![k].state = "active", ![k].owner = w]
    BY <1>3, FirstWaiting DEF Take
  <2> QED
    BY <1>0, <2>1 DEF OwnersAreActive, QueueRecords
<1>4. ASSUME NEW k \in Jobs, NEW record, record.owner = NoWorker,
             queue' = [queue EXCEPT ![k] = record]
      PROVE  OwnersAreActive'
  BY <1>0, <1>4, WritesAssumption DEF OwnersAreActive
<1>5. ASSUME NEW w \in Workers, Complete(w) \/ FailAttempt(w) \/ FailForGood(w),
             queue' # queue
      PROVE  OwnersAreActive'
  <2> DEFINE k == workers[w].job
             made == queue[k].attempts + 1
             record == [Released(k, IF made < Attempts THEN "delayed" ELSE "failed")
                          EXCEPT !.attempts = made]
  <2>1. k \in Jobs
    BY <1>5, Executing DEF Complete, FailAttempt, FailForGood, Settle, At
  <2>2. \/ queue' = [queue EXCEPT ![k] = Released(k, "completed")]
        \/ queue' = [queue EXCEPT ![k] = Released(k, "failed")]
        \/ queue' = [queue EXCEPT ![k] = record]
    BY <1>5 DEF Complete, FailAttempt, FailForGood, Settle
  <2>3. /\ Released(k, "completed").owner = NoWorker
        /\ Released(k, "failed").owner = NoWorker /\ record.owner = NoWorker
    BY <2>1, ReleasedIs
  <2> HIDE DEF record, k
  <2> QED
    BY <1>4, <2>1, <2>2, <2>3
<1>6. ASSUME NEW k \in Jobs, Stall(k)
      PROVE  OwnersAreActive'
  <2>1. PICK state : queue' = [queue EXCEPT ![k] = [Released(k, state) EXCEPT !.stalls = @ + 1]]
    BY <1>6 DEF Stall
  <2> QED
    BY <1>4, <2>1, ReleasedIs
<1>7. ASSUME NEW k \in Jobs, Promote(k)
      PROVE  OwnersAreActive'
  <2>1. queue[k].owner \notin Workers
    BY <1>7 DEF Promote, OwnersAreActive
  <2> QED
    BY <1>0, <1>7, <2>1 DEF Promote, OwnersAreActive, QueueRecords
<1> QED
  BY <1>1, <1>2, <1>3, <1>5, <1>6, <1>7
  DEF Next, WorkerStep, AssertExists, EnqueueCreate, EnqueueChecked, EnqueueFails,
      Write, WriteFails, Recheck, RecheckFails, Invalidate, Crash, vars

LEMMA EntryStep ==
  ASSUME LInv, TypeOK', JobsAreAdded, [ListNext]_allVars
  PROVE  EntryHasACause' /\ FillsHaveACause'
<1>0. /\ TypeOK /\ cached \in Entries \cup {NoPage}
      /\ readers \in [Readers -> Fills] /\ StoresArePages
  BY DEF LInv, ListTypeOK, Fills, StoresArePages
<1>1. CASE QueueSide
  <2>1. cached' = cached /\ readers' = readers
    BY <1>1 DEF QueueSide, WriteSide, GiveUp, listVars
  <2>2. CASE table' # table
    <3>1. Cause'
      BY <1>0, <1>1, <2>2, ChangeIsDue DEF LInv
    <3> QED
      BY <3>1 DEF EntryHasACause, FillsHaveACause
  <2>3. CASE table' = table
    <3>1. Page(table)' = Page(table)
      BY <2>3
    <3>2. Cause => Cause'
      BY <1>0, <1>1, <2>3, CauseStays DEF LInv
    <3> QED
      BY <2>1, <3>1, <3>2 DEF LInv, EntryHasACause, FillsHaveACause, Stale
  <2> QED
    BY <2>2, <2>3
<1>2. ASSUME vars' = vars, abandoned' = abandoned
      PROVE  (Cause <=> Cause') /\ Page(table)' = Page(table)
  <2>1. /\ jobs' = jobs /\ queue' = queue /\ workers' = workers /\ table' = table
    BY <1>2 DEF vars
  <2> QED
    BY <1>2, <2>1 DEF Cause, IsDue, StillMatches, Added, NotNewer, Exists, At, Page
<1>3. ASSUME vars' = vars, abandoned' = abandoned,
             cached' # NoPage /\ cached'.doubt = "none" /\ cached'.page # Page(table) =>
               \/ cached # NoPage /\ cached.doubt = "none" /\ cached.page # Page(table)
               \/ \E r \in Readers :
                    /\ readers[r].step = "store" /\ readers[r].doubt = "none"
                    /\ readers[r].page # Page(table),
             \A r \in Readers :
               /\ readers'[r].step = "store" /\ readers'[r].doubt = "none"
               /\ readers'[r].page # Page(table)
               => readers'[r] = readers[r]
      PROVE  EntryHasACause' /\ FillsHaveACause'
  BY <1>2, <1>3 DEF LInv, EntryHasACause, FillsHaveACause, Stale
<1>4. ASSUME NEW w \in Workers, InvalidateList(w) \/ InvalidateFails(w)
      PROVE  EntryHasACause' /\ FillsHaveACause'
  <2>1. PICK d \in {"raced", "survived"} : MarkFills(d)
    BY <1>4 DEF InvalidateList, InvalidateFails
  <2>2. d \in Doubts /\ d # "none"
    BY DEF Doubts
  <2>3. \A r \in Readers : readers'[r].step = "store" => readers'[r].doubt = d
    BY <1>0, <2>1, <2>2, MarkFillsType
  <2>4. cached' = NoPage \/ cached'.doubt # "none"
    BY <1>0, <1>4, EntryRecords DEF InvalidateList, InvalidateFails, Doubts
  <2> QED
    BY <2>2, <2>3, <2>4 DEF EntryHasACause, FillsHaveACause, Stale
<1>5. ASSUME NEW r \in Readers, Hit(r) \/ Miss(r) \/ ReaderStep(r)
      PROVE  EntryHasACause' /\ FillsHaveACause'
  <2>1. CASE Hit(r)
    BY <1>3, <2>1 DEF Hit, allVars, listVars
  <2>2. CASE Miss(r)
    <3>1. /\ vars' = vars /\ cached' = cached /\ abandoned' = abandoned
          /\ readers' = [readers EXCEPT ![r].step = "miss"]
      BY <2>2 DEF Miss
    <3>2. readers'[r].step = "miss" /\ \A q \in Readers \ {r} : readers'[q] = readers[q]
      BY <1>0, <3>1, FillRecords
    <3> QED
      BY <1>3, <3>1, <3>2
  <2>3. CASE GetMessages(r)
    <3>1. /\ vars' = vars /\ cached' = cached /\ abandoned' = abandoned
          /\ readers' = [readers EXCEPT ![r] = [step |-> "store", page |-> Page(table),
                                                doubt |-> "none"]]
      BY <2>3 DEF GetMessages
    <3>2. /\ readers'[r].page = Page(table)
          /\ \A q \in Readers \ {r} : readers'[q] = readers[q]
      BY <1>0, <3>1
    <3> QED
      BY <1>3, <3>1, <3>2
  <2>4. ASSUME readers' = [readers EXCEPT ![r] = Away]
        PROVE  /\ readers'[r].step = "idle"
               /\ \A q \in Readers \ {r} : readers'[q] = readers[q]
    BY <1>0, <2>4 DEF Away
  <2>5. CASE GetMessagesFails(r) \/ StoreFails(r)
    BY <1>3, <2>4, <2>5 DEF GetMessagesFails, StoreFails
  <2>6. CASE Store(r)
    <3>1. /\ cached'.page = readers[r].page /\ cached'.doubt = readers[r].doubt
          /\ readers[r].step = "store" /\ vars' = vars /\ abandoned' = abandoned
      BY <2>6 DEF Store
    <3> QED
      BY <1>3, <2>4, <2>6, <3>1 DEF Store
  <2> QED
    BY <1>5, <2>1, <2>2, <2>3, <2>5, <2>6 DEF ReaderStep
<1>6. CASE Tick
  <2>1. /\ vars' = vars /\ readers' = readers /\ abandoned' = abandoned
        /\ cached # NoPage
        /\ cached' # NoPage => cached' = [cached EXCEPT !.age = @ + 1]
    BY <1>6 DEF Tick
  <2>2. cached' # NoPage => cached'.page = cached.page /\ cached'.doubt = cached.doubt
    BY <1>0, <2>1, EntryRecords
  <2> QED
    BY <1>3, <2>1, <2>2
<1>7. CASE UNCHANGED allVars
  BY <1>3, <1>7 DEF allVars, listVars
<1> QED
  BY <1>1, <1>4, <1>5, <1>6, <1>7 DEF ListNext, QueueSide

\* The invariant holds at the start and no step of either side breaks it.
THEOREM ListInvariance == ListSpec => []LInv
<1>1. ListInit => LInv
  <2> SUFFICES ASSUME ListInit PROVE LInv
    OBVIOUS
  <2>1. TypeOK
    BY TypeInit DEF ListInit
  <2>2. /\ cached = NoPage /\ abandoned = FALSE
        /\ readers = [r \in Readers |-> Away] /\ Away \in Fills /\ Away.step # "store"
    BY DEF ListInit, Away, Fills, Doubts
  <2>3. ListTypeOK
    BY <2>1, <2>2 DEF ListTypeOK, Fills
  <2>4. OwnersAreActive
    BY WritesAssumption DEF ListInit, Init, OwnersAreActive
  <2> QED
    BY <2>2, <2>3, <2>4 DEF LInv, EntryHasACause, FillsHaveACause, Stale
<1>2. LInv /\ IInv /\ IInv' /\ [ListNext]_allVars => LInv'
  <2> SUFFICES ASSUME LInv, IInv, IInv', [ListNext]_allVars PROVE LInv'
    OBVIOUS
  <2>1. ListTypeOK /\ OwnersAreActive /\ TypeOK /\ JobsAreAdded /\ TypeOK'
    BY DEF LInv, IInv
  <2>2. ListTypeOK'
    BY <2>1, ListTypeStep
  <2>3. OwnersAreActive'
    BY <2>1, WritePathSteps, OwnersStep
  <2>4. EntryHasACause' /\ FillsHaveACause'
    BY <2>1, EntryStep
  <2> QED
    BY <2>2, <2>3, <2>4 DEF LInv
<1> QED
  BY <1>1, <1>2, ListOnWritePath, Invariance, PTL DEF ListSpec

\* Every step of the list keeps its variables in their types: nothing but a page
\* of the table is ever stored (getMessages, the cache plugin's onSend).
THEOREM ListTypeCorrect == ListSpec => []ListTypeOK
<1>1. LInv => ListTypeOK
  BY DEF LInv
<1> QED
  BY <1>1, ListInvariance, PTL

\* A list that differs from the table is one that a fill stored across an
\* invalidation or that survived a failed one, or some job is yet to invalidate
\* it, or a worker without its job's lock ended before it could.
THEOREM StaleHasACause == ListSpec => []StalePageHasACause
<1>1. LInv => StalePageHasACause
  BY DEF LInv, EntryHasACause, Cause, StalePageHasACause
<1> QED
  BY <1>1, ListInvariance, PTL

=============================================================================
