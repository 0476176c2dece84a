-------------------------- MODULE MessageListCache --------------------------
(***************************************************************************)
(* GET /messages behind the response cache, composed with the write path.  *)
(* The cache plugin looks a route's key up before the handler runs and     *)
(* stores the reply after it; workers drop the whole namespace after a     *)
(* write.  One key stands for all: invalidate unlinks every key of the     *)
(* namespace, each at some moment of its scan.                             *)
(***************************************************************************)
EXTENDS MessageWrites

CONSTANTS Readers,   \* GET requests in flight
          NoPage,    \* "nothing under the key", "no page in hand"
          Ttl        \* lifetime of an entry, in ticks

ASSUME CacheAssumption == Ttl \in Nat \ {0}

VARIABLES cached,    \* the entry under the key
          readers,   \* what each GET is doing
          abandoned  \* history: a worker without the lock ended short of `invalidate'

listVars == <<cached, readers, abandoned>>

allVars == <<vars, listVars>>

\* What a page shows: the columns of the rows, not updatedAt.
Page(t) == [id \in {i \in Ids : Exists(t, i)} |-> t[id].writer]

Pages == UNION {[S -> [Fields -> Jobs \cup {NoJob}]] : S \in SUBSET Ids}

\* Why an entry may outlive a write (a history variable): an invalidation
\* ran while the entry was being filled, or failed to remove it.
Doubts == {"none", "raced", "survived"}

Entries == [page : Pages, age : 0..(Ttl - 1), doubt : Doubts]

ListTypeOK ==
  /\ TypeOK
  /\ cached \in Entries \cup {NoPage}
  /\ readers \in [Readers -> [step : {"idle", "miss", "store"},
                              page : Pages \cup {NoPage}, doubt : Doubts]]
  /\ \A r \in Readers : readers[r].step = "store" => readers[r].page \in Pages
  /\ abandoned \in BOOLEAN

Away == [step |-> "idle", page |-> NoPage, doubt |-> "none"]

ListInit ==
  /\ Init
  /\ cached = NoPage
  /\ readers = [r \in Readers |-> Away]
  /\ abandoned = FALSE

-----------------------------------------------------------------------------
(* The reader *)

\* Mutant of Hit: the entry's lifetime starts again.
HitProlongs(r) ==
  /\ readers[r].step = "idle"
  /\ cached # NoPage
  /\ cached' = [cached EXCEPT !.age = 0]
  /\ UNCHANGED <<vars, readers, abandoned>>

\* preHandler: on a hit the stored reply is sent and onSend stores nothing.
Hit(r) ==
  /\ readers[r].step = "idle"
  /\ cached # NoPage
  /\ UNCHANGED allVars

\* preHandler: nothing stored, or Redis failed (a read fails open).
Miss(r) ==
  /\ readers[r].step = "idle"
  /\ readers' = [readers EXCEPT ![r].step = "miss"]
  /\ UNCHANGED <<vars, cached, abandoned>>

\* The handler: getMessages reads the page.
GetMessages(r) ==
  /\ readers[r].step = "miss"
  /\ readers' = [readers EXCEPT ![r] = [step |-> "store", page |-> Page(table),
                                        doubt |-> "none"]]
  /\ UNCHANGED <<vars, cached, abandoned>>

\* The handler throws: the reply is no 200 and nothing is stored.
GetMessagesFails(r) ==
  /\ readers[r].step = "miss"
  /\ readers' = [readers EXCEPT ![r] = Away]
  /\ UNCHANGED <<vars, cached, abandoned>>

\* onSend: the reply is stored with a fresh lifetime.
Store(r) ==
  /\ readers[r].step = "store"
  /\ cached' = [page |-> readers[r].page, age |-> 0, doubt |-> readers[r].doubt]
  /\ readers' = [readers EXCEPT ![r] = Away]
  /\ UNCHANGED <<vars, abandoned>>

\* onSend: a failing write of the cache is logged and the reply still sent.
StoreFails(r) ==
  /\ readers[r].step = "store"
  /\ readers' = [readers EXCEPT ![r] = Away]
  /\ UNCHANGED <<vars, cached, abandoned>>

-----------------------------------------------------------------------------
(* The cache *)

\* Redis drops an entry whose lifetime is over.
Tick ==
  /\ cached # NoPage
  /\ cached' = IF cached.age + 1 = Ttl THEN NoPage ELSE [cached EXCEPT !.age = @ + 1]
  /\ UNCHANGED <<vars, readers, abandoned>>

\* Fills that have read the table already will store what they read.
MarkFills(doubt) ==
  readers' = [r \in Readers |->
                IF readers[r].step = "store"
                THEN [readers[r] EXCEPT !.doubt = doubt] ELSE readers[r]]

\* A worker's invalidate: the entry goes.
InvalidateList(w) ==
  /\ Invalidate(w)
  /\ cached' = NoPage
  /\ MarkFills("raced")
  /\ UNCHANGED abandoned

\* Redis failed: the error is logged, the entry stays and the job goes on.
InvalidateFails(w) ==
  /\ Invalidate(w)
  /\ cached' = IF cached = NoPage THEN NoPage ELSE [cached EXCEPT !.doubt = "survived"]
  /\ MarkFills("survived")
  /\ UNCHANGED abandoned

-----------------------------------------------------------------------------

\* BullMQ numbers the jobs; which is which makes no difference to the list.
NextJob ==
  LET unused == {j \in Jobs : jobs[j] = NoJob}
  IN IF unused = {} THEN {} ELSE {CHOOSE j \in unused : TRUE}

\* A worker that dies after its write, or does not learn that it committed,
\* does not invalidate.  If it has lost the lock of its job by then, nobody runs
\* the job again in its place.
GiveUp(w) ==
  /\ WriteFails(w) \/ Crash(w)
  /\ abandoned' = \/ abandoned
                  \/ /\ queue[workers[w].job].owner # w
                     /\ At(w, "invalidate") \/ table' # table
  /\ UNCHANGED <<cached, readers>>

\* The other steps of the write path that leave the cache alone.
WriteSide ==
  /\ \/ \E c \in Clients :
          \/ \E payload \in Workload : AssertExists(c, payload)
          \/ \E j \in NextJob, t \in 0..MaxClock :
               \/ \E payload \in Workload : EnqueueCreate(c, payload, j, t)
               \/ EnqueueChecked(c, j, t)
          \/ EnqueueFails(c)
     \/ \E w \in Workers :
          \/ Take(w) \/ Write(w) \/ Recheck(w) \/ RecheckFails(w)
          \/ Complete(w) \/ FailAttempt(w) \/ FailForGood(w)
     \/ \E j \in Jobs : Promote(j) \/ Stall(j)
  /\ UNCHANGED listVars

ReaderStep(r) ==
  \/ GetMessages(r) \/ GetMessagesFails(r) \/ Store(r) \/ StoreFails(r)

ListNext ==
  \/ WriteSide
  \/ \E w \in Workers : GiveUp(w) \/ InvalidateList(w) \/ InvalidateFails(w)
  \/ \E r \in Readers : Hit(r) \/ Miss(r) \/ ReaderStep(r)
  \/ Tick

ListSpec == ListInit /\ [][ListNext]_allVars

-----------------------------------------------------------------------------
(* Properties *)

Stale == cached # NoPage /\ cached.page # Page(table)

\* The entry is to be invalidated for job j: somebody is about to do it, or the
\* job is still to be executed to its end, or has failed short of it.
IsDue(j) ==
  \/ queue[j].state \in {"waiting", "delayed", "failed"}
  \/ \E w \in Workers : workers[w].job = j /\ At(w, "invalidate")
  \/ /\ queue[j].state = "active"
     /\ \A w \in Workers : queue[j].owner = w /\ workers[w].job = j
          => ~At(w, "recheck") /\ ~At(w, "done")

\* After each write the list cache is invalidated.  An entry that differs
\* from the table has a reason: it was filled across an invalidation or
\* survived a failed one, a job is yet to invalidate it, or a worker without
\* the lock of its job ended in between.  A job that is run again after a crash
\* therefore has to invalidate even when its write is already in the table.
StalePageHasACause ==
  Stale /\ cached.doubt = "none" /\ ~abandoned => \E j \in Jobs : IsDue(j)

\* Redis forgets entries, and every GET is answered.
ListFairness ==
  /\ WF_allVars(Tick)
  /\ \A r \in Readers : WF_allVars(ReaderStep(r))

FairListSpec == ListSpec /\ ListFairness

\* An entry lives for its TTL however often it is hit: once the table stops
\* changing, the list stops differing from it, even if every invalidation
\* failed and every fill raced one.
EventuallyFresh == <>[](~Stale) \/ []<><<table' # table>>_allVars
=============================================================================
