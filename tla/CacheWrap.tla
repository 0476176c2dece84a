----------------------------- MODULE CacheWrap ------------------------------
(***************************************************************************)
(* cacheService.wrap: read-through caching of one key by callers of any    *)
(* number of processes.  A caller that misses takes a lock in Redis (SET   *)
(* NX PX), one that finds it taken polls for the value and, when it waited *)
(* too long, runs the resolver all the same.  Time passes in poll          *)
(* intervals; every Redis command is atomic.                               *)
(***************************************************************************)
EXTENDS Naturals

CONSTANTS Callers,   \* calls in flight, one at a time each
          Nobody,    \* "no lock"
          LockTtl,   \* CACHE_LOCK_TTL_MS, in poll intervals
          MaxWait,   \* CACHE_LOCK_MAX_WAIT_MS, in poll intervals
          EntryTtl,  \* the ttl of the entry, in poll intervals
          MaxHold,   \* longest an acquirer that is not slow has the lock
          Faults     \* what may go wrong where something does

ASSUME WrapAssumption ==
  /\ Nobody \notin Callers
  /\ LockTtl \in Nat \ {0}
  /\ MaxWait \in Nat \ {0}
  /\ EntryTtl \in Nat \ {0}
  /\ MaxHold \in 0..(LockTtl - 1)
  /\ Faults \subseteq {"slow", "redis", "resolver", "crash", "invalidate"}

VARIABLES entry,     \* how long the value under the key still lives, 0: none
          lock,      \* who set the lock key (Redis has only "1") and its lease
          callers,   \* where each call is
          overrun,   \* history: whether a lease was over before its work was
          faults     \* what may go wrong in this behaviour

vars == <<entry, lock, callers, overrun, faults>>

\* `got' is what acquireLock returned; `time' is the rest of a waiter's
\* patience, or how long ago an acquirer got the lock, LockTtl if longer.
CallerRecords ==
  [step : {"idle", "lock", "wait", "poll", "resolve", "store", "release"},
   got : {"none", "acquired", "taken", "unavailable"}, time : Nat]

WrapTypeOK ==
  /\ entry \in 0..EntryTtl
  /\ lock \in [holder : Callers \cup {Nobody}, lease : 0..LockTtl]
  /\ callers \in [Callers -> CallerRecords]
  /\ lock.holder = Nobody <=> lock.lease = 0
  /\ overrun \in BOOLEAN
  /\ faults \in {{}, Faults}

Idle == [step |-> "idle", got |-> "none", time |-> 0]

Free == [holder |-> Nobody, lease |-> 0]

Init ==
  /\ entry = 0
  /\ lock = Free
  /\ callers = [c \in Callers |-> Idle]
  /\ overrun = FALSE
  /\ faults \in {{}, Faults}

-----------------------------------------------------------------------------

At(c, step) == callers[c].step = step

Goto(c, record) == callers' = [callers EXCEPT ![c] = record]

Proceed(c, step) == callers' = [callers EXCEPT ![c].step = step]

MayFail == "redis" \in faults

\* The first read finds the value and the call returns it.
Hit(c) ==
  /\ At(c, "idle")
  /\ entry > 0
  /\ UNCHANGED vars

\* It finds nothing, or Redis fails or holds something unreadable.
Miss(c) ==
  /\ At(c, "idle")
  /\ entry = 0 \/ MayFail
  /\ Proceed(c, "lock")
  /\ UNCHANGED <<entry, lock, overrun, faults>>

Locked(c) == [holder |-> c, lease |-> LockTtl]

\* Mutant of Acquire: SET without NX.
AcquireAnyway(c) ==
  /\ At(c, "lock")
  /\ lock' = Locked(c)
  /\ Goto(c, [step |-> "resolve", got |-> "acquired", time |-> 0])
  /\ UNCHANGED <<entry, overrun, faults>>

Acquire(c) ==
  /\ At(c, "lock")
  /\ lock = Free
  /\ lock' = Locked(c)
  /\ Goto(c, [step |-> "resolve", got |-> "acquired", time |-> 0])
  /\ UNCHANGED <<entry, overrun, faults>>

\* Mutant of FindTaken: SET without NX tells that there was a lock, and has
\* renewed its lease.
FindTakenRenews(c) ==
  /\ At(c, "lock")
  /\ lock # Free
  /\ lock' = [lock EXCEPT !.lease = LockTtl]
  /\ Goto(c, [step |-> "wait", got |-> "taken", time |-> MaxWait])
  /\ UNCHANGED <<entry, overrun, faults>>

FindTaken(c) ==
  /\ At(c, "lock")
  /\ lock # Free
  /\ Goto(c, [step |-> "wait", got |-> "taken", time |-> MaxWait])
  /\ UNCHANGED <<entry, lock, overrun, faults>>

\* The command fails, or is carried out and its answer is lost.
FindUnavailable(c) ==
  /\ At(c, "lock")
  /\ MayFail
  /\ lock' \in {lock, IF lock = Free THEN Locked(c) ELSE lock}
  /\ Goto(c, [step |-> "resolve", got |-> "unavailable", time |-> 0])
  /\ UNCHANGED <<entry, overrun, faults>>

\* waitForCache after a sleep: return the value, sleep again, or give up.
PollHit(c) ==
  /\ At(c, "poll")
  /\ entry > 0
  /\ Goto(c, Idle)
  /\ UNCHANGED <<entry, lock, overrun, faults>>

\* Mutant of PollMiss: every poll sets a new deadline.
PollForever(c) ==
  /\ At(c, "poll")
  /\ entry = 0 \/ MayFail
  /\ Goto(c, [callers[c] EXCEPT !.step = "wait", !.time = MaxWait])
  /\ UNCHANGED <<entry, lock, overrun, faults>>

PollMiss(c) ==
  /\ At(c, "poll")
  /\ entry = 0 \/ MayFail
  /\ Proceed(c, IF callers[c].time > 0 THEN "wait" ELSE "resolve")
  /\ UNCHANGED <<entry, lock, overrun, faults>>

-----------------------------------------------------------------------------

\* Mutant of Finally: every caller removes the lock.
FinallyAlways(c) == Proceed(c, "release")

\* The `finally' clause: only a caller that acquired the lock removes it.
Finally(c) ==
  IF callers[c].got = "acquired" THEN Proceed(c, "release") ELSE Goto(c, Idle)

Resolve(c) ==
  /\ At(c, "resolve")
  /\ Proceed(c, "store")
  /\ UNCHANGED <<entry, lock, overrun, faults>>

ResolverThrows(c) ==
  /\ At(c, "resolve")
  /\ "resolver" \in faults
  /\ Finally(c)
  /\ UNCHANGED <<entry, lock, overrun, faults>>

\* set never throws: a failed write of the value is logged.
Store(c) ==
  /\ At(c, "store")
  /\ entry' = EntryTtl
  /\ Finally(c)
  /\ UNCHANGED <<lock, overrun, faults>>

StoreFails(c) ==
  /\ At(c, "store")
  /\ MayFail
  /\ Finally(c)
  /\ UNCHANGED <<entry, lock, overrun, faults>>

\* remove unlinks the lock key, whoever set it.
Release(c) ==
  /\ At(c, "release")
  /\ lock' = Free
  /\ Goto(c, Idle)
  /\ UNCHANGED <<entry, overrun, faults>>

ReleaseFails(c) ==
  /\ At(c, "release")
  /\ MayFail
  /\ Goto(c, Idle)
  /\ UNCHANGED <<entry, lock, overrun, faults>>

-----------------------------------------------------------------------------

\* The caller's process dies; the lock key stays.
Crash(c) ==
  /\ "crash" \in faults
  /\ ~At(c, "idle")
  /\ Goto(c, Idle)
  /\ UNCHANGED <<entry, lock, overrun, faults>>

\* Somebody removes the key or invalidates its namespace.
Invalidate ==
  /\ "invalidate" \in faults
  /\ entry > 0
  /\ entry' = 0
  /\ UNCHANGED <<lock, callers, overrun, faults>>

\* Who must act before more time passes: a waiter that woke up; an acquirer only
\* if none is slow, as nothing bounds the time of the resolver and of Redis.
Due(c) ==
  \/ At(c, "poll")
  \/ /\ "slow" \notin faults
     /\ callers[c].got = "acquired" /\ callers[c].time >= MaxHold

\* Redis drops the lock when its lease is over.
AgedLock == IF lock.lease > 1 THEN [lock EXCEPT !.lease = @ - 1] ELSE Free

\* Its lease runs out while c, which acquired it, is still at work.
LosesLease(c) == callers[c].got = "acquired" /\ lock = [holder |-> c, lease |-> 1]

\* A poll interval passes: sleepers wake up, keys grow older and expire.
Tick ==
  /\ \A c \in Callers : ~Due(c)
  /\ entry' = IF entry > 0 THEN entry - 1 ELSE 0
  /\ lock' = AgedLock
  /\ overrun' = (overrun \/ \E c \in Callers : LosesLease(c))
  /\ callers' = [c \in Callers |->
       CASE callers[c].step = "wait" ->
              [callers[c] EXCEPT !.step = "poll", !.time = @ - 1]
         [] callers[c].got = "acquired" ->
              [callers[c] EXCEPT !.time = IF @ < LockTtl THEN @ + 1 ELSE @]
         [] OTHER -> callers[c]]
  /\ UNCHANGED faults

CallerStep(c) ==
  \/ Acquire(c) \/ FindTaken(c) \/ FindUnavailable(c)
  \/ PollHit(c) \/ PollMiss(c)
  \/ Resolve(c) \/ ResolverThrows(c)
  \/ Store(c) \/ StoreFails(c)
  \/ Release(c) \/ ReleaseFails(c)

Next ==
  \/ \E c \in Callers : Hit(c) \/ Miss(c) \/ CallerStep(c) \/ Crash(c)
  \/ Invalidate
  \/ Tick

Spec == Init /\ [][Next]_vars

\* Calls that run make progress (a resolver settles), and time passes.
Fairness ==
  /\ \A c \in Callers : WF_vars(CallerStep(c))
  /\ WF_vars(Tick)

FairSpec == Spec /\ Fairness

-----------------------------------------------------------------------------
(* Properties *)

Resolving(c) == At(c, "resolve")

\* Single flight (wrap): while resolvers are quicker than the patience of
\* the waiters and the lease of the lock, and nothing fails, two callers
\* never run the resolver at the same time.
OneResolverAtATime ==
  faults = {} => \A c, d \in Callers : Resolving(c) /\ Resolving(d) => c = d

\* As long as no lease was over before the work it protects, nobody takes the
\* lock of another caller: what wrap unlinks in its finally clause is its own,
\* after failures of Redis, crashes and timeouts too.  Once one was, the lock of
\* the next holder is removed, and of the one after, and so on.
OnlyHolderReleases ==
  [][\A c \in Callers :
       /\ At(c, "release") /\ callers'[c] = Idle
       /\ lock # Free /\ lock' = Free
       => overrun \/ lock.holder = c]_vars

\* ARCHITECTURE.md:283-285: wrap "takes a short-lived Redis lock (SET ... NX PX)
\* so only one caller runs the resolver while the rest wait for that result".
\* Of those that acquired the lock, and have had it no longer than its lease,
\* one at most runs the resolver.
LeaseExcludesOthers ==
  \A c, d \in Callers :
    /\ Resolving(c) /\ callers[c].got = "acquired" /\ callers[c].time < LockTtl
    /\ Resolving(d) /\ callers[d].got = "acquired" /\ callers[d].time < LockTtl
    => c = d

\* No caller waits for ever for a value nobody will store: the holder may
\* die, its resolver throw, its write fail, the value be invalidated.
EveryCallReturns ==
  \A c \in Callers : callers[c].step # "idle" ~> callers[c].step = "idle"

\* The lock of a caller that died, or could not remove it, goes away.
LockIsFreed ==
  \A c \in Callers : lock.holder = c ~> lock.holder # c
=============================================================================
