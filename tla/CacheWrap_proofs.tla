-------------------------- MODULE CacheWrap_proofs --------------------------
(***************************************************************************)
(* What wrap guarantees for every number of callers and every choice of    *)
(* the timings: who removes the lock, and when the flight is single.       *)
(***************************************************************************)
EXTENDS CacheWrap, TLAPS

-----------------------------------------------------------------------------
(* The lock *)

Acquired(c) == callers[c].got = "acquired"

\* As long as no lease was over too early, an acquirer still has the lock, and
\* its lease is what it has not used up.
HasLock ==
  ~overrun => \A c \in Callers : Acquired(c) =>
    /\ lock.holder = c
    /\ lock.lease + callers[c].time = LockTtl

\* If no acquirer is slow, no lease is ever over too early.
Punctual ==
  "slow" \notin faults =>
    /\ ~overrun
    /\ \A c \in Callers : Acquired(c) => callers[c].time <= MaxHold

StepsMatch ==
  \A c \in Callers :
    /\ callers[c].step \in {"idle", "lock"} => callers[c].got = "none"
    /\ callers[c].step \in {"wait", "poll"} => callers[c].got = "taken"
    /\ callers[c].step = "release" => Acquired(c)

WaitersHaveTime ==
  \A c \in Callers : callers[c].step = "wait" => callers[c].time > 0

LockInv == WrapTypeOK /\ HasLock /\ Punctual /\ StepsMatch /\ WaitersHaveTime

LEMMA LockInvInit == Init => LockInv
<1> SUFFICES ASSUME Init PROVE LockInv
  OBVIOUS
<1>1. WrapTypeOK
  <2>1. Idle \in CallerRecords
    BY DEF Idle, CallerRecords
  <2>2. /\ Free \in [holder : Callers \cup {Nobody}, lease : 0..LockTtl]
        /\ Free.holder = Nobody /\ Free.lease = 0
    BY WrapAssumption DEF Free
  <2>3. 0 \in 0..EntryTtl
    BY WrapAssumption
  <2> QED
    BY <2>1, <2>2, <2>3 DEF Init, WrapTypeOK
<1>2. overrun = FALSE /\ \A c \in Callers : callers[c] = Idle
  BY DEF Init
<1>3. HasLock /\ Punctual /\ StepsMatch /\ WaitersHaveTime
  BY <1>2 DEF HasLock, Punctual, StepsMatch, WaitersHaveTime, Acquired, Idle
<1> QED
  BY <1>1, <1>3 DEF LockInv

\* An action that moves one caller to a record that fits the lock, and
\* leaves the lock to whoever acquired it, keeps the invariant.
LEMMA OneCallerMoves ==
  ASSUME LockInv,
         NEW c \in Callers, NEW r \in CallerRecords, Goto(c, r),
         entry' \in 0..EntryTtl, UNCHANGED <<lock, overrun, faults>>,
         r.got = "acquired" => Acquired(c) /\ r.time = callers[c].time,
         r.step \in {"idle", "lock"} => r.got = "none",
         r.step \in {"wait", "poll"} => r.got = "taken",
         r.step = "release" => r.got = "acquired",
         r.step = "wait" => r.time > 0
  PROVE  LockInv'
<1>1. callers \in [Callers -> CallerRecords] /\ callers'[c] = r
  BY DEF LockInv, WrapTypeOK, Goto
<1>2. \A d \in Callers : d # c => callers'[d] = callers[d]
  BY DEF LockInv, WrapTypeOK, Goto
<1>3. WrapTypeOK'
  BY <1>1 DEF LockInv, WrapTypeOK, Goto
<1>4. HasLock' /\ Punctual'
  BY <1>1, <1>2 DEF LockInv, HasLock, Punctual, Acquired
<1>5. StepsMatch'
  BY <1>1, <1>2 DEF LockInv, StepsMatch, Acquired
<1>6. WaitersHaveTime'
  BY <1>1, <1>2 DEF LockInv, WaitersHaveTime
<1> QED
  BY <1>3, <1>4, <1>5, <1>6 DEF LockInv

LEMMA LockInvStep ==
  ASSUME LockInv, [Next]_vars
  PROVE  LockInv'
<1> USE WrapAssumption
<1>0. callers \in [Callers -> CallerRecords]
  BY DEF LockInv, WrapTypeOK
<1>1. ASSUME UNCHANGED vars PROVE LockInv'
  BY <1>1 DEF vars, LockInv, WrapTypeOK, HasLock, Punctual, StepsMatch,
          WaitersHaveTime, Acquired
<1>2. ASSUME NEW c \in Callers, Hit(c) PROVE LockInv'
  BY <1>1, <1>2 DEF Hit
<1>3. ASSUME NEW c \in Callers, Miss(c) PROVE LockInv'
  <2> DEFINE r == [callers[c] EXCEPT !.step = "lock"]
  <2>1. r \in CallerRecords /\ r.got = "none" /\ r.step = "lock"
    BY <1>0, <1>3 DEF Miss, At, CallerRecords, LockInv, StepsMatch
  <2>2. Goto(c, r) /\ entry' \in 0..EntryTtl /\ UNCHANGED <<lock, overrun, faults>>
    BY <1>0, <1>3 DEF Miss, Proceed, Goto, LockInv, WrapTypeOK
  <2> HIDE DEF r
  <2> QED
    BY <2>1, <2>2, OneCallerMoves
<1>4. ASSUME NEW c \in Callers, Acquire(c) PROVE LockInv'
  <2>1. \A d \in Callers : d # c => callers'[d] = callers[d]
    BY <1>0, <1>4 DEF Acquire, Goto
  <2>2. callers'[c] = [step |-> "resolve", got |-> "acquired", time |-> 0]
    BY <1>0, <1>4 DEF Acquire, Goto
  <2>3. /\ lock' = [holder |-> c, lease |-> LockTtl]
        /\ UNCHANGED <<entry, overrun, faults>>
    BY <1>4 DEF Acquire, Locked
  <2>4. WrapTypeOK'
    <3>1. callers' \in [Callers -> CallerRecords]
      BY <1>0, <1>4 DEF Acquire, Goto, CallerRecords
    <3> QED
      BY <3>1, <2>3 DEF LockInv, WrapTypeOK
  <2>5. HasLock' /\ Punctual'
    <3>1. ~overrun => \A d \in Callers : ~Acquired(d)
      BY <1>4 DEF Acquire, LockInv, HasLock, Free
    <3>2. HasLock'
      BY <2>1, <2>2, <2>3, <3>1 DEF HasLock, Acquired
    <3> QED
      BY <2>1, <2>2, <2>3, <3>2 DEF LockInv, Punctual, Acquired
  <2>6. StepsMatch'
    BY <2>1, <2>2 DEF LockInv, StepsMatch, Acquired
  <2>7. WaitersHaveTime'
    BY <2>1, <2>2 DEF LockInv, WaitersHaveTime
  <2> QED
    BY <2>4, <2>5, <2>6, <2>7 DEF LockInv
<1>5. ASSUME NEW c \in Callers, FindTaken(c) PROVE LockInv'
  <2> DEFINE r == [step |-> "wait", got |-> "taken", time |-> MaxWait]
  <2>1. r \in CallerRecords
    BY DEF CallerRecords
  <2>2. Goto(c, r) /\ entry' \in 0..EntryTtl /\ UNCHANGED <<lock, overrun, faults>>
    BY <1>5 DEF FindTaken, LockInv, WrapTypeOK
  <2> QED
    BY <2>1, <2>2, OneCallerMoves
<1>6. ASSUME NEW c \in Callers, FindUnavailable(c) PROVE LockInv'
  <2> DEFINE r == [step |-> "resolve", got |-> "unavailable", time |-> 0]
  <2>1. r \in CallerRecords
    BY DEF CallerRecords
  <2>2. Goto(c, r) /\ entry' \in 0..EntryTtl
    BY <1>6 DEF FindUnavailable, LockInv, WrapTypeOK
  <2>3. CASE UNCHANGED <<lock, overrun, faults>>
    BY <2>1, <2>2, <2>3, OneCallerMoves
  <2>4. CASE lock = Free /\ lock' = Locked(c)
    <3>1. \A d \in Callers : callers'[d] = IF d = c THEN r ELSE callers[d]
      BY <1>0, <2>2 DEF Goto
    <3>2. ~overrun => \A d \in Callers : ~Acquired(d)
      BY <2>4 DEF LockInv, HasLock, Free
    <3>3. WrapTypeOK' /\ overrun' = overrun /\ faults' = faults
      BY <1>0, <1>6, <2>1, <2>2, <2>4
      DEF FindUnavailable, LockInv, WrapTypeOK, Goto, Locked
    <3>4. HasLock' /\ Punctual'
      BY <3>1, <3>2, <3>3 DEF LockInv, HasLock, Punctual, Acquired
    <3>5. StepsMatch'
      BY <3>1 DEF LockInv, StepsMatch, Acquired
    <3>6. WaitersHaveTime'
      BY <3>1 DEF LockInv, WaitersHaveTime
    <3> QED
      BY <3>3, <3>4, <3>5, <3>6 DEF LockInv
  <2> QED
    BY <2>3, <2>4, <1>6 DEF FindUnavailable
<1>7. ASSUME NEW c \in Callers, PollHit(c) PROVE LockInv'
  <2>1. Idle \in CallerRecords /\ Idle.got = "none" /\ Idle.step = "idle"
    BY DEF Idle, CallerRecords
  <2>2. Goto(c, Idle) /\ entry' \in 0..EntryTtl /\ UNCHANGED <<lock, overrun, faults>>
    BY <1>7 DEF PollHit, LockInv, WrapTypeOK
  <2> QED
    BY <2>1, <2>2, OneCallerMoves
<1>8. ASSUME NEW c \in Callers, PollMiss(c) PROVE LockInv'
  <2> DEFINE step == IF callers[c].time > 0 THEN "wait" ELSE "resolve"
             r == [callers[c] EXCEPT !.step = step]
  <2>1. /\ r \in CallerRecords /\ r.got = "taken"
        /\ r.step \in {"wait", "resolve"} /\ (r.step = "wait" => r.time > 0)
    BY <1>0, <1>8 DEF PollMiss, At, CallerRecords, LockInv, StepsMatch
  <2>2. Goto(c, r) /\ entry' \in 0..EntryTtl /\ UNCHANGED <<lock, overrun, faults>>
    BY <1>0, <1>8 DEF PollMiss, Proceed, Goto, LockInv, WrapTypeOK
  <2> HIDE DEF r
  <2> QED
    BY <2>1, <2>2, OneCallerMoves
<1>9. ASSUME NEW c \in Callers, Resolve(c) PROVE LockInv'
  <2> DEFINE r == [callers[c] EXCEPT !.step = "store"]
  <2>1. /\ r \in CallerRecords /\ r.step = "store"
        /\ r.got = callers[c].got /\ r.time = callers[c].time
    BY <1>0 DEF CallerRecords
  <2>2. Goto(c, r) /\ entry' \in 0..EntryTtl /\ UNCHANGED <<lock, overrun, faults>>
    BY <1>0, <1>9 DEF Resolve, Proceed, Goto, LockInv, WrapTypeOK
  <2> HIDE DEF r
  <2> QED
    BY <2>1, <2>2, OneCallerMoves DEF Acquired
<1>10. ASSUME NEW c \in Callers, Finally(c), entry' \in 0..EntryTtl,
              UNCHANGED <<lock, overrun, faults>>
       PROVE  LockInv'
  <2>1. CASE Acquired(c)
    <3> DEFINE r == [callers[c] EXCEPT !.step = "release"]
    <3>1. /\ r \in CallerRecords /\ r.step = "release"
          /\ r.got = "acquired" /\ r.time = callers[c].time
      BY <1>0, <2>1 DEF CallerRecords, Acquired
    <3>2. Goto(c, r)
      BY <1>0, <1>10, <2>1 DEF Finally, Proceed, Goto, Acquired
    <3> HIDE DEF r
    <3> QED
      BY <3>1, <3>2, <2>1, <1>10, OneCallerMoves
  <2>2. CASE ~Acquired(c)
    <3>1. Idle \in CallerRecords /\ Idle.got = "none" /\ Idle.step = "idle"
      BY DEF Idle, CallerRecords
    <3>2. Goto(c, Idle)
      BY <1>10, <2>2 DEF Finally, Acquired
    <3> QED
      BY <3>1, <3>2, <1>10, OneCallerMoves
  <2> QED
    BY <2>1, <2>2
<1>11. ASSUME NEW c \in Callers, ResolverThrows(c) PROVE LockInv'
  BY <1>10, <1>11 DEF ResolverThrows, LockInv, WrapTypeOK
<1>12. ASSUME NEW c \in Callers, Store(c) PROVE LockInv'
  BY <1>10, <1>12 DEF Store
<1>13. ASSUME NEW c \in Callers, StoreFails(c) PROVE LockInv'
  BY <1>10, <1>13 DEF StoreFails, LockInv, WrapTypeOK
<1>14. ASSUME NEW c \in Callers, Release(c) PROVE LockInv'
  <2>1. \A d \in Callers : callers'[d] = IF d = c THEN Idle ELSE callers[d]
    BY <1>0, <1>14 DEF Release, Goto
  <2>2. ~overrun => \A d \in Callers : Acquired(d) => d = c
    BY <1>14 DEF Release, At, LockInv, HasLock, StepsMatch
  <2>3. WrapTypeOK'
    BY <1>0, <1>14 DEF LockInv, WrapTypeOK, Release, Goto, Free, Idle, CallerRecords
  <2>4. HasLock' /\ Punctual'
    BY <1>14, <2>1, <2>2
    DEF Release, LockInv, HasLock, Punctual, Acquired, Idle
  <2>5. StepsMatch'
    BY <2>1 DEF LockInv, StepsMatch, Acquired, Idle
  <2>6. WaitersHaveTime'
    BY <2>1 DEF LockInv, WaitersHaveTime, Idle
  <2> QED
    BY <2>3, <2>4, <2>5, <2>6 DEF LockInv
<1>15. ASSUME NEW c \in Callers, Goto(c, Idle), UNCHANGED <<entry, lock, overrun, faults>>
       PROVE  LockInv'
  <2>1. Idle \in CallerRecords /\ Idle.got = "none" /\ Idle.step = "idle"
    BY DEF Idle, CallerRecords
  <2> QED
    BY <1>15, <2>1, OneCallerMoves DEF LockInv, WrapTypeOK
<1>16. ASSUME NEW c \in Callers, ReleaseFails(c) PROVE LockInv'
  BY <1>15, <1>16 DEF ReleaseFails
<1>17. ASSUME NEW c \in Callers, Crash(c) PROVE LockInv'
  BY <1>15, <1>17 DEF Crash
<1>18. ASSUME Invalidate PROVE LockInv'
  BY <1>18 DEF Invalidate, LockInv, WrapTypeOK, HasLock, Punctual, StepsMatch,
          WaitersHaveTime, Acquired
<1>19. ASSUME Tick PROVE LockInv'
  <2> DEFINE Older(c) ==
        CASE callers[c].step = "wait" ->
               [callers[c] EXCEPT !.step = "poll", !.time = @ - 1]
          [] callers[c].got = "acquired" ->
               [callers[c] EXCEPT !.time = IF @ < LockTtl THEN @ + 1 ELSE @]
          [] OTHER -> callers[c]
  <2>1. \A c \in Callers : callers'[c] = Older(c)
    BY <1>19 DEF Tick
  <2>2. \A c \in Callers : Older(c) \in CallerRecords
    <3>1. ASSUME NEW c \in Callers, callers[c].step = "wait"
          PROVE  Older(c) \in CallerRecords
      <4>1. callers[c].time \in Nat /\ callers[c].time > 0
        BY <1>0, <3>1 DEF LockInv, WaitersHaveTime, CallerRecords
      <4>2. callers[c].time - 1 \in Nat
        BY <4>1
      <4>3. Older(c) = [step |-> "poll", got |-> callers[c].got,
                        time |-> callers[c].time - 1]
        <5>1. Older(c) = [callers[c] EXCEPT !.step = "poll", !.time = @ - 1]
          BY <3>1 DEF LockInv, StepsMatch
        <5>2. callers[c] \in CallerRecords
          BY <1>0
        <5> QED
          BY <5>1, <5>2 DEF CallerRecords
      <4>4. callers[c].got \in {"none", "acquired", "taken", "unavailable"}
        BY <1>0 DEF CallerRecords
      <4> HIDE DEF Older
      <4> QED
        BY <4>2, <4>3, <4>4 DEF CallerRecords
    <3>2. ASSUME NEW c \in Callers, callers[c].step # "wait"
          PROVE  Older(c) \in CallerRecords
      BY <1>0, <3>2 DEF CallerRecords
    <3> QED
      BY <3>1, <3>2
  <2>3. ASSUME NEW c \in Callers, Acquired(c)
        PROVE  /\ callers[c].time \in Nat
               /\ callers'[c].time =
                    IF callers[c].time < LockTtl THEN callers[c].time + 1
                                                 ELSE callers[c].time
    <3>1. callers[c].step # "wait"
      BY <2>3 DEF LockInv, StepsMatch, Acquired
    <3>2. Older(c) = [callers[c] EXCEPT !.time = IF @ < LockTtl THEN @ + 1 ELSE @]
      BY <2>3, <3>1 DEF Acquired
    <3>3. callers[c] \in CallerRecords
      BY <1>0
    <3> HIDE DEF Older
    <3> QED
      BY <2>1, <3>2, <3>3 DEF CallerRecords
  <2>4. \A c \in Callers : callers'[c].got = callers[c].got
    BY <1>0, <2>1 DEF CallerRecords
  <2>5. WrapTypeOK'
    <3>1. callers' \in [Callers -> CallerRecords]
      <4>1. callers' = [c \in Callers |-> Older(c)]
        BY <1>19 DEF Tick
      <4> HIDE DEF Older
      <4> QED
        BY <4>1, <2>2
    <3>2. entry' \in 0..EntryTtl
      <4>1. entry' = IF entry > 0 THEN entry - 1 ELSE 0
        BY <1>19 DEF Tick
      <4>2. entry \in 0..EntryTtl
        BY DEF LockInv, WrapTypeOK
      <4> QED
        BY <4>1, <4>2
    <3>3. overrun' \in BOOLEAN /\ faults' = faults
      BY <1>19 DEF Tick, LockInv, WrapTypeOK
    <3>4. CASE lock.lease > 1
      <4>1. lock' = [lock EXCEPT !.lease = @ - 1]
        BY <1>19, <3>4 DEF Tick, AgedLock
      <4> QED
        BY <3>1, <3>2, <3>3, <3>4, <4>1 DEF LockInv, WrapTypeOK
    <3>5. CASE ~(lock.lease > 1)
      <4>1. lock' = Free
        BY <1>19, <3>5 DEF Tick, AgedLock
      <4> QED
        BY <3>1, <3>2, <3>3, <4>1 DEF LockInv, WrapTypeOK, Free
    <3> QED
      BY <3>4, <3>5
  <2>6. HasLock'
    <3>1. ASSUME NEW c \in Callers, ~overrun', Acquired(c)'
          PROVE  lock'.holder = c /\ lock'.lease + callers'[c].time = LockTtl
      <4>1. ~overrun /\ ~LosesLease(c)
        BY <1>19, <3>1 DEF Tick
      <4>2. Acquired(c)
        BY <2>4, <3>1 DEF Acquired
      <4>3. lock.holder = c /\ lock.lease + callers[c].time = LockTtl
        BY <4>1, <4>2 DEF LockInv, HasLock
      <4>4. lock \in [holder : Callers \cup {Nobody}, lease : 0..LockTtl]
        BY DEF LockInv, WrapTypeOK
      <4>5. lock.lease > 1
        <5>1. lock.lease # 0
          BY <4>3 DEF LockInv, WrapTypeOK
        <5>2. lock.lease # 1
          BY <4>1, <4>2, <4>3, <4>4 DEF LosesLease, Acquired
        <5> QED
          BY <4>4, <5>1, <5>2
      <4>6. lock' = [lock EXCEPT !.lease = @ - 1]
        BY <1>19, <4>5 DEF Tick, AgedLock
      <4>7. lock'.holder = lock.holder /\ lock'.lease = lock.lease - 1
        BY <4>4, <4>6
      <4>8. lock.lease \in Nat /\ callers[c].time < LockTtl
        <5>1. lock.lease \in Nat
          BY <4>4
        <5> QED
          BY <2>3, <4>2, <4>3, <4>5, <5>1
      <4>9. callers[c].time \in Nat /\ callers'[c].time = callers[c].time + 1
        BY <2>3, <4>2, <4>8
      <4> HIDE DEF Older
      <4> QED
        BY <4>3, <4>7, <4>8, <4>9
    <3> QED
      BY <3>1 DEF HasLock
  <2>7. Punctual'
    <3> SUFFICES ASSUME "slow" \notin faults
                 PROVE  /\ ~overrun'
                        /\ \A c \in Callers : Acquired(c)' => callers'[c].time <= MaxHold
      BY <1>19 DEF Punctual, Tick
    <3>1. ASSUME NEW c \in Callers, Acquired(c)
          PROVE  callers[c].time < MaxHold
      <4>1. ~Due(c)
        BY <1>19 DEF Tick
      <4> QED
        BY <2>3, <3>1, <4>1 DEF Due, Acquired
    <3>2. ASSUME NEW c \in Callers, LosesLease(c) PROVE FALSE
      <4>1. Acquired(c) /\ lock.lease = 1
        BY <3>2 DEF LosesLease, Acquired
      <4>2. lock.lease + callers[c].time = LockTtl
        BY <4>1 DEF LockInv, HasLock, Punctual
      <4>3. callers[c].time \in Nat /\ callers[c].time < MaxHold
        BY <2>3, <3>1, <4>1
      <4> HIDE DEF Older
      <4> QED
        BY <4>1, <4>2, <4>3
    <3>3. ~overrun'
      BY <1>19, <3>2 DEF Tick, LockInv, Punctual
    <3>4. ASSUME NEW c \in Callers, Acquired(c)' PROVE callers'[c].time <= MaxHold
      <4>1. Acquired(c)
        BY <2>4, <3>4 DEF Acquired
      <4>2. callers[c].time \in Nat /\ callers[c].time < MaxHold
        BY <2>3, <3>1, <4>1
      <4>3. callers'[c].time = callers[c].time + 1
        BY <2>3, <4>1, <4>2
      <4> HIDE DEF Older
      <4> QED
        BY <4>2, <4>3
    <3> QED
      BY <3>3, <3>4
  <2>8. StepsMatch'
    <3>1. ASSUME NEW c \in Callers, callers[c].step = "wait"
          PROVE  callers'[c].step = "poll" /\ callers'[c].got = "taken"
      BY <1>0, <2>1, <3>1 DEF CallerRecords, LockInv, StepsMatch
    <3>2. ASSUME NEW c \in Callers, callers[c].step # "wait"
          PROVE  callers'[c].step = callers[c].step
      BY <1>0, <2>1, <3>2 DEF CallerRecords
    <3> QED
      BY <2>4, <3>1, <3>2 DEF LockInv, StepsMatch, Acquired
  <2>9. WaitersHaveTime'
    <3>1. ASSUME NEW c \in Callers PROVE callers'[c].step # "wait"
      <4>1. CASE callers[c].step = "wait"
        BY <1>0, <2>1, <4>1 DEF CallerRecords, LockInv, StepsMatch
      <4>2. CASE callers[c].step # "wait"
        BY <1>0, <2>1, <4>2 DEF CallerRecords
      <4> QED
        BY <4>1, <4>2
    <3> QED
      BY <3>1 DEF WaitersHaveTime
  <2> QED
    BY <2>5, <2>6, <2>7, <2>8, <2>9 DEF LockInv
<1> QED
  BY <1>1, <1>2, <1>3, <1>4, <1>5, <1>6, <1>7, <1>8, <1>9, <1>11, <1>12, <1>13,
     <1>14, <1>16, <1>17, <1>18, <1>19
  DEF Next, CallerStep

\* As long as no lease was over before the work under it, wrap removes only the
\* lock its caller holds, whatever else fails (OnlyHolderReleases).
THEOREM LockIsNotStolen == Spec => OnlyHolderReleases
<1>1. Init => LockInv
  BY LockInvInit
<1>2. LockInv /\ [Next]_vars => LockInv'
  BY LockInvStep
<1>3. LockInv /\ [Next]_vars =>
        [\A c \in Callers :
           /\ At(c, "release") /\ callers'[c] = Idle
           /\ lock # Free /\ lock' = Free
           => overrun \/ lock.holder = c]_vars
  BY DEF LockInv, StepsMatch, HasLock, Acquired, At
<1> QED
  BY <1>1, <1>2, <1>3, PTL DEF Spec, OnlyHolderReleases

\* The type invariant of wrap, with resolvers of any length.
THEOREM WrapTypeCorrect == Spec => []WrapTypeOK
<1>1. LockInv => WrapTypeOK
  BY DEF LockInv
<1> QED
  BY <1>1, LockInvInit, LockInvStep, PTL DEF Spec

-----------------------------------------------------------------------------
(* Single flight *)

\* Resolvers are quicker than the patience of the waiters (and, as none is slow,
\* than the lease), and a value outlives the poll that looks for it.
QuickTimings == MaxHold < MaxWait /\ MaxHold + 2 <= EntryTtl

\* ... and nothing fails in this behaviour.
Quick == QuickTimings /\ faults = {}

OnlyAcquirersResolve ==
  \A c \in Callers : callers[c].step \in {"resolve", "store"} => Acquired(c)

LockHasAcquirer == lock = Free \/ \E c \in Callers : Acquired(c)

\* What an acquirer stored is still there when it removes the lock.
StoredLives ==
  \A c \in Callers : At(c, "release") => entry + callers[c].time >= EntryTtl

Waiting(w) == callers[w].step \in {"wait", "poll"}

\* An acquirer will store the value before w gives up.
Serves(c, w) ==
  /\ Acquired(c)
  /\ callers[c].step \in {"resolve", "store"}
  /\ callers[c].time + callers[w].time > MaxHold

\* The value will be there at the next poll of w.
Ready(w) == entry > (IF callers[w].step = "wait" THEN 1 ELSE 0)

WaitersAreServed ==
  \A w \in Callers : Waiting(w) => Ready(w) \/ \E c \in Callers : Serves(c, w)

FlightInv ==
  /\ LockInv
  /\ OnlyAcquirersResolve
  /\ LockHasAcquirer
  /\ StoredLives
  /\ WaitersAreServed

LEMMA FlightInvInit == Init => FlightInv
<1> SUFFICES ASSUME Init PROVE FlightInv
  OBVIOUS
<1>1. lock = Free /\ \A c \in Callers : callers[c].step = "idle"
  BY DEF Init, Idle
<1> QED
  BY <1>1, LockInvInit
  DEF FlightInv, OnlyAcquirersResolve, LockHasAcquirer, StoredLives,
      WaitersAreServed, Waiting, At

LEMMA OneAcquirer ==
  ASSUME LockInv, ~overrun,
         NEW c \in Callers, NEW d \in Callers, Acquired(c), Acquired(d)
  PROVE  c = d /\ lock # Free
  BY WrapAssumption DEF LockInv, HasLock, Free

LEMMA CallerTypes ==
  ASSUME LockInv, Quick, NEW c \in Callers
  PROVE  /\ ~overrun
         /\ callers[c] \in CallerRecords
         /\ callers[c].time \in Nat
         /\ entry \in Nat
         /\ Acquired(c) => callers[c].time <= MaxHold
         /\ Acquired(c) => callers[c].step \in {"resolve", "store", "release"}
<1>1. callers[c] \in CallerRecords /\ entry \in 0..EntryTtl
  BY DEF LockInv, WrapTypeOK
<1>2. callers[c].time \in Nat /\ entry \in Nat
  BY <1>1, WrapAssumption DEF CallerRecords
<1>3. ~overrun /\ (Acquired(c) => callers[c].time <= MaxHold)
  BY DEF LockInv, Punctual, Quick
<1>4. Acquired(c) => callers[c].step \in {"resolve", "store", "release"}
  BY <1>1 DEF CallerRecords, LockInv, StepsMatch, Acquired
<1> QED
  BY <1>1, <1>2, <1>3, <1>4

\* A move of a caller that is no acquirer to a step where it does not wait.
LEMMA BystanderMoves ==
  ASSUME FlightInv, LockInv',
         NEW c \in Callers, ~Acquired(c), UNCHANGED <<entry, lock>>,
         \A d \in Callers : d # c => callers'[d] = callers[d],
         callers'[c].step \in {"idle", "lock"}
  PROVE  FlightInv'
<1>1. OnlyAcquirersResolve'
  BY DEF FlightInv, OnlyAcquirersResolve, Acquired
<1>2. LockHasAcquirer'
  BY DEF FlightInv, LockHasAcquirer, Acquired
<1>3. StoredLives'
  BY DEF FlightInv, StoredLives, At
<1>4. WaitersAreServed'
  <2> SUFFICES ASSUME NEW w \in Callers, Waiting(w)'
               PROVE  Ready(w)' \/ \E d \in Callers : Serves(d, w)'
    BY DEF WaitersAreServed
  <2>1. w # c /\ callers'[w] = callers[w] /\ Waiting(w)
    BY DEF Waiting
  <2>2. CASE Ready(w)
    BY <2>1, <2>2 DEF Ready
  <2>3. CASE \E d \in Callers : Serves(d, w)
    <3>1. PICK d \in Callers : Serves(d, w)
      BY <2>3
    <3>2. callers'[d] = callers[d]
      BY <3>1 DEF Serves
    <3> QED
      BY <2>1, <3>1, <3>2 DEF Serves, Acquired
  <2> QED
    BY <2>1, <2>2, <2>3 DEF FlightInv, WaitersAreServed
<1> QED
  BY <1>1, <1>2, <1>3, <1>4 DEF FlightInv

LEMMA FlightInvStep ==
  ASSUME Quick, FlightInv, [Next]_vars
  PROVE  FlightInv'
<1> USE WrapAssumption DEF QuickTimings
<1>0. LockInv /\ LockInv' /\ ~overrun
  BY LockInvStep DEF FlightInv, LockInv, Punctual, Quick
<1>1. callers \in [Callers -> CallerRecords]
  BY <1>0 DEF LockInv, WrapTypeOK
<1>2. ASSUME UNCHANGED vars PROVE FlightInv'
  BY <1>0, <1>2
  DEF vars, FlightInv, OnlyAcquirersResolve, LockHasAcquirer, StoredLives,
      WaitersAreServed, Waiting, Serves, Ready, Acquired, At
<1>3. ASSUME NEW c \in Callers, Hit(c) PROVE FlightInv'
  BY <1>2, <1>3 DEF Hit
<1>4. ASSUME NEW c \in Callers, Miss(c) PROVE FlightInv'
  <2>1. ~Acquired(c)
    BY <1>0, <1>4 DEF Miss, At, LockInv, StepsMatch, Acquired
  <2>2. /\ callers'[c].step = "lock"
        /\ \A d \in Callers : d # c => callers'[d] = callers[d]
    BY <1>1, <1>4 DEF Miss, Proceed, CallerRecords
  <2> QED
    BY <1>0, <1>4, <2>1, <2>2, BystanderMoves DEF Miss
<1>5. ASSUME NEW c \in Callers, Acquire(c) PROVE FlightInv'
  <2>1. \A d \in Callers : ~Acquired(d)
    BY <1>0, <1>5, OneAcquirer DEF Acquire
  <2>2. /\ callers'[c] = [step |-> "resolve", got |-> "acquired", time |-> 0]
        /\ \A d \in Callers : d # c => callers'[d] = callers[d]
        /\ entry' = entry
    BY <1>1, <1>5 DEF Acquire, Goto
  <2>3. OnlyAcquirersResolve'
    BY <2>1, <2>2 DEF FlightInv, OnlyAcquirersResolve, Acquired
  <2>4. LockHasAcquirer'
    BY <2>2 DEF LockHasAcquirer, Acquired
  <2>5. StoredLives'
    BY <2>2 DEF FlightInv, StoredLives, At
  <2>6. WaitersAreServed'
    BY <2>1, <2>2 DEF FlightInv, WaitersAreServed, Waiting, Ready, Serves
  <2> QED
    BY <1>0, <2>3, <2>4, <2>5, <2>6 DEF FlightInv
<1>6. ASSUME NEW c \in Callers, FindTaken(c) PROVE FlightInv'
  <2>1. ~Acquired(c)
    BY <1>0, <1>6 DEF FindTaken, At, LockInv, StepsMatch, Acquired
  <2>2. /\ callers'[c] = [step |-> "wait", got |-> "taken", time |-> MaxWait]
        /\ \A d \in Callers : d # c => callers'[d] = callers[d]
        /\ UNCHANGED <<entry, lock>>
    BY <1>1, <1>6 DEF FindTaken, Goto
  <2>3. OnlyAcquirersResolve'
    BY <2>2 DEF FlightInv, OnlyAcquirersResolve, Acquired
  <2>4. LockHasAcquirer'
    BY <2>1, <2>2 DEF FlightInv, LockHasAcquirer, Acquired
  <2>5. StoredLives'
    BY <2>2 DEF FlightInv, StoredLives, At
  <2>6. ASSUME NEW w \in Callers, w # c, Waiting(w)'
        PROVE  Ready(w)' \/ \E d \in Callers : Serves(d, w)'
    <3>1. callers'[w] = callers[w] /\ Waiting(w)
      BY <2>2, <2>6 DEF Waiting
    <3>2. \A d \in Callers : Serves(d, w) => Serves(d, w)'
      BY <2>1, <2>2, <3>1 DEF Serves, Acquired
    <3>3. Ready(w) => Ready(w)'
      BY <2>2, <3>1 DEF Ready
    <3> QED
      BY <3>1, <3>2, <3>3 DEF FlightInv, WaitersAreServed
  <2>7. Ready(c)' \/ \E d \in Callers : Serves(d, c)'
    <3>1. PICK d \in Callers : Acquired(d)
      BY <1>6 DEF FindTaken, FlightInv, LockHasAcquirer
    <3>2. d # c /\ callers'[d] = callers[d]
      BY <2>1, <2>2, <3>1
    <3>3. /\ callers[d].time \in Nat /\ entry \in Nat
          /\ callers[d].time <= MaxHold
          /\ callers[d].step \in {"resolve", "store", "release"}
      BY <1>0, <3>1, CallerTypes
    <3>4. CASE callers[d].step = "release"
      <4>1. entry + callers[d].time >= EntryTtl
        BY <3>4 DEF FlightInv, StoredLives, At
      <4>2. entry > 1
        BY <3>3, <4>1 DEF Quick
      <4> QED
        BY <2>2, <4>2 DEF Ready
    <3>5. CASE callers[d].step \in {"resolve", "store"}
      <4>1. callers'[d].time + callers'[c].time > MaxHold
        BY <2>2, <3>2, <3>3 DEF Quick
      <4> QED
        BY <3>1, <3>2, <3>5, <4>1 DEF Serves, Acquired
    <3> QED
      BY <3>3, <3>4, <3>5
  <2> QED
    BY <1>0, <2>3, <2>4, <2>5, <2>6, <2>7 DEF FlightInv, WaitersAreServed
<1>7. ASSUME NEW c \in Callers, PollHit(c) PROVE FlightInv'
  <2>1. ~Acquired(c)
    BY <1>0, <1>7 DEF PollHit, At, LockInv, StepsMatch, Acquired
  <2>2. /\ callers'[c].step = "idle"
        /\ \A d \in Callers : d # c => callers'[d] = callers[d]
    BY <1>1, <1>7 DEF PollHit, Goto, Idle
  <2> QED
    BY <1>0, <1>7, <2>1, <2>2, BystanderMoves DEF PollHit
<1>8. ASSUME NEW c \in Callers, PollMiss(c) PROVE FlightInv'
  <2>1. entry = 0 /\ callers[c].step = "poll" /\ UNCHANGED <<entry, lock>>
    BY <1>8 DEF PollMiss, MayFail, Quick, At
  <2>2. PICK e \in Callers : Serves(e, c)
    BY <2>1 DEF FlightInv, WaitersAreServed, Waiting, Ready
  <2>3. callers[c].time > 0
    <3>1. callers[e].time <= MaxHold /\ callers[e].time \in Nat /\ callers[c].time \in Nat
      BY <1>0, <2>2, CallerTypes DEF Serves
    <3> QED
      BY <2>2, <3>1 DEF Serves
  <2>4. callers' = [callers EXCEPT ![c].step = "wait"]
    BY <1>8, <2>3 DEF PollMiss, Proceed
  <2>5. /\ callers'[c].step = "wait" /\ callers'[c].time = callers[c].time
        /\ \A d \in Callers : callers'[d].got = callers[d].got
        /\ \A d \in Callers : d # c => callers'[d] = callers[d]
    BY <1>1, <2>4 DEF CallerRecords
  <2>6. ~Acquired(c)
    BY <1>0, <2>1 DEF LockInv, StepsMatch, Acquired
  <2>7. OnlyAcquirersResolve'
    BY <2>5 DEF FlightInv, OnlyAcquirersResolve, Acquired
  <2>8. LockHasAcquirer'
    BY <2>1, <2>5 DEF FlightInv, LockHasAcquirer, Acquired
  <2>9. StoredLives'
    BY <2>1, <2>5 DEF FlightInv, StoredLives, At
  <2>10. ASSUME NEW w \in Callers, Waiting(w)'
         PROVE  Ready(w)' \/ \E d \in Callers : Serves(d, w)'
    <3>1. Waiting(w) /\ callers'[w].time = callers[w].time
      BY <2>1, <2>5, <2>10 DEF Waiting
    <3>2. ~Ready(w)
      BY <2>1 DEF Ready
    <3>3. PICK d \in Callers : Serves(d, w)
      BY <3>1, <3>2 DEF FlightInv, WaitersAreServed
    <3>4. d # c
      BY <2>6, <3>3 DEF Serves
    <3> QED
      BY <2>5, <3>1, <3>3, <3>4 DEF Serves, Acquired
  <2> QED
    BY <1>0, <2>7, <2>8, <2>9, <2>10 DEF FlightInv, WaitersAreServed
<1>9. ASSUME NEW c \in Callers, Resolve(c) PROVE FlightInv'
  <2>1. /\ callers'[c].step = "store" /\ callers[c].step = "resolve"
        /\ \A d \in Callers : callers'[d].got = callers[d].got
        /\ \A d \in Callers : callers'[d].time = callers[d].time
        /\ \A d \in Callers : d # c => callers'[d] = callers[d]
        /\ UNCHANGED <<entry, lock>>
    BY <1>1, <1>9 DEF Resolve, Proceed, At, CallerRecords
  <2>2. OnlyAcquirersResolve'
    BY <2>1 DEF FlightInv, OnlyAcquirersResolve, Acquired
  <2>3. LockHasAcquirer'
    BY <2>1 DEF FlightInv, LockHasAcquirer, Acquired
  <2>4. StoredLives'
    BY <2>1 DEF FlightInv, StoredLives, At
  <2>5. ASSUME NEW w \in Callers, Waiting(w)'
        PROVE  Ready(w)' \/ \E d \in Callers : Serves(d, w)'
    <3>1. w # c /\ Waiting(w) /\ callers'[w] = callers[w]
      BY <2>1, <2>5 DEF Waiting
    <3>2. Ready(w) => Ready(w)'
      BY <2>1, <3>1 DEF Ready
    <3>3. \A d \in Callers : Serves(d, w) => Serves(d, w)'
      BY <2>1 DEF Serves, Acquired
    <3> QED
      BY <3>1, <3>2, <3>3 DEF FlightInv, WaitersAreServed
  <2> QED
    BY <1>0, <2>2, <2>3, <2>4, <2>5 DEF FlightInv, WaitersAreServed
<1>10. ASSUME NEW c \in Callers, Store(c) PROVE FlightInv'
  <2>1. Acquired(c)
    BY <1>10 DEF Store, At, FlightInv, OnlyAcquirersResolve
  <2>2. callers' = [callers EXCEPT ![c].step = "release"]
    BY <1>10, <2>1 DEF Store, Finally, Proceed, Acquired
  <2>3. /\ callers'[c].step = "release" /\ entry' = EntryTtl /\ lock' = lock
        /\ \A d \in Callers : callers'[d].got = callers[d].got
        /\ \A d \in Callers : callers'[d].time = callers[d].time
        /\ \A d \in Callers : d # c => callers'[d] = callers[d]
    BY <1>1, <1>10, <2>2 DEF Store, CallerRecords
  <2>4. \A d \in Callers : callers'[d].time \in Nat
    BY <1>0, <2>3, CallerTypes
  <2>5. OnlyAcquirersResolve'
    BY <2>3 DEF FlightInv, OnlyAcquirersResolve, Acquired
  <2>6. LockHasAcquirer'
    BY <2>3 DEF FlightInv, LockHasAcquirer, Acquired
  <2>7. StoredLives'
    BY <2>3, <2>4 DEF StoredLives
  <2>8. WaitersAreServed'
    BY <2>3 DEF WaitersAreServed, Ready, Quick
  <2> QED
    BY <1>0, <2>5, <2>6, <2>7, <2>8 DEF FlightInv
<1>11. ASSUME NEW c \in Callers, Release(c) PROVE FlightInv'
  <2>1. Acquired(c) /\ callers[c].step = "release"
    BY <1>0, <1>11 DEF Release, At, LockInv, StepsMatch
  <2>2. \A d \in Callers : Acquired(d) => d = c
    BY <1>0, <2>1, OneAcquirer
  <2>3. /\ callers'[c].step = "idle" /\ entry' = entry /\ lock' = Free
        /\ \A d \in Callers : d # c => callers'[d] = callers[d]
    BY <1>1, <1>11 DEF Release, Goto, Idle
  <2>4. OnlyAcquirersResolve'
    BY <2>2, <2>3 DEF FlightInv, OnlyAcquirersResolve, Acquired
  <2>5. LockHasAcquirer'
    BY <2>3 DEF LockHasAcquirer, Free
  <2>6. StoredLives'
    BY <2>3 DEF FlightInv, StoredLives, At
  <2>7. WaitersAreServed'
    BY <2>1, <2>2, <2>3 DEF FlightInv, WaitersAreServed, Waiting, Ready, Serves
  <2> QED
    BY <1>0, <2>4, <2>5, <2>6, <2>7 DEF FlightInv
<1>12. ASSUME Tick PROVE FlightInv'
  <2>1. \A c \in Callers : callers[c].step # "poll"
    BY <1>12 DEF Tick, Due, At
  <2>2. ASSUME NEW c \in Callers, Acquired(c)
        PROVE  /\ callers[c].time \in Nat /\ callers[c].time < MaxHold
               /\ callers'[c].step = callers[c].step
               /\ callers'[c].got = "acquired"
               /\ callers'[c].time = callers[c].time + 1
    <3>1. callers[c] \in CallerRecords /\ callers[c].step # "wait"
      BY <1>0, <2>2, CallerTypes
    <3>2. callers'[c] = [callers[c] EXCEPT !.time = IF @ < LockTtl THEN @ + 1 ELSE @]
      BY <1>12, <2>2, <3>1 DEF Tick, Acquired
    <3>3. callers[c].time \in Nat /\ callers[c].time < MaxHold
      <4>1. ~Due(c)
        BY <1>12 DEF Tick
      <4>2. callers[c].time \in Nat
        BY <3>1 DEF CallerRecords
      <4> QED
        BY <4>1, <4>2, <2>2 DEF Due, Acquired, Quick
    <3>4. callers[c].time < LockTtl
      BY <3>3
    <3> QED
      BY <2>2, <3>1, <3>2, <3>3, <3>4 DEF CallerRecords, Acquired
  <2>3. ASSUME NEW c \in Callers, callers[c].step = "wait"
        PROVE  /\ callers'[c].step = "poll" /\ callers'[c].got = "taken"
               /\ callers'[c].time = callers[c].time - 1
    <3>1. callers[c].got = "taken" /\ callers[c] \in CallerRecords
      BY <1>0, <1>1, <2>3 DEF LockInv, StepsMatch
    <3>2. callers'[c] = [callers[c] EXCEPT !.step = "poll", !.time = @ - 1]
      BY <1>12, <2>3, <3>1 DEF Tick
    <3> QED
      BY <3>1, <3>2 DEF CallerRecords
  <2>4. ASSUME NEW c \in Callers, callers[c].step # "wait", ~Acquired(c)
        PROVE  callers'[c] = callers[c]
    BY <1>12, <2>4 DEF Tick, Acquired
  <2>5. entry \in Nat /\ entry' = IF entry > 0 THEN entry - 1 ELSE 0
    <3>1. entry \in 0..EntryTtl
      BY <1>0 DEF LockInv, WrapTypeOK
    <3>2. entry' = IF entry > 0 THEN entry - 1 ELSE 0
      BY <1>12 DEF Tick
    <3> QED
      BY <3>1, <3>2
  <2>6. OnlyAcquirersResolve'
    BY <2>2, <2>3, <2>4 DEF FlightInv, OnlyAcquirersResolve, Acquired
  <2>7. LockHasAcquirer'
    <3>1. CASE lock = Free
      <4>1. ~(lock.lease > 1)
        BY <3>1 DEF Free
      <4>2. lock' = Free
        BY <1>12, <4>1 DEF Tick, AgedLock
      <4> QED
        BY <4>2 DEF LockHasAcquirer, Free
    <3>2. CASE \E c \in Callers : Acquired(c)
      BY <2>2, <3>2 DEF LockHasAcquirer, Acquired
    <3> QED
      BY <3>1, <3>2 DEF FlightInv, LockHasAcquirer
  <2>8. ASSUME NEW c \in Callers, At(c, "release")'
        PROVE  entry' + callers'[c].time >= EntryTtl
    <3>1. callers[c].step = "release" /\ Acquired(c)
      <4>1. callers'[c].step = "release"
        BY <2>8 DEF At
      <4>2. callers[c].step = "release"
        BY <2>2, <2>3, <2>4, <4>1
      <4> QED
        BY <1>0, <4>2 DEF LockInv, StepsMatch
    <3>2. entry + callers[c].time >= EntryTtl
      BY <3>1 DEF FlightInv, StoredLives, At
    <3>3. /\ callers[c].time \in Nat /\ callers[c].time < MaxHold
          /\ callers'[c].time = callers[c].time + 1
      BY <2>2, <3>1
    <3>4. entry > 0
      BY <2>5, <3>2, <3>3 DEF Quick
    <3> QED
      BY <2>5, <3>2, <3>3, <3>4
  <2>9. ASSUME NEW w \in Callers, Waiting(w)'
        PROVE  Ready(w)' \/ \E d \in Callers : Serves(d, w)'
    <3>1. callers[w].step = "wait"
      BY <1>0, <2>1, <2>2, <2>4, <2>9, CallerTypes DEF Waiting
    <3>2. /\ callers'[w].step = "poll"
          /\ callers'[w].time = callers[w].time - 1
          /\ callers[w].time \in Nat
      BY <1>0, <2>3, <3>1, CallerTypes
    <3>3. CASE Ready(w)
      BY <2>5, <3>1, <3>2, <3>3 DEF Ready
    <3>4. CASE \E d \in Callers : Serves(d, w)
      <4>1. PICK d \in Callers : Serves(d, w)
        BY <3>4
      <4>2. /\ callers[d].time \in Nat
            /\ callers'[d].step = callers[d].step
            /\ callers'[d].got = "acquired"
            /\ callers'[d].time = callers[d].time + 1
        BY <2>2, <4>1 DEF Serves
      <4>3. callers'[d].time + callers'[w].time > MaxHold
        BY <3>2, <4>1, <4>2 DEF Serves
      <4> QED
        BY <4>1, <4>2, <4>3 DEF Serves, Acquired
    <3> QED
      BY <3>1, <3>3, <3>4 DEF FlightInv, WaitersAreServed, Waiting
  <2> QED
    BY <1>0, <2>6, <2>7, <2>8, <2>9 DEF FlightInv, StoredLives, WaitersAreServed
<1>13. ASSUME NEW c \in Callers,
              \/ FindUnavailable(c) \/ ResolverThrows(c) \/ StoreFails(c)
              \/ ReleaseFails(c) \/ Crash(c)
       PROVE  FALSE
  BY <1>13
  DEF Quick, MayFail, FindUnavailable, ResolverThrows, StoreFails, ReleaseFails, Crash
<1>14. ~Invalidate
  BY DEF Quick, Invalidate
<1> QED
  BY <1>2, <1>3, <1>4, <1>5, <1>6, <1>7, <1>8, <1>9, <1>10, <1>11, <1>12, <1>13, <1>14
  DEF Next, CallerStep

\* What holds in every behaviour, those where something fails included.
WrapInv == LockInv /\ (faults = {} => FlightInv)

\* The flight is single (OneResolverAtATime) for every number of callers,
\* when resolvers are quick and nothing fails.
THEOREM SingleFlight ==
  ASSUME QuickTimings
  PROVE  Spec => []OneResolverAtATime
<1>1. Init => WrapInv
  BY FlightInvInit DEF WrapInv, FlightInv
<1>2. WrapInv /\ [Next]_vars => WrapInv'
  <2> SUFFICES ASSUME WrapInv, [Next]_vars PROVE WrapInv'
    OBVIOUS
  <2>1. LockInv'
    BY LockInvStep DEF WrapInv
  <2>2. faults' = faults
    BY DEF Next, vars, CallerStep, Hit, Miss, Acquire, FindTaken, FindUnavailable,
           PollHit, PollMiss, Resolve, ResolverThrows, Store, StoreFails,
           Release, ReleaseFails, Crash, Invalidate, Tick
  <2>3. ASSUME faults' = {} PROVE FlightInv'
    BY <2>2, <2>3, FlightInvStep DEF WrapInv, Quick
  <2> QED
    BY <2>1, <2>3 DEF WrapInv
<1>3. WrapInv => OneResolverAtATime
  <2> SUFFICES ASSUME WrapInv, faults = {} PROVE OneResolverAtATime
    BY DEF OneResolverAtATime
  <2> QED
    BY OneAcquirer
    DEF WrapInv, FlightInv, LockInv, Punctual, OnlyAcquirersResolve,
        OneResolverAtATime, Resolving, At
<1> QED
  BY <1>1, <1>2, <1>3, PTL DEF Spec
=============================================================================
