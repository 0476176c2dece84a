------------------------------- MODULE IpBan --------------------------------
(***************************************************************************)
(* The ban of addresses that probe unknown routes, for one client address  *)
(* (the two Redis keys are per address).  The onRequest hook refuses a     *)
(* banned address, the not-found handler counts a probe and bans at the    *)
(* threshold: MULTI(INCR, EXPIRE NX), SET EX, UNLINK, with other requests  *)
(* of the address, in any process, in between.  Every failure of Redis is  *)
(* caught and the request goes on as if the address were not banned.       *)
(***************************************************************************)
EXTENDS Naturals, Sequences, FiniteSets

CONSTANTS Requests,     \* requests of the address in flight
          MaxAttempts,  \* IP_BAN_MAX_ATTEMPTS
          Window,       \* IP_BAN_ATTEMPTS_WINDOW_SECONDS, in ticks
          BanTtl,       \* IP_BAN_DURATION_SECONDS, in ticks
          MaxProbes,    \* probes counted within a window (bounds the model)
          RedisMayFail  \* whether commands fail and processes die

ASSUME IpBanAssumption ==
  /\ MaxAttempts \in Nat \ {0}
  /\ Window \in Nat \ {0}
  /\ BanTtl \in Nat \ {0}
  /\ MaxProbes \in Nat
  /\ RedisMayFail \in BOOLEAN

VARIABLES attempts,  \* the counter, 0 if the key does not exist
          window,    \* how long the counter still lives, 0: no expiry
          ban,       \* how long the address is still banned
          requests,  \* where each request is
          probes,    \* history: the ages of the probes counted, oldest first
          failed     \* history: whether a command failed or a process died

banVars == <<attempts, window, ban, requests, probes, failed>>

Ages == 0..(Window - 1)

\* Only a key that does not exist has no expiry: no counter lives for ever.
IpBanTypeOK ==
  /\ attempts \in 0..MaxProbes
  /\ window \in 0..Window
  /\ ban \in 0..BanTtl
  /\ requests \in [Requests -> {"idle", "count", "ban", "clear"}]
  /\ probes \in Seq(Ages)
  /\ Len(probes) <= MaxProbes
  /\ attempts = 0 <=> window = 0
  /\ failed \in BOOLEAN

BanInit ==
  /\ attempts = 0
  /\ window = 0
  /\ ban = 0
  /\ requests = [r \in Requests |-> "idle"]
  /\ probes = <<>>
  /\ failed = FALSE

-----------------------------------------------------------------------------

Goto(r, step) == requests' = [requests EXCEPT ![r] = step]

\* Mutant of Refuse: being refused prolongs the ban.
RefuseProlongs(r) ==
  /\ requests[r] = "idle"
  /\ ban > 0
  /\ ban' = BanTtl
  /\ UNCHANGED <<attempts, window, requests, probes, failed>>

\* onRequest: a banned address is answered with 403.
Refuse(r) ==
  /\ requests[r] = "idle"
  /\ ban > 0
  /\ UNCHANGED banVars

\* The address is not banned, or the lookup failed, and no route matches the
\* path, nor is it one of those that are never counted.
NotFound(r) ==
  /\ requests[r] = "idle"
  /\ \/ ban = 0 /\ UNCHANGED failed
     \/ RedisMayFail /\ failed' = TRUE
  /\ Goto(r, "count")
  /\ UNCHANGED <<attempts, window, ban, probes>>

Recent == Len(probes)

\* Mutants of Increment: no EXPIRE, or EXPIRE without NX.
IncrementForGood ==
  /\ Recent < MaxProbes
  /\ attempts' = attempts + 1
  /\ window' = window
  /\ probes' = Append(probes, 0)

IncrementSliding ==
  /\ Recent < MaxProbes
  /\ attempts' = attempts + 1
  /\ window' = Window
  /\ probes' = Append(probes, 0)

\* The transaction: INCR, and EXPIRE if the counter has no expiry yet.
Increment ==
  /\ Recent < MaxProbes
  /\ attempts' = attempts + 1
  /\ window' = IF window = 0 THEN Window ELSE window
  /\ probes' = Append(probes, 0)

\* Mutant of Count: one probe more than the threshold is let through.
CountOneMore(r) ==
  /\ requests[r] = "count"
  /\ Increment
  /\ Goto(r, IF attempts' <= MaxAttempts THEN "idle" ELSE "ban")
  /\ UNCHANGED <<ban, failed>>

Count(r) ==
  /\ requests[r] = "count"
  /\ Increment
  /\ Goto(r, IF attempts' < MaxAttempts THEN "idle" ELSE "ban")
  /\ UNCHANGED <<ban, failed>>

\* It failed, or was carried out and its answer is lost: answered with 404.
CountFails(r) ==
  /\ requests[r] = "count"
  /\ RedisMayFail
  /\ Increment \/ UNCHANGED <<attempts, window, probes>>
  /\ Goto(r, "idle")
  /\ failed' = TRUE
  /\ UNCHANGED ban

Ban(r) ==
  /\ requests[r] = "ban"
  /\ ban' = BanTtl
  /\ Goto(r, "clear")
  /\ UNCHANGED <<attempts, window, probes, failed>>

BanFails(r) ==
  /\ requests[r] = "ban"
  /\ RedisMayFail
  /\ ban' \in {ban, BanTtl}
  /\ Goto(r, "idle")
  /\ failed' = TRUE
  /\ UNCHANGED <<attempts, window, probes>>

\* The counter is dropped and the request answered with 403.
Clear(r) ==
  /\ requests[r] = "clear"
  /\ attempts' = 0
  /\ window' = 0
  /\ Goto(r, "idle")
  /\ UNCHANGED <<ban, probes, failed>>

\* The counter stays; had the command been carried out, Clear shows it.
ClearFails(r) ==
  /\ requests[r] = "clear"
  /\ RedisMayFail
  /\ Goto(r, "idle")
  /\ failed' = TRUE
  /\ UNCHANGED <<attempts, window, ban, probes>>

Crash(r) ==
  /\ RedisMayFail
  /\ requests[r] # "idle"
  /\ Goto(r, "idle")
  /\ failed' = TRUE
  /\ UNCHANGED <<attempts, window, ban, probes>>

\* The probes a tick later, without those that leave the window.
Aged ==
  LET gone == Cardinality({i \in DOMAIN probes : probes[i] + 1 = Window})
  IN [i \in 1..(Len(probes) - gone) |-> probes[gone + i] + 1]

\* A tick is long (a window has a few): a request whose probe was counted
\* gets its answer before it ends.
Tick ==
  /\ \A r \in Requests : requests[r] \notin {"ban", "clear"}
  /\ window' = IF window > 0 THEN window - 1 ELSE 0
  /\ attempts' = IF window > 1 THEN attempts ELSE 0
  /\ ban' = IF ban > 0 THEN ban - 1 ELSE 0
  /\ probes' = Aged
  /\ UNCHANGED <<requests, failed>>

RegisterStep(r) ==
  \/ Count(r) \/ CountFails(r)
  \/ Ban(r) \/ BanFails(r)
  \/ Clear(r) \/ ClearFails(r)

BanNext ==
  \/ \E r \in Requests : Refuse(r) \/ NotFound(r) \/ RegisterStep(r) \/ Crash(r)
  \/ Tick

BanSpec == BanInit /\ [][BanNext]_banVars

\* Requests that were let in are answered, and time passes.
BanFairness ==
  /\ \A r \in Requests : WF_banVars(RegisterStep(r))
  /\ WF_banVars(Tick)

BanFairSpec == BanSpec /\ BanFairness

-----------------------------------------------------------------------------
(* Properties *)

\* The threshold is one of probes within a window: the counter never counts
\* a probe older than the window, so an address that probes now and then
\* is not banned for the sum of it.
BanIsEarned ==
  [][ban' > ban => Recent >= MaxAttempts]_banVars

\* The fixed window lets an address make nearly twice the threshold's probes
\* around its end, and no more: who is not banned has made no more in any window
\* than fill two windows of the counter, short of the probes that would ban and
\* of the one that opened the first; also with requests counted that were let in
\* before a ban, unless Redis failed or a process died.  A ban has to last as long
\* as the window for it, as it does by default.
TwoWindowsAtMost ==
  ban = 0 /\ ~failed /\ (\A r \in Requests : requests[r] # "ban") =>
    Recent = 0 \/ Recent + 3 <= 2 * MaxAttempts

\* Bans drain on their own: once no probe of the address is counted any more
\* it is not banned for ever, however often it is refused and whatever of the
\* ban's three commands failed.
BanRunsOut ==
  <>[][Recent' <= Recent]_banVars => []<>(ban = 0)
=============================================================================
