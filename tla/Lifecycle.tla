----------------------------- MODULE Lifecycle -----------------------------
(***************************************************************************)
(* A process of the API or of the worker, from configureServer to its      *)
(* exit: plugins are registered, dependencies first, requests and jobs are *)
(* served, and fastify.close runs the onClose hooks, latest first, within  *)
(* the grace period of close-with-grace.  The autoloader's order is left   *)
(* open: any order that respects the declared dependencies.                *)
(***************************************************************************)
EXTENDS Naturals, Sequences

CONSTANTS Plugins,     \* the plugins that are loaded, without the worker's
          MaxRequests  \* the most requests that are served at a time

VARIABLES role,      \* which of index.ts and worker.ts is running
          status,    \* how far it is
          opened,    \* what has been registered, in that order
          requests,  \* requests being served
          jobs,      \* jobs being executed; a Worker runs one at a time
          failed,    \* an error ends the process, or a hook rejected
          exit       \* how the process ended

vars == <<role, status, opened, requests, jobs, failed, exit>>

Core == {"env", "prisma", "redis", "bullmq", "messageQueue", "awilix"}

\* Mutant of ContainerDependencies: that it registers the queue is forgotten.
ContainerWithoutQueue ==
  {"prisma", "env", "gcpStorage", "awsS3", "redis", "bullmq"}

ContainerDependencies ==
  {"prisma", "env", "gcpStorage", "awsS3", "redis", "bullmq", "messageQueue"}

\* The dependencies each plugin declares to fastify-plugin.
Declared ==
  [env          |-> {},
   prisma       |-> {"env"},
   redis        |-> {"env"},
   gcpStorage   |-> {"env"},
   awsS3        |-> {"env"},
   bullmq       |-> {"env"},
   jwt          |-> {"env"},
   swagger      |-> {"env"},
   messageQueue |-> {"bullmq"},
   awilix       |-> ContainerDependencies,
   cache        |-> {"awilix", "redis"},
   ipBan        |-> {"awilix", "redis"},
   rateLimit    |-> {"env", "redis"},
   worker       |-> {"awilix", "bullmq"}]

\* The plugins whose decorators each plugin, and the routes, read when they
\* are registered.  One that is missing is read as undefined, without an error.
Reads ==
  [env          |-> {},
   prisma       |-> {"env"},
   redis        |-> {"env"},
   gcpStorage   |-> {"env"},
   awsS3        |-> {"env"},
   bullmq       |-> {"env"},
   jwt          |-> {"env"},
   swagger      |-> {"env"},
   messageQueue |-> {"bullmq"},
   awilix       |-> {"prisma", "env", "gcpStorage", "awsS3",
                     "redis", "bullmq", "messageQueue"},
   cache        |-> {"awilix"},
   ipBan        |-> {"awilix"},
   rateLimit    |-> {"redis"},
   worker       |-> {"awilix", "bullmq"},
   routes       |-> {"awilix"},
   http         |-> {}]

ASSUME LifecycleAssumption ==
  /\ Core \subseteq Plugins
  /\ Plugins \subseteq DOMAIN Declared \ {"worker"}
  /\ MaxRequests \in Nat

\* What a job and a request reach: the table, the cache, the queue.
JobUses == {"prisma", "redis", "bullmq"}
RequestUses == {"prisma", "redis", "bullmq", "messageQueue"}

Opened == {opened[i] : i \in 1..Len(opened)}

\* runQueueWorker: only worker.ts loads the plugins under mq/ that are workers.
Loaded == Plugins \union (IF role = "worker" THEN {"worker"} ELSE {})

\* What is registered before p: its dependencies among the plugins loaded, all
\* plugins before the routes, and all of that before the server's own hook.
Before(p) ==
  CASE p = "http"   -> Loaded \union {"routes"}
    [] p = "routes" -> Loaded
    [] OTHER        -> Declared[p] \intersect Loaded

\* What is registered is registered once; the process has a code once it ended.
LifecycleTypeOK ==
  /\ role \in {"api", "worker"}
  /\ status \in {"booting", "ready", "running", "closing", "exited"}
  /\ opened \in Seq(Loaded \union {"routes", "http"})
  /\ \A i, j \in 1..Len(opened) : opened[i] = opened[j] => i = j
  /\ requests \in 0..MaxRequests
  /\ jobs \in 0..1
  /\ failed \in BOOLEAN
  /\ exit \in {"none", "0", "1", "signal"}
  /\ exit = "none" <=> status # "exited"

Init ==
  /\ role \in {"api", "worker"}
  /\ status = "booting"
  /\ opened = <<>>
  /\ requests = 0
  /\ jobs = 0
  /\ failed = FALSE
  /\ exit = "none"

-----------------------------------------------------------------------------
(* configureServer *)

Exit(code) ==
  /\ status' = "exited"
  /\ exit' = code
  /\ UNCHANGED <<role, opened, requests, jobs, failed>>

\* A plugin, or the modules' routes, once what comes before it is there.
Boot(p) ==
  /\ status = "booting"
  /\ p \notin Opened
  /\ Before(p) \subseteq Opened
  /\ opened' = Append(opened, p)
  /\ UNCHANGED <<role, status, requests, jobs, failed, exit>>

\* fastify.ready adds the hook that closes the server, after all others.
Ready ==
  /\ status = "booting"
  /\ Before("http") \subseteq Opened
  /\ opened' = Append(opened, "http")
  /\ status' = "ready"
  /\ UNCHANGED <<role, requests, jobs, failed, exit>>

\* A plugin rejects: fatal, without running the hooks of the others.
BootFails == status = "booting" /\ Exit("1")

\* The server listens and close-with-grace installs its handlers.
Listen ==
  /\ status = "ready"
  /\ status' = "running"
  /\ UNCHANGED <<role, opened, requests, jobs, failed, exit>>

\* The port is taken.
ListenFails == status = "ready" /\ Exit("1")

\* A signal that comes before the handlers are there.
Killed == status \in {"booting", "ready"} /\ Exit("signal")

-----------------------------------------------------------------------------
(* Serving *)

Latest == opened[Len(opened)]

\* The hook of p is running.
IsClosing(p) == status = "closing" /\ Len(opened) > 0 /\ Latest = p

BeginRequest ==
  /\ status = "running"
  /\ requests < MaxRequests
  /\ requests' = requests + 1
  /\ UNCHANGED <<role, status, opened, jobs, failed, exit>>

EndRequest ==
  /\ status # "exited"
  /\ requests > 0
  /\ requests' = requests - 1
  /\ UNCHANGED <<role, status, opened, jobs, failed, exit>>

\* Mutant of BeginJob: the Worker takes the next job while it is being closed.
BeginJobWhileClosing ==
  /\ status # "exited"
  /\ "worker" \in Opened
  /\ jobs = 0
  /\ jobs' = 1
  /\ UNCHANGED <<role, status, opened, requests, failed, exit>>

\* The Worker takes jobs as soon as it is constructed, and until it is closed.
BeginJob ==
  /\ status # "exited"
  /\ "worker" \in Opened
  /\ ~IsClosing("worker")
  /\ jobs = 0
  /\ jobs' = 1
  /\ UNCHANGED <<role, status, opened, requests, failed, exit>>

EndJob ==
  /\ status # "exited"
  /\ jobs > 0
  /\ jobs' = 0
  /\ UNCHANGED <<role, status, opened, requests, failed, exit>>

-----------------------------------------------------------------------------
(* close-with-grace *)

\* A signal, or an error nobody caught.
Shutdown ==
  /\ status = "running"
  /\ status' = "closing"
  /\ failed' \in BOOLEAN
  /\ UNCHANGED <<role, opened, requests, jobs, exit>>

\* Mutant of Drained: the hook of the worker does not await worker.close.
DrainedUnawaited(p) == p = "http" => requests = 0

\* server.close waits for the requests, worker.close for the job.
Drained(p) ==
  /\ p = "http" => requests = 0
  /\ p = "worker" => jobs = 0

\* Mutant of CloseNext: the hooks run in the order of registration.
CloseFirst ==
  /\ status = "closing"
  /\ opened # <<>>
  /\ Drained(Head(opened))
  /\ opened' = Tail(opened)
  /\ UNCHANGED <<role, status, requests, jobs, failed, exit>>

\* The latest hook resolves.  A hook of Prisma or of the queue may reject: the
\* others run all the same.
CloseNext ==
  /\ status = "closing"
  /\ opened # <<>>
  /\ Drained(Latest)
  /\ opened' = SubSeq(opened, 1, Len(opened) - 1)
  /\ \/ failed' = failed
     \/ Latest \in {"prisma", "messageQueue"} /\ failed' = TRUE
  /\ UNCHANGED <<role, status, requests, jobs, exit>>

Closed ==
  /\ status = "closing"
  /\ opened = <<>>
  /\ Exit(IF failed THEN "1" ELSE "0")

\* The delay is over, or there is a second signal or error.
GraceEnds == status = "closing" /\ Exit("1")

Exited == status = "exited" /\ UNCHANGED vars

-----------------------------------------------------------------------------
Next ==
  \/ \E p \in Loaded \union {"routes"} : Boot(p)
  \/ Ready \/ BootFails \/ Listen \/ ListenFails \/ Killed
  \/ BeginRequest \/ EndRequest \/ BeginJob \/ EndJob
  \/ Shutdown \/ CloseNext \/ Closed \/ GraceEnds \/ Exited

Spec == Init /\ [][Next]_vars

\* Requests and jobs come to their end, and a hook that has nothing to wait for
\* resolves or rejects.  Nothing is fair about the timer of the grace period.
Fairness ==
  /\ WF_vars(EndRequest) /\ WF_vars(EndJob)
  /\ WF_vars(CloseNext) /\ WF_vars(Closed)

FairSpec == Spec /\ Fairness

-----------------------------------------------------------------------------
(* Properties *)

\* Whatever a plugin reads when it is registered has been decorated before,
\* in every order the declared dependencies allow: a dependency that is used
\* but not declared would be read as undefined in some of them.
DecoratorsAreThere ==
  \A i \in 1..Len(opened) : \A d \in Reads[opened[i]] \intersect Loaded :
    \E j \in 1..(i - 1) : opened[j] = d

\* A job, or a request, never finds the database, the cache or the queue
\* closed under it or not there yet: jobs are taken before the server is
\* ready, and while others of its hooks already run.
TasksHaveTheirConnections ==
  /\ jobs > 0 => JobUses \subseteq Opened
  /\ requests > 0 => RequestUses \subseteq Opened

\* A process that exits with 0 has cut off neither a job nor a request.
CleanExitCutsNothing == exit = "0" => jobs = 0 /\ requests = 0

\* A shutdown comes to its end without the grace period: no hook waits for work
\* that keeps coming, though the Worker takes jobs while other hooks run.
ShutdownEnds == status = "closing" ~> status = "exited"

=============================================================================
