------------------------- MODULE Lifecycle_proofs --------------------------
(***************************************************************************)
(* The declared dependencies are enough, in every order of registration    *)
(* they allow: what a plugin reads is there, jobs and requests keep their  *)
(* connections, and a clean exit cuts nothing off.                         *)
(***************************************************************************)
EXTENDS Lifecycle, SequenceTheorems, TLAPS

\* What has been registered stands on what comes before it, in the order of
\* registration; the hooks take it down from the end, so it keeps standing.
Stacked ==
  \A i \in 1..Len(opened) : \A d \in Before(opened[i]) :
    \E j \in 1..(i - 1) : opened[j] = d

\* Jobs need their worker and requests the server; the last hook has run
\* before a clean exit.
Served ==
  /\ jobs > 0 => "worker" \in Opened
  /\ requests > 0 \/ status \in {"ready", "running"} => "http" \in Opened
  /\ status = "booting" => "http" \notin Opened
  /\ exit = "0" => opened = <<>>

IInv == LifecycleTypeOK /\ Stacked /\ Served

-----------------------------------------------------------------------------
(* Dependencies *)

\* What stands on p's dependencies has them registered.
LEMMA StackedUnder ==
  ASSUME Stacked, NEW p \in Opened
  PROVE  Before(p) \subseteq Opened
<1>1. PICK i \in 1..Len(opened) : opened[i] = p
  BY DEF Opened
<1>2. \A d \in Before(p) : \E j \in 1..(i - 1) : opened[j] = d
  BY <1>1 DEF Stacked
<1>3. \A j \in 1..(i - 1) : j \in 1..Len(opened)
  BY <1>1
<1> QED
  BY <1>2, <1>3 DEF Opened

LEMMA CoreIsLoaded == Core \subseteq Loaded
BY LifecycleAssumption DEF Loaded

\* The worker stands on all a job uses, the server on all a request uses.
LEMMA StackedUses ==
  ASSUME Stacked
  PROVE  /\ "worker" \in Opened => JobUses \subseteq Opened
         /\ "http" \in Opened => RequestUses \subseteq Opened
<1>1. Before("http") = Loaded \union {"routes"}
  BY DEF Before
<1>2. Before("worker") = {"awilix", "bullmq"} \intersect Loaded
  BY DEF Before, Declared, ContainerDependencies
<1>3. {"prisma", "redis", "bullmq"} \intersect Loaded \subseteq Before("awilix")
  BY DEF Before, Declared, ContainerDependencies
<1>4. ASSUME "worker" \in Opened
      PROVE  JobUses \subseteq Opened
  <2>1. "awilix" \in Opened
    BY <1>2, <1>4, StackedUnder, CoreIsLoaded DEF Core
  <2>2. {"prisma", "redis", "bullmq"} \subseteq Opened
    BY <1>3, <2>1, StackedUnder, CoreIsLoaded DEF Core
  <2> QED
    BY <2>2 DEF JobUses
<1>5. ASSUME "http" \in Opened
      PROVE  RequestUses \subseteq Opened
  BY <1>1, <1>5, StackedUnder, CoreIsLoaded DEF Core, RequestUses
<1> QED
  BY <1>4, <1>5

\* Every plugin declares all it reads.
LEMMA ReadsAreDeclared ==
  ASSUME NEW p \in Loaded \union {"routes", "http"}
  PROVE  Reads[p] \intersect Loaded \subseteq Before(p)
<1>1. CASE p = "http"
  BY <1>1 DEF Reads, Before
<1>2. CASE p = "routes"
  BY <1>2 DEF Reads, Before
<1>3. CASE p \in Loaded
  <2>1. p \in DOMAIN Declared
    BY <1>3, LifecycleAssumption DEF Loaded, Declared, ContainerDependencies
  <2>2. Before(p) = Declared[p] \intersect Loaded
    BY <2>1 DEF Before, Declared, ContainerDependencies
  <2>3. Reads[p] \subseteq Declared[p]
    BY <2>1 DEF Declared, ContainerDependencies, Reads
  <2> QED
    BY <2>2, <2>3
<1> QED
  BY <1>1, <1>2, <1>3

-----------------------------------------------------------------------------
(* The invariant *)

LEMMA LifecycleInit == Init => IInv
<1> SUFFICES ASSUME Init
             PROVE  IInv
  OBVIOUS
<1>1. opened = <<>> /\ Len(opened) = 0 /\ 1..Len(opened) = {}
  BY DEF Init
<1>2. LifecycleTypeOK
  <2>1. opened \in Seq(Loaded \union {"routes", "http"})
    BY <1>1
  <2>2. 0 \in 0..MaxRequests /\ 0 \in 0..1
    BY LifecycleAssumption
  <2> QED
    BY <1>1, <2>1, <2>2 DEF Init, LifecycleTypeOK
<1>3. Stacked
  BY <1>1 DEF Stacked
<1>4. Served
  BY <1>1 DEF Init, Served, Opened
<1> QED
  BY <1>2, <1>3, <1>4 DEF IInv

\* Something is registered on top of what it needs.
LEMMA StackedPush ==
  ASSUME IInv, UNCHANGED role,
         NEW p \in Loaded \union {"routes", "http"}, p \notin Opened,
         Before(p) \subseteq Opened,
         opened' = Append(opened, p)
  PROVE  /\ opened' \in Seq(Loaded \union {"routes", "http"})
         /\ \A i, j \in 1..Len(opened') : opened'[i] = opened'[j] => i = j
         /\ Stacked'
         /\ Opened' = Opened \union {p}
<1> DEFINE n == Len(opened)
<1>1. /\ opened \in Seq(Loaded \union {"routes", "http"})
      /\ n \in Nat
      /\ Len(opened') = n + 1
      /\ \A i \in 1..n : opened'[i] = opened[i]
      /\ opened'[n + 1] = p
  BY DEF IInv, LifecycleTypeOK
<1>2. opened' \in Seq(Loaded \union {"routes", "http"})
  BY <1>1
<1>3. Opened' = Opened \union {p}
  <2>1. 1..Len(opened') = 1..n \union {n + 1}
    BY <1>1
  <2> QED
    BY <1>1, <2>1 DEF Opened
<1>4. \A i, j \in 1..Len(opened') : opened'[i] = opened'[j] => i = j
  <2>1. \A i \in 1..n : opened[i] # p
    BY DEF Opened
  <2> QED
    BY <1>1, <2>1 DEF IInv, LifecycleTypeOK
<1>5. \A q : Before(q)' = Before(q)
  BY DEF Before, Loaded
<1>6. Stacked'
  <2> SUFFICES ASSUME NEW i \in 1..Len(opened'), NEW d \in Before(opened'[i])
               PROVE  \E j \in 1..(i - 1) : opened'[j] = d
    BY <1>5 DEF Stacked
  <2>1. CASE i = n + 1
    <3>1. d \in Opened
      BY <1>1, <2>1
    <3> QED
      BY <1>1, <2>1, <3>1 DEF Opened
  <2>2. CASE i \in 1..n
    <3>1. PICK j \in 1..(i - 1) : opened[j] = d
      BY <1>1, <2>2 DEF IInv, Stacked
    <3>2. j \in 1..n
      BY <1>1, <2>2
    <3> QED
      BY <1>1, <3>1, <3>2
  <2> QED
    BY <1>1, <2>1, <2>2
<1> QED
  BY <1>2, <1>3, <1>4, <1>6

\* The latest is taken off.
LEMMA StackedPop ==
  ASSUME IInv, UNCHANGED role, opened # <<>>,
         opened' = SubSeq(opened, 1, Len(opened) - 1)
  PROVE  /\ opened' \in Seq(Loaded \union {"routes", "http"})
         /\ \A i, j \in 1..Len(opened') : opened'[i] = opened'[j] => i = j
         /\ Stacked'
         /\ Opened \subseteq Opened' \union {Latest}
<1> DEFINE n == Len(opened)
<1> DEFINE S == Loaded \union {"routes", "http"}
<1>a. opened \in Seq(S) /\ n \in Nat /\ n > 0
  BY DEF IInv, LifecycleTypeOK
<1>1. /\ opened \in Seq(S) /\ n \in Nat /\ n > 0
      /\ Len(opened') = n - 1
      /\ \A i \in 1..(n - 1) : opened'[i] = opened[i]
      /\ opened' \in Seq(S)
  <2>1. \A i \in 1..(n - 1) : opened[i] \in S
    BY <1>a
  <2>2. n - 1 \in Int /\ 1 \in Int
    BY <1>a
  <2>3. /\ SubSeq(opened, 1, n - 1) \in Seq(S)
        /\ Len(SubSeq(opened, 1, n - 1)) = IF 1 <= n - 1 THEN n - 1 - 1 + 1 ELSE 0
        /\ \A i \in 1..(n - 1 - 1 + 1) : SubSeq(opened, 1, n - 1)[i] = opened[1 + i - 1]
    BY <2>1, <2>2, SubSeqProperties
  <2>4. opened' = SubSeq(opened, 1, n - 1)
    OBVIOUS
  <2> HIDE DEF n, S
  <2>5. Len(opened') = n - 1 /\ opened' \in Seq(S)
    BY <1>a, <2>3, <2>4
  <2>6. \A i \in 1..(n - 1) : i \in 1..(n - 1 - 1 + 1) /\ 1 + i - 1 = i
    BY <1>a
  <2>7. \A i \in 1..(n - 1) : opened'[i] = opened[i]
    BY <2>3, <2>4, <2>6
  <2> QED
    BY <1>a, <2>5, <2>7
<1>2. opened' \in Seq(Loaded \union {"routes", "http"})
  BY <1>1
<1>3. Opened \subseteq Opened' \union {Latest}
  <2>1. 1..n = 1..(n - 1) \union {n}
    BY <1>1
  <2> QED
    BY <1>1, <2>1 DEF Opened, Latest
<1>4. \A i, j \in 1..Len(opened') : opened'[i] = opened'[j] => i = j
  BY <1>1 DEF IInv, LifecycleTypeOK
<1>5. \A q : Before(q)' = Before(q)
  BY DEF Before, Loaded
<1>6. Stacked'
  <2> SUFFICES ASSUME NEW i \in 1..Len(opened'), NEW d \in Before(opened'[i])
               PROVE  \E j \in 1..(i - 1) : opened'[j] = d
    BY <1>5 DEF Stacked
  <2>1. i \in 1..n /\ opened'[i] = opened[i]
    BY <1>1
  <2>2. PICK j \in 1..(i - 1) : opened[j] = d
    BY <2>1 DEF IInv, Stacked
  <2>3. j \in 1..(n - 1)
    BY <1>1
  <2> QED
    BY <1>1, <2>2, <2>3
<1> QED
  BY <1>2, <1>3, <1>4, <1>6

LEMMA LifecycleStep == IInv /\ [Next]_vars => IInv'
<1> SUFFICES ASSUME IInv, [Next]_vars
             PROVE  IInv'
  OBVIOUS
<1> USE LifecycleAssumption
<1>1. ASSUME NEW p \in Loaded \union {"routes"}, Boot(p)
      PROVE  IInv'
  <2>1. UNCHANGED <<role, status, requests, jobs, failed, exit>> /\ status = "booting"
    BY <1>1 DEF Boot
  <2>2. /\ opened' \in Seq(Loaded \union {"routes", "http"})
        /\ \A i, j \in 1..Len(opened') : opened'[i] = opened'[j] => i = j
        /\ Stacked'
        /\ Opened' = Opened \union {p}
    BY <1>1, <2>1, StackedPush DEF Boot
  <2>3. LifecycleTypeOK'
    BY <2>1, <2>2 DEF IInv, LifecycleTypeOK, Loaded
  <2>4. p # "http"
    BY DEF Loaded, Declared, ContainerDependencies
  <2>5. Served'
    BY <2>1, <2>2, <2>4 DEF IInv, LifecycleTypeOK, Served
  <2> QED
    BY <2>2, <2>3, <2>5 DEF IInv
<1>2. ASSUME Ready
      PROVE  IInv'
  <2>1. UNCHANGED <<role, requests, jobs, failed, exit>> /\ status = "booting" /\ status' = "ready"
    BY <1>2 DEF Ready
  <2>2. "http" \notin Opened
    BY <2>1 DEF IInv, Served
  <2>3. /\ opened' \in Seq(Loaded \union {"routes", "http"})
        /\ \A i, j \in 1..Len(opened') : opened'[i] = opened'[j] => i = j
        /\ Stacked'
        /\ Opened' = Opened \union {"http"}
    BY <1>2, <2>1, <2>2, StackedPush DEF Ready
  <2> QED
    BY <2>1, <2>3 DEF IInv, LifecycleTypeOK, Served, Loaded
<1>3. ASSUME NEW code \in {"1", "signal"}, Exit(code)
      PROVE  IInv'
  BY <1>3 DEF Exit, IInv, LifecycleTypeOK, Stacked, Served, Opened, Before, Loaded
<1>4. CASE BootFails \/ ListenFails \/ Killed \/ GraceEnds
  BY <1>3, <1>4 DEF BootFails, ListenFails, Killed, GraceEnds
<1>5. CASE Closed
  BY <1>5 DEF Closed, Exit, IInv, LifecycleTypeOK, Stacked, Served, Opened, Before, Loaded
<1>6. CASE Listen
  <2>1. "http" \in Opened
    BY <1>6 DEF Listen, IInv, Served
  <2> QED
    BY <1>6, <2>1 DEF Listen, IInv, LifecycleTypeOK, Stacked, Served, Opened, Before, Loaded
<1>7. CASE BeginRequest \/ EndRequest \/ BeginJob \/ EndJob
  <2>1. UNCHANGED <<role, status, opened, failed, exit>>
    BY <1>7 DEF BeginRequest, EndRequest, BeginJob, EndJob
  <2>2. Stacked' /\ Opened' = Opened
    BY <2>1 DEF IInv, Stacked, Opened, Before, Loaded
  <2>3. requests' \in 0..MaxRequests /\ jobs' \in 0..1
    BY <1>7 DEF BeginRequest, EndRequest, BeginJob, EndJob, IInv, LifecycleTypeOK
  <2>4. Served'
    BY <1>7, <2>1, <2>2 DEF BeginRequest, EndRequest, BeginJob, EndJob, IInv, LifecycleTypeOK, Served
  <2> QED
    BY <2>1, <2>2, <2>3, <2>4 DEF IInv, LifecycleTypeOK, Loaded
<1>8. CASE Shutdown
  BY <1>8 DEF Shutdown, IInv, LifecycleTypeOK, Stacked, Served, Opened, Before, Loaded
<1>9. CASE CloseNext
  <2>1. UNCHANGED <<role, status, requests, jobs, exit>> /\ status = "closing" /\ failed' \in BOOLEAN
    BY <1>9 DEF CloseNext, IInv, LifecycleTypeOK
  <2>2. /\ opened' \in Seq(Loaded \union {"routes", "http"})
        /\ \A i, j \in 1..Len(opened') : opened'[i] = opened'[j] => i = j
        /\ Stacked'
        /\ Opened \subseteq Opened' \union {Latest}
    BY <1>9, <2>1, StackedPop DEF CloseNext
  <2>3. LifecycleTypeOK'
    BY <2>1, <2>2 DEF IInv, LifecycleTypeOK, Loaded
  <2>4. Served'
    BY <1>9, <2>1, <2>2 DEF CloseNext, Drained, IInv, LifecycleTypeOK, Served
  <2> QED
    BY <2>2, <2>3, <2>4 DEF IInv
<1>10. CASE Exited \/ UNCHANGED vars
  <2>1. UNCHANGED <<role, status, opened, requests, jobs, failed, exit>>
    BY <1>10 DEF Exited, vars
  <2> QED
    BY <2>1 DEF IInv, LifecycleTypeOK, Stacked, Served, Opened, Before, Loaded
<1> QED
  BY <1>1, <1>2, <1>4, <1>5, <1>6, <1>7, <1>8, <1>9, <1>10 DEF Next

LEMMA LifecycleInvariant == Spec => []IInv
BY LifecycleInit, LifecycleStep, PTL DEF Spec

-----------------------------------------------------------------------------
(* Theorems *)

\* A process is type correct whatever is loaded and however boot and shutdown
\* interleave with requests, jobs and errors.
THEOREM LifecycleTypeCorrect == Spec => []LifecycleTypeOK
BY LifecycleInvariant, PTL DEF IInv

\* What a plugin reads has been decorated, in every order of registration.
THEOREM DependenciesAreEnough == Spec => []DecoratorsAreThere
<1>1. IInv => DecoratorsAreThere
  <2> SUFFICES ASSUME IInv, NEW i \in 1..Len(opened),
                      NEW d \in Reads[opened[i]] \intersect Loaded
               PROVE  \E j \in 1..(i - 1) : opened[j] = d
    BY DEF DecoratorsAreThere
  <2>1. opened[i] \in Loaded \union {"routes", "http"}
    BY DEF IInv, LifecycleTypeOK
  <2>2. d \in Before(opened[i])
    BY <2>1, ReadsAreDeclared
  <2> QED
    BY <2>2 DEF IInv, Stacked
<1> QED
  BY <1>1, LifecycleInvariant, PTL

\* Jobs and requests keep their connections while the hooks run.
THEOREM ConnectionsOutliveTasks == Spec => []TasksHaveTheirConnections
<1>1. IInv => TasksHaveTheirConnections
  BY StackedUses DEF IInv, Served, TasksHaveTheirConnections
<1> QED
  BY <1>1, LifecycleInvariant, PTL

\* A clean exit cuts nothing off.
THEOREM CleanExitIsComplete == Spec => []CleanExitCutsNothing
<1>1. IInv => CleanExitCutsNothing
  <2> SUFFICES ASSUME IInv, exit = "0"
               PROVE  jobs = 0 /\ requests = 0
    BY DEF CleanExitCutsNothing
  <2>1. Opened = {}
    BY DEF IInv, Served, Opened
  <2> QED
    BY <2>1 DEF IInv, Served, LifecycleTypeOK
<1> QED
  BY <1>1, LifecycleInvariant, PTL
=============================================================================
