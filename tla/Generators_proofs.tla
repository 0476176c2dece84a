------------------------- MODULE Generators_proofs --------------------------
(***************************************************************************)
(* What the generators and check:generators leave of the shared files, for *)
(* every set of entities and relation of their names, and every number of  *)
(* commands.                                                               *)
(***************************************************************************)
EXTENDS Generators, SequenceTheorems, FiniteSetTheorems, TLAPS

SharedFiles ==
  [types : [Entities \X Entities -> Nat], groups : SUBSET Entities,
   imports : SUBSET (Entities \X Generated),
   entries : [Entities \X Generated -> Nat], models : BOOLEAN]

Made == {"dir", "type", "route", "handler", "service", "index", "public",
         "readme", "schema"}

Modules == Names \cup {Probe}

\* The probe's repositories are in its module, and no other's.
Places == (Names \X Names) \cup ({Probe} \X {Probe, ProbeItem})

Commands ==
  {c \in [kind : Generated, name : Entities, module : Entities, next : Nat] :
     <<c.module, c.name>> \in Places /\ (c.kind = "module" => c.module = c.name)}

Running(kind, n) == command # Idle /\ command.kind = kind /\ command.name = n

WellFormed ==
  /\ shared \in SharedFiles
  /\ before \in SharedFiles
  /\ \A m, n \in Entities : <<m, n>> \notin Places => shared.types[<<m, n>>] = 0
  /\ created \subseteq Modules \X Made
  /\ repositories \subseteq Places
  /\ probe \in {SubSeq(ProbeSteps, i, Len(ProbeSteps)) : i \in 1..8}
  /\ died \in BOOLEAN
  /\ runs \in 0..MaxRuns
  /\ command # Idle => command \in Commands /\ command.next \in DOMAIN Writes(command.kind)

FilesAreInDir ==
  /\ \A f \in created : <<f[1], "dir">> \in created
  /\ \A r \in repositories : <<r[1], "dir">> \in created

\* What the writes of the command so far have made, and the others will make.
CommandIsAhead ==
  LET n == command.name
      m == command.module
  IN command # Idle =>
       IF command.kind = "module"
       THEN /\ <<n, "dir">> \in created <=> command.next > 1
            /\ command.next > 9 => <<n, "schema">> \in created
            /\ \A i \in command.next..10 : <<n, Writes("module")[i]>> \notin created
       ELSE /\ <<m, "dir">> \in created
            /\ command.next > 1 => shared.types[<<m, n>>] > 0
            /\ <<m, n>> \in repositories <=> command.next > 2

\* The next of the steps of check:generators, or 8.
Stage == 8 - Len(probe)

\* Only the probe's own commands run beside it, and its cleanup runs alone.
ProbeRunsAlone ==
  command # Idle =>
    /\ command.module = Probe <=> Stage # 8
    /\ Stage \notin {1, 2, 6, 7}

\* Of the developer's own names the shared files still say what was read.
NamesAreBackedUp ==
  Stage # 8 =>
    \A n \in Names :
      /\ n \in before.groups <=> n \in shared.groups
      /\ \A kind \in Generated : before.entries[<<n, kind>>] = shared.entries[<<n, kind>>]

\* 1 while the repository of a command is there and its entry is not.
Pending(n) == IF Running("repository", n) /\ command.next > 2 THEN 1 ELSE 0

ModuleIsWired(n) == shared.entries[<<n, "module">>] > 0 => <<n, "schema">> \in created

RepositoryIsWired(n) ==
  /\ shared.entries[<<n, "repository">>] + Pending(n) <= Cardinality(Holders(n))
  /\ n \in shared.groups => Holders(n) # {}
  /\ \A m \in Holders(n) : shared.types[<<m, n>>] > 0

Wired(n) == ModuleIsWired(n) /\ RepositoryIsWired(n)

\* A module that is made, or was not begun, or is being made.
ModuleIsWhole(n) ==
  IF Running("module", n)
  THEN shared.entries[<<n, "module">>] = 0 /\ (<<n, "schema">> \in created <=> command.next > 9)
  ELSE /\ <<n, "dir">> \in created <=> <<n, "schema">> \in created
       /\ shared.entries[<<n, "module">>] = IF <<n, "dir">> \in created THEN 1 ELSE 0

RepositoryIsWhole(n) ==
  /\ shared.entries[<<n, "repository">>] + Pending(n) = Cardinality(Holders(n))
  /\ n \in shared.groups => Holders(n) # {}
  /\ Holders(n) # {} =>
       n \in shared.groups \/ (Running("repository", n) /\ command.next < 4)
  /\ \A m \in Entities :
       shared.types[<<m, n>>] =
         IF \/ m \in Holders(n)
            \/ Running("repository", n) /\ command.module = m /\ command.next = 2
         THEN 1 ELSE 0

Whole(n) == ModuleIsWhole(n) /\ RepositoryIsWhole(n)

\* The probe's own names are not in what was read.
ProbeIsNotBackedUp ==
  Stage # 8 =>
    /\ ~before.models
    /\ \A n \in Entities \ Names :
         /\ n \notin before.groups
         /\ \A kind \in Generated : before.entries[<<n, kind>>] = 0

ProbeLeavesNothing ==
  /\ Stage \in {1, 8} => ~shared.models
  /\ Stage \in {1, 2, 7, 8} => <<Probe, "dir">> \notin created
  /\ Stage = 7 => \A n \in Entities : shared.types[<<Probe, n>>] = 0

AllAreWhole == \A n \in Entities : n \in Names \/ Stage \notin {6, 7} => Whole(n)

Undisturbed == ProbeIsNotBackedUp /\ ProbeLeavesNothing /\ AllAreWhole

\* With kills the first parts hold; without, the last as well.
GenInv ==
  /\ WellFormed
  /\ FilesAreInDir
  /\ CommandIsAhead
  /\ ProbeRunsAlone
  /\ NamesAreBackedUp
  /\ \A n \in Names : Wired(n)
  /\ ~died => Undisturbed

-----------------------------------------------------------------------------
(* The sequences of writes and of steps *)

LEMMA WritesAre ==
  /\ Len(Writes("module")) = 10 /\ Len(Writes("repository")) = 4
  /\ DOMAIN Writes("module") = 1..10 /\ DOMAIN Writes("repository") = 1..4
  /\ Writes("module")[1] = "dir" /\ Writes("module")[9] = "schema"
  /\ Writes("module")[10] = "cradle"
  /\ \A i \in 1..9 : Writes("module")[i] \in Made
  /\ \A i \in 1..9, j \in 1..10 : i # j => Writes("module")[i] # Writes("module")[j]
  /\ Writes("repository")[1] = "domain type" /\ Writes("repository")[2] = "repository"
  /\ Writes("repository")[3] = "messages" /\ Writes("repository")[4] = "cradle"
BY DEF Writes, Made

Rest == [i \in 1..8 |-> SubSeq(ProbeSteps, i, Len(ProbeSteps))]

LEMMA RestIs ==
  /\ Rest[8] = <<>> /\ Rest[1] = ProbeSteps /\ Rest[6] = <<"remove", "restore">>
  /\ \A i \in 1..8 : Len(Rest[i]) = 8 - i
  /\ \A i \in 1..7 : /\ Rest[i] # <<>>
                     /\ Head(Rest[i]) = ProbeSteps[i]
                     /\ Tail(Rest[i]) = Rest[i + 1]
<1> DEFINE S == {"models", "module", "repository", "item", "checks", "remove", "restore"}
<1>1. ProbeSteps \in Seq(S)
  BY DEF ProbeSteps
<1>2. Len(ProbeSteps) = 7
  BY DEF ProbeSteps
<1> HIDE DEF S
<1>3. ASSUME NEW i \in 1..7 PROVE ProbeSteps[i] \in S
  BY <1>1, <1>2, ElementOfSeq
<1>4. ASSUME NEW i \in 1..8
      PROVE  /\ Rest[i] \in Seq(S) /\ Len(Rest[i]) = 8 - i
             /\ \A j \in 1..(7 - i + 1) : Rest[i][j] = ProbeSteps[i + j - 1]
  <2>1. Rest[i] = SubSeq(ProbeSteps, i, 7) /\ i \in Int /\ 7 \in Int
    BY <1>2 DEF Rest
  <2>2. \A j \in i..7 : ProbeSteps[j] \in S
    BY <1>3
  <2>3. /\ SubSeq(ProbeSteps, i, 7) \in Seq(S)
        /\ Len(SubSeq(ProbeSteps, i, 7)) = IF i <= 7 THEN 7 - i + 1 ELSE 0
        /\ \A j \in 1..(7 - i + 1) : SubSeq(ProbeSteps, i, 7)[j] = ProbeSteps[i + j - 1]
    BY <2>1, <2>2, SubSeqProperties
  <2> QED
    BY <2>1, <2>3
<1>9. \A i \in 1..8 : Len(Rest[i]) = 8 - i
  BY <1>4
<1>5. Rest[8] = <<>>
  BY <1>2, SubSeqEmpty DEF Rest
<1>6. Rest[1] = ProbeSteps
  BY <1>1, SubSeqFull DEF Rest
<1>7. Rest[6] = <<"remove", "restore">>
  <2>1. Rest[6] \in Seq(S) /\ Len(Rest[6]) = 2
    <3> SUFFICES ASSUME NEW i \in 1..8, i = 6
                 PROVE  Rest[i] \in Seq(S) /\ Len(Rest[i]) = 2
      OBVIOUS
    <3>1. Len(Rest[i]) = 8 - i
      BY <1>9
    <3>2. 8 - i = 2
      OBVIOUS
    <3>3. Rest[i] \in Seq(S)
      BY <1>4
    <3> QED
      BY <3>1, <3>2, <3>3
  <2>2. Rest[6][1] = ProbeSteps[6] /\ Rest[6][2] = ProbeSteps[7]
    BY <1>4
  <2>3. ProbeSteps[6] = "remove" /\ ProbeSteps[7] = "restore"
    BY DEF ProbeSteps
  <2> QED
    BY <2>1, <2>2, <2>3
<1>8. ASSUME NEW i \in 1..7
      PROVE  Rest[i] # <<>> /\ Head(Rest[i]) = ProbeSteps[i] /\ Tail(Rest[i]) = Rest[i + 1]
  <2>1. i \in 1..Len(ProbeSteps) /\ Len(ProbeSteps) \in i..Len(ProbeSteps)
    BY <1>2
  <2>2. /\ Head(SubSeq(ProbeSteps, i, Len(ProbeSteps))) = ProbeSteps[i]
        /\ Tail(SubSeq(ProbeSteps, i, Len(ProbeSteps))) =
             SubSeq(ProbeSteps, i + 1, Len(ProbeSteps))
    BY <1>1, <2>1, HeadTailOfSubSeq
  <2>3. Rest[i] # <<>>
    <3>1. Len(Rest[i]) = 8 - i
      BY <1>9
    <3>2. Len(<<>>) = 0
      OBVIOUS
    <3>3. 8 - i # 0
      OBVIOUS
    <3> QED
      BY <3>1, <3>2, <3>3
  <2>4. /\ Rest[i] = SubSeq(ProbeSteps, i, Len(ProbeSteps))
        /\ Rest[i + 1] = SubSeq(ProbeSteps, i + 1, Len(ProbeSteps))
    BY DEF Rest
  <2> QED
    BY <2>2, <2>3, <2>4
<1> QED
  BY <1>5, <1>6, <1>7, <1>8, <1>9

\* Where check:generators is, by the number of its next step.
LEMMA StageIs ==
  ASSUME WellFormed
  PROVE  /\ Stage \in 1..8 /\ probe = Rest[Stage]
         /\ probe = <<>> <=> Stage = 8
         /\ probe # <<>> => Head(probe) = ProbeSteps[Stage]
<1>1. PICK i \in 1..8 : probe = Rest[i]
  BY DEF WellFormed, Rest
<1>2. Stage = i
  BY <1>1, RestIs DEF Stage
<1> QED
  BY <1>1, <1>2, RestIs

LEMMA StepsAre ==
  ASSUME NEW i \in 1..7
  PROVE  /\ ProbeSteps[i] = "models" <=> i = 1
         /\ ProbeSteps[i] = "module" <=> i = 2
         /\ ProbeSteps[i] = "repository" <=> i = 3
         /\ ProbeSteps[i] = "item" <=> i = 4
         /\ ProbeSteps[i] = "checks" <=> i = 5
         /\ ProbeSteps[i] = "remove" <=> i = 6
         /\ ProbeSteps[i] = "restore" <=> i = 7
BY DEF ProbeSteps

-----------------------------------------------------------------------------
(* What the actions do *)

LEMMA ExtendCradleIs ==
  ASSUME shared \in SharedFiles, NEW n \in Entities, NEW kind \in Generated,
         ExtendCradle(n, kind)
  PROVE  /\ shared' \in SharedFiles
         /\ shared'.entries = [shared.entries EXCEPT ![<<n, kind>>] = @ + 1]
         /\ shared'.types = shared.types /\ shared'.groups = shared.groups
         /\ shared'.models = shared.models
<1> DEFINE more == IF Mentioned(n, kind) THEN shared.imports
                   ELSE shared.imports \cup {<<n, kind>>}
           counted == [shared.entries EXCEPT ![<<n, kind>>] = @ + 1]
<1>1. shared' = [shared EXCEPT !.entries = counted, !.imports = more]
  BY DEF ExtendCradle
<1>2. /\ shared.imports \in SUBSET (Entities \X Generated)
      /\ shared.entries \in [Entities \X Generated -> Nat]
  BY DEF SharedFiles
<1>3. more \in SUBSET (Entities \X Generated)
  BY <1>2
<1>4. counted \in [Entities \X Generated -> Nat]
  BY <1>2
<1> HIDE DEF more, counted
<1>5. shared' = [types |-> shared.types, groups |-> shared.groups, imports |-> more,
                 entries |-> counted, models |-> shared.models]
  BY <1>1 DEF SharedFiles
<1> QED
  BY <1>3, <1>4, <1>5 DEF SharedFiles, counted

LEMMA AppendTypeIs ==
  ASSUME shared \in SharedFiles, NEW m \in Entities, NEW n \in Entities,
         AppendType(m, n)
  PROVE  /\ shared' \in SharedFiles
         /\ shared'.types = [shared.types EXCEPT ![<<m, n>>] = @ + 1]
         /\ shared'.entries = shared.entries /\ shared'.groups = shared.groups
         /\ shared'.imports = shared.imports /\ shared'.models = shared.models
<1> DEFINE counted == [shared.types EXCEPT ![<<m, n>>] = @ + 1]
<1>1. shared' = [shared EXCEPT !.types = counted]
  BY DEF AppendType
<1>2. counted \in [Entities \X Entities -> Nat]
  BY DEF SharedFiles
<1> HIDE DEF counted
<1>3. shared' = [types |-> counted, groups |-> shared.groups, imports |-> shared.imports,
                 entries |-> shared.entries, models |-> shared.models]
  BY <1>1 DEF SharedFiles
<1> QED
  BY <1>2, <1>3 DEF SharedFiles, counted

LEMMA ExtendMessagesIs ==
  ASSUME shared \in SharedFiles, NEW n \in Entities, ExtendMessages(n)
  PROVE  /\ shared' \in SharedFiles
         /\ shared'.groups = shared.groups \cup {n}
         /\ shared'.entries = shared.entries /\ shared'.types = shared.types
         /\ shared'.imports = shared.imports /\ shared'.models = shared.models
BY DEF ExtendMessages, SharedFiles

LEMMA DoWriteIs ==
  ASSUME NEW c \in Commands, c.next \in DOMAIN Writes(c.kind),
         DoWrite(c, Writes(c.kind)[c.next])
  PROVE  \/ /\ c.kind = "module" /\ c.next \in 1..9 /\ UNCHANGED <<repositories, shared>>
            /\ created' = created \cup {<<c.name, Writes("module")[c.next]>>}
         \/ /\ c.kind = "module" /\ c.next = 10 /\ ExtendCradle(c.name, "module")
            /\ UNCHANGED <<created, repositories>>
         \/ /\ c.kind = "repository" /\ c.next = 1 /\ AppendType(c.module, c.name)
            /\ UNCHANGED <<created, repositories>>
         \/ /\ c.kind = "repository" /\ c.next = 2 /\ UNCHANGED <<created, shared>>
            /\ repositories' = repositories \cup {<<c.module, c.name>>}
         \/ /\ c.kind = "repository" /\ c.next = 3 /\ ExtendMessages(c.name)
            /\ UNCHANGED <<created, repositories>>
         \/ /\ c.kind = "repository" /\ c.next = 4 /\ ExtendCradle(c.name, "repository")
            /\ UNCHANGED <<created, repositories>>
<1> DEFINE i == c.next
<1>0. c.kind \in Generated
  BY DEF Commands
<1>1. CASE c.kind = "module"
  <2>1. i \in 1..10
    BY <1>1, WritesAre
  <2>2. CASE i = 10
    BY <1>1, <2>2, WritesAre DEF DoWrite
  <2>3. CASE i \in 1..9
    <3>1. Writes("module")[i] \notin {"cradle", "messages", "domain type", "repository"}
      <4>1. Writes("module")[i] \in Made
        BY <2>3, WritesAre
      <4> QED
        BY <4>1 DEF Made
    <3> QED
      BY <1>1, <2>3, <3>1 DEF DoWrite
  <2> QED
    BY <2>1, <2>2, <2>3
<1>2. CASE c.kind = "repository"
  <2>1. i \in 1..4
    BY <1>2, WritesAre
  <2>2. CASE i = 1
    BY <1>2, <2>2, WritesAre DEF DoWrite
  <2>3. CASE i = 2
    BY <1>2, <2>3, WritesAre DEF DoWrite
  <2>4. CASE i = 3
    BY <1>2, <2>4, WritesAre DEF DoWrite
  <2>5. CASE i = 4
    BY <1>2, <2>5, WritesAre DEF DoWrite
  <2> QED
    BY <2>1, <2>2, <2>3, <2>4, <2>5
<1> QED
  BY <1>0, <1>1, <1>2 DEF Generated

\* A command starts with all its writes before it.
LEMMA StartIs ==
  ASSUME NEW kind \in Generated, NEW n \in Entities, NEW m \in Entities,
         <<m, n>> \in Places, kind = "module" => m = n, Start(kind, n, m)
  PROVE  /\ command = Idle /\ command' # Idle /\ command' \in Commands
         /\ command'.kind = kind /\ command'.name = n /\ command'.module = m
         /\ command'.next = 1 /\ command'.next \in DOMAIN Writes(command'.kind)
<1>1. command = Idle /\ command' = [kind |-> kind, name |-> n, module |-> m, next |-> 1]
  BY DEF Start
<1>2. command' \in Commands
  BY <1>1 DEF Commands
<1>3. command' # Idle
  BY <1>2, GeneratorsAssumption DEF Commands, Generated
<1>4. 1 \in DOMAIN Writes(kind)
  <2>1. DOMAIN Writes("module") = 1..10 /\ DOMAIN Writes("repository") = 1..4
    BY WritesAre
  <2>2. 1 \in 1..10 /\ 1 \in 1..4
    OBVIOUS
  <2> QED
    BY <2>1, <2>2 DEF Generated
<1> QED
  BY <1>1, <1>2, <1>3, <1>4

\* A write is the next of its command, and the last one ends it.
LEMMA WriteIs ==
  ASSUME WellFormed, Write
  PROVE  /\ command # Idle /\ command \in Commands
         /\ command.next \in DOMAIN Writes(command.kind)
         /\ DoWrite(command, Writes(command.kind)[command.next])
         /\ \/ command.next = Len(Writes(command.kind)) /\ command' = Idle
            \/ /\ command.next # Len(Writes(command.kind))
               /\ command' # Idle /\ command' \in Commands
               /\ command'.kind = command.kind /\ command'.name = command.name
               /\ command'.module = command.module
               /\ command'.next = command.next + 1
               /\ command'.next \in DOMAIN Writes(command'.kind)
<1>1. /\ command # Idle /\ command \in Commands
      /\ command.next \in DOMAIN Writes(command.kind)
      /\ DoWrite(command, Writes(command.kind)[command.next])
  BY DEF Write, WellFormed
<1>2. CASE command.next = Len(Writes(command.kind))
  BY <1>1, <1>2 DEF Write
<1>3. CASE command.next # Len(Writes(command.kind))
  <2>1. command' = [command EXCEPT !.next = @ + 1]
    BY <1>3 DEF Write
  <2>2. /\ command' \in Commands /\ command'.kind = command.kind
        /\ command'.name = command.name /\ command'.module = command.module
        /\ command'.next = command.next + 1
    BY <1>1, <2>1 DEF Commands
  <2>3. command.kind \in Generated /\ command.next \in Nat
    BY <1>1 DEF Commands
  <2>4. command.next + 1 \in DOMAIN Writes(command.kind)
    <3>1. CASE command.kind = "module"
      <4>1. command.next \in 1..10 /\ command.next # 10
        BY <1>1, <1>3, <3>1, WritesAre
      <4>2. command.next + 1 \in 1..10
        BY <4>1
      <4>3. DOMAIN Writes(command.kind) = 1..10
        BY <3>1, WritesAre
      <4> QED
        BY <4>2, <4>3
    <3>2. CASE command.kind = "repository"
      <4>1. command.next \in 1..4 /\ command.next # 4
        BY <1>1, <1>3, <3>2, WritesAre
      <4>2. command.next + 1 \in 1..4
        BY <4>1
      <4>3. DOMAIN Writes(command.kind) = 1..4
        BY <3>2, WritesAre
      <4> QED
        BY <4>2, <4>3
    <3> QED
      BY <2>3, <3>1, <3>2 DEF Generated
  <2>5. command' # Idle
    BY <2>2, GeneratorsAssumption DEF Commands, Generated
  <2> QED
    BY <1>1, <1>3, <2>2, <2>4, <2>5
<1> QED
  BY <1>1, <1>2, <1>3

ElsewhereNoTypes == \A m, n \in Entities : <<m, n>> \notin Places => shared.types[<<m, n>>] = 0

LEMMA WrittenFiles ==
  ASSUME WellFormed, Write
  PROVE  /\ shared' \in SharedFiles /\ ElsewhereNoTypes'
         /\ created' \subseteq Modules \X Made /\ repositories' \subseteq Places
<1> DEFINE n == command.name
           m == command.module
           i == command.next
<1>1. /\ command \in Commands /\ i \in DOMAIN Writes(command.kind)
      /\ DoWrite(command, Writes(command.kind)[i])
  BY WriteIs
<1>2. /\ n \in Entities /\ m \in Entities /\ <<m, n>> \in Places
      /\ command.kind = "module" => m = n
      /\ shared \in SharedFiles /\ created \subseteq Modules \X Made
      /\ repositories \subseteq Places /\ ElsewhereNoTypes
  BY <1>1 DEF Commands, WellFormed, ElsewhereNoTypes
<1>3. \/ /\ command.kind = "module" /\ i \in 1..9 /\ UNCHANGED <<repositories, shared>>
         /\ created' = created \cup {<<n, Writes("module")[i]>>}
      \/ /\ ExtendCradle(n, "module") \/ ExtendCradle(n, "repository")
         /\ UNCHANGED <<created, repositories>>
      \/ AppendType(m, n) /\ UNCHANGED <<created, repositories>>
      \/ UNCHANGED <<created, shared>> /\ repositories' = repositories \cup {<<m, n>>}
      \/ ExtendMessages(n) /\ UNCHANGED <<created, repositories>>
  BY <1>1, DoWriteIs
<1> HIDE DEF n, m, i
<1>4. CASE /\ command.kind = "module" /\ i \in 1..9 /\ UNCHANGED <<repositories, shared>>
           /\ created' = created \cup {<<n, Writes("module")[i]>>}
  <2>1. n \in Modules
    BY <1>2, <1>4, GeneratorsAssumption DEF Places, Modules, Names
  <2>2. Writes("module")[i] \in Made
    BY <1>4, WritesAre
  <2> QED
    BY <1>2, <1>4, <2>1, <2>2 DEF ElsewhereNoTypes
<1>5. CASE /\ ExtendCradle(n, "module") \/ ExtendCradle(n, "repository")
           /\ UNCHANGED <<created, repositories>>
  <2>1. "module" \in Generated /\ "repository" \in Generated
    BY DEF Generated
  <2>2. shared' \in SharedFiles /\ shared'.types = shared.types
    BY <1>2, <1>5, <2>1, ExtendCradleIs
  <2> QED
    BY <1>2, <1>5, <2>2 DEF ElsewhereNoTypes
<1>6. CASE AppendType(m, n) /\ UNCHANGED <<created, repositories>>
  <2>1. /\ shared' \in SharedFiles
        /\ shared'.types = [shared.types EXCEPT ![<<m, n>>] = @ + 1]
        /\ shared.types \in [Entities \X Entities -> Nat]
    BY <1>2, <1>6, AppendTypeIs DEF SharedFiles
  <2>2. ElsewhereNoTypes'
    BY <1>2, <2>1 DEF ElsewhereNoTypes
  <2> QED
    BY <1>2, <1>6, <2>1, <2>2
<1>7. CASE UNCHANGED <<created, shared>> /\ repositories' = repositories \cup {<<m, n>>}
  BY <1>2, <1>7 DEF ElsewhereNoTypes
<1>8. CASE ExtendMessages(n) /\ UNCHANGED <<created, repositories>>
  BY <1>2, <1>8, ExtendMessagesIs DEF ElsewhereNoTypes
<1> QED
  BY <1>3, <1>4, <1>5, <1>6, <1>7, <1>8

LEMMA WellFormedInit == GeneratorsInit => WellFormed
<1> SUFFICES ASSUME GeneratorsInit PROVE WellFormed
  OBVIOUS
<1>1. /\ created = {} /\ repositories = {} /\ command = Idle /\ probe = <<>>
      /\ before = shared /\ died = FALSE /\ runs = 0
      /\ shared = [types |-> [r \in Entities \X Entities |-> 0], groups |-> {}, imports |-> {},
                   entries |-> [e \in Entities \X Generated |-> 0], models |-> FALSE]
  BY DEF GeneratorsInit
<1>2. shared \in SharedFiles
  BY <1>1 DEF SharedFiles
<1>3. \A m, n \in Entities : shared.types[<<m, n>>] = 0
  BY <1>1
<1>4. probe \in {SubSeq(ProbeSteps, i, Len(ProbeSteps)) : i \in 1..8}
  <2>1. probe = Rest[8] /\ 8 \in 1..8
    BY <1>1, RestIs
  <2> QED
    BY <2>1 DEF Rest
<1>5. runs \in 0..MaxRuns
  BY <1>1, GeneratorsAssumption
<1> QED
  BY <1>1, <1>2, <1>3, <1>4, <1>5 DEF WellFormed

\* One step of check:generators is gone, or all, or all but the cleanup.
LEMMA ProbeStepsOn ==
  ASSUME NEW i \in 1..8, probe' = Rest[i]
  PROVE  probe' \in {SubSeq(ProbeSteps, j, Len(ProbeSteps)) : j \in 1..8} /\ Stage' = i
<1>1. Rest[i] = SubSeq(ProbeSteps, i, Len(ProbeSteps))
  BY DEF Rest
<1>2. Len(probe') = 8 - i
  BY RestIs
<1>3. Stage' = i
  BY <1>2 DEF Stage
<1> QED
  BY <1>1, <1>3

LEMMA ProbeMoves ==
  ASSUME WellFormed, probe # <<>>, probe' = Tail(probe)
  PROVE  /\ Stage \in 1..7 /\ Stage' = Stage + 1 /\ probe' = Rest[Stage']
         /\ Head(probe) = ProbeSteps[Stage]
<1>1. /\ Stage \in 1..8 /\ probe = Rest[Stage] /\ Stage # 8
      /\ Head(probe) = ProbeSteps[Stage]
  BY StageIs
<1>2. Stage \in 1..7 /\ Stage + 1 \in 1..8
  BY <1>1
<1>3. probe' = Rest[Stage + 1]
  BY <1>1, <1>2, RestIs
<1>4. Stage' = Stage + 1
  BY <1>2, <1>3, ProbeStepsOn
<1> QED
  BY <1>1, <1>2, <1>3, <1>4

\* The commands of the developer and those of check:generators.
LEMMA GenerateStarts ==
  ASSUME NEW kind \in Generated, NEW n \in Names, NEW m \in Names, Generate(kind, n, m)
  PROVE  /\ n \in Entities /\ m \in Entities /\ <<m, n>> \in Places
         /\ kind = "module" => m = n
         /\ Start(kind, n, m)
BY DEF Generate, Names, Places

LEMMA ProbeStarts ==
  ASSUME ProbeGenerates
  PROVE  /\ command = Idle /\ probe # <<>>
         /\ Head(probe) \in {"module", "repository", "item"}
         /\ probe' = Tail(probe)
         /\ UNCHANGED <<created, repositories, shared, before, died, runs>>
         /\ \E kind \in Generated, n \in Entities \ Names :
              /\ <<Probe, n>> \in Places /\ (kind = "module" => Probe = n)
              /\ Start(kind, n, Probe)
<1>1. /\ Probe \in Entities \ Names /\ ProbeItem \in Entities \ Names
      /\ <<Probe, Probe>> \in Places /\ <<Probe, ProbeItem>> \in Places
  BY GeneratorsAssumption DEF Names, Places
<1> QED
  BY <1>1 DEF ProbeGenerates, ProbeTurn, Generated

LEMMA WellFormedStep == WellFormed /\ [GeneratorsNext]_generatorVars => WellFormed'
<1> SUFFICES ASSUME WellFormed, [GeneratorsNext]_generatorVars
             PROVE  WellFormed'
  OBVIOUS
<1> DEFINE Probes == {SubSeq(ProbeSteps, i, Len(ProbeSteps)) : i \in 1..8}
           CommandOK == command # Idle =>
                          command \in Commands /\ command.next \in DOMAIN Writes(command.kind)
<1>1. /\ shared \in SharedFiles /\ before \in SharedFiles /\ ElsewhereNoTypes
      /\ created \subseteq Modules \X Made /\ repositories \subseteq Places
      /\ probe \in Probes
      /\ died \in BOOLEAN /\ runs \in 0..MaxRuns /\ CommandOK
  BY DEF WellFormed, ElsewhereNoTypes
<1>2. /\ shared' \in SharedFiles /\ before' \in SharedFiles /\ ElsewhereNoTypes'
      /\ created' \subseteq Modules \X Made /\ repositories' \subseteq Places
      /\ probe' \in Probes
      /\ died' \in BOOLEAN /\ runs' \in 0..MaxRuns /\ CommandOK'
      => WellFormed'
  BY DEF WellFormed, ElsewhereNoTypes
<1>3. <<>> \in Probes /\ <<"remove", "restore">> \in Probes /\ ProbeSteps \in Probes
  <2>1. Rest[8] = <<>> /\ Rest[6] = <<"remove", "restore">> /\ Rest[1] = ProbeSteps
    BY RestIs
  <2>2. \A i \in 1..8 : Rest[i] \in Probes
    BY DEF Rest
  <2> HIDE DEF Probes
  <2>3. Rest[8] \in Probes /\ Rest[6] \in Probes /\ Rest[1] \in Probes
    BY <2>2
  <2> QED
    BY <2>1, <2>3
<1> HIDE DEF Probes
<1>4. ASSUME probe # <<>>, probe' = Tail(probe)
      PROVE  probe' \in Probes
  <2>1. Stage' \in 1..8 /\ probe' = Rest[Stage']
    BY <1>4, ProbeMoves
  <2> QED
    BY <2>1 DEF Rest, Probes
<1>5. MaxRuns \in Nat /\ (runs < MaxRuns => runs + 1 \in 0..MaxRuns)
  BY <1>1, GeneratorsAssumption
<1>6. ASSUME NEW kind \in Generated, NEW n \in Names, NEW m \in Names, Generate(kind, n, m)
      PROVE  WellFormed'
  <2>0. /\ n \in Entities /\ m \in Entities /\ <<m, n>> \in Places
        /\ (kind = "module" => m = n) /\ Start(kind, n, m)
    BY <1>6, GenerateStarts
  <2>1. CommandOK'
    BY <2>0, StartIs
  <2> QED
    BY <1>1, <1>2, <1>5, <1>6, <2>1 DEF Generate, ElsewhereNoTypes
<1>7. CASE Write
  BY <1>1, <1>2, <1>7, WriteIs, WrittenFiles DEF Write
<1>8. CASE Kill
  BY <1>1, <1>2, <1>3, <1>8 DEF Kill, ElsewhereNoTypes
<1>9. CASE CheckGenerators
  BY <1>1, <1>2, <1>3, <1>5, <1>9 DEF CheckGenerators, ElsewhereNoTypes
<1>10. CASE ProbeWritesModels
  <2>1. shared' \in SharedFiles /\ shared'.types = shared.types
    BY <1>1, <1>10 DEF ProbeWritesModels, SharedFiles
  <2> QED
    BY <1>1, <1>2, <1>4, <1>10, <2>1 DEF ProbeWritesModels, ProbeTurn, ElsewhereNoTypes
<1>11. CASE ProbeGenerates
  <2>0. PICK kind \in Generated, n \in Entities :
          /\ <<Probe, n>> \in Places /\ (kind = "module" => Probe = n)
          /\ Start(kind, n, Probe)
    BY <1>11, ProbeStarts
  <2>1. CommandOK'
    BY <2>0, StartIs, GeneratorsAssumption
  <2> QED
    BY <1>1, <1>2, <1>4, <1>11, <2>1, ProbeStarts DEF ElsewhereNoTypes
<1>12. CASE ProbeFails
  BY <1>1, <1>2, <1>3, <1>12 DEF ProbeFails, ElsewhereNoTypes
<1>13. CASE ProbeRemoves
  <2> DEFINE fewer == [r \in Entities \X Entities |-> IF r[1] = Probe THEN 0 ELSE shared.types[r]]
  <2>1. shared' = [shared EXCEPT !.types = fewer]
    BY <1>13 DEF ProbeRemoves
  <2>2. fewer \in [Entities \X Entities -> Nat]
    BY <1>1 DEF SharedFiles
  <2>3. \A m, n \in Entities : fewer[<<m, n>>] = IF m = Probe THEN 0 ELSE shared.types[<<m, n>>]
    OBVIOUS
  <2> HIDE DEF fewer
  <2>4. shared' \in SharedFiles /\ shared'.types = fewer
    BY <1>1, <2>1, <2>2 DEF SharedFiles
  <2>5. ElsewhereNoTypes'
    BY <1>1, <2>3, <2>4 DEF ElsewhereNoTypes
  <2> QED
    BY <1>1, <1>2, <1>4, <1>13, <2>4, <2>5 DEF ProbeRemoves, ProbeTurn
<1>14. CASE ProbeRestores
  <2>1. shared' \in SharedFiles /\ shared'.types = shared.types
    BY <1>1, <1>14 DEF ProbeRestores, Restored, SharedFiles
  <2> QED
    BY <1>1, <1>2, <1>4, <1>14, <2>1 DEF ProbeRestores, ProbeTurn, ElsewhereNoTypes
<1>15. CASE UNCHANGED generatorVars
  BY <1>1, <1>2, <1>15 DEF generatorVars, ElsewhereNoTypes
<1> QED
  BY <1>6, <1>7, <1>8, <1>9, <1>10, <1>11, <1>12, <1>13, <1>14, <1>15
  DEF GeneratorsNext, CheckGeneratorsStep

-----------------------------------------------------------------------------
(* What is wired is there, and what is made is made as a whole *)

LEMMA HoldersAreFew ==
  ASSUME NEW n \in Entities
  PROVE  /\ IsFiniteSet(Holders(n)) /\ Cardinality(Holders(n)) \in Nat
         /\ Holders(n) = {} => Cardinality(Holders(n)) = 0
<1>1. Holders(n) \subseteq Entities
  BY DEF Holders
<1> QED
  BY <1>1, GeneratorsAssumption, FS_Subset, FS_CardinalityType, FS_EmptySet

LEMMA OneMoreHolder ==
  ASSUME NEW n \in Entities, NEW m \in Entities, <<m, n>> \notin repositories,
         repositories' = repositories \cup {<<m, n>>}
  PROVE  /\ Holders(n)' = Holders(n) \cup {m}
         /\ Cardinality(Holders(n)') = Cardinality(Holders(n)) + 1
         /\ \A k \in Entities \ {n} : Holders(k)' = Holders(k)
<1>1. Holders(n)' = Holders(n) \cup {m} /\ m \notin Holders(n)
  BY DEF Holders
<1>2. \A k \in Entities \ {n} : Holders(k)' = Holders(k)
  BY DEF Holders
<1> QED
  BY <1>1, <1>2, HoldersAreFew, FS_AddElement

LEMMA Numbers ==
  ASSUME WellFormed
  PROVE  /\ \A m, n \in Entities : shared.types[<<m, n>>] \in Nat
         /\ \A n \in Entities, kind \in Generated : shared.entries[<<n, kind>>] \in Nat
         /\ \A n \in Entities : /\ shared.entries[<<n, "module">>] \in Nat
                                /\ shared.entries[<<n, "repository">>] \in Nat
BY DEF WellFormed, SharedFiles, Generated

LEMMA PendingIs ==
  /\ \A n : Pending(n) \in {0, 1} /\ Pending(n)' \in {0, 1}
  /\ command = Idle => \A kind, n : ~Running(kind, n)
  /\ command = Idle => \A n : Pending(n) = 0
  /\ command' = Idle => \A kind, n : ~Running(kind, n)'
  /\ command' = Idle => \A n : Pending(n)' = 0
BY DEF Pending, Running

\* A step leaves what is said and made of n as it was.
SameAt(n) ==
  /\ \A w \in Made : <<n, w>> \in created' <=> <<n, w>> \in created
  /\ Holders(n)' = Holders(n)
  /\ \A m \in Entities : shared'.types[<<m, n>>] = shared.types[<<m, n>>]
  /\ n \in shared'.groups <=> n \in shared.groups
  /\ \A kind \in Generated : shared'.entries[<<n, kind>>] = shared.entries[<<n, kind>>]

LEMMA SameFiles ==
  ASSUME NEW n, UNCHANGED <<created, repositories>>, shared'.types = shared.types,
         shared'.groups = shared.groups, shared'.entries = shared.entries
  PROVE  SameAt(n)
BY DEF SameAt, Holders

Concerns(n) == command # Idle /\ command.name = n

LEMMA Elsewhere ==
  ASSUME NEW n \in Entities, SameAt(n), ~Concerns(n), ~Concerns(n)'
  PROVE  (Wired(n) => Wired(n)') /\ (Whole(n) => Whole(n)')
<1>1. /\ <<n, "dir">> \in created' <=> <<n, "dir">> \in created
      /\ <<n, "schema">> \in created' <=> <<n, "schema">> \in created
      /\ Holders(n)' = Holders(n)
      /\ \A m \in Entities : shared'.types[<<m, n>>] = shared.types[<<m, n>>]
      /\ \A m \in Holders(n) : shared'.types[<<m, n>>] = shared.types[<<m, n>>]
      /\ n \in shared'.groups <=> n \in shared.groups
      /\ shared'.entries[<<n, "module">>] = shared.entries[<<n, "module">>]
      /\ shared'.entries[<<n, "repository">>] = shared.entries[<<n, "repository">>]
  BY DEF SameAt, Made, Generated, Holders
<1>2. \A kind : ~Running(kind, n) /\ ~Running(kind, n)'
  BY DEF Concerns, Running
<1>3. Pending(n) = 0 /\ Pending(n)' = 0
  BY <1>2 DEF Pending
<1>4. Wired(n) => Wired(n)'
  BY <1>1, <1>3 DEF Wired, ModuleIsWired, RepositoryIsWired
<1>5. Whole(n) => Whole(n)'
  BY <1>1, <1>2, <1>3 DEF Whole, ModuleIsWhole, RepositoryIsWhole
<1> QED
  BY <1>4, <1>5

\* A kill leaves what is wired there.
LEMMA Killed ==
  ASSUME WellFormed, NEW n \in Entities, Wired(n), SameAt(n), command' = Idle
  PROVE  Wired(n)'
<1>1. /\ <<n, "schema">> \in created' <=> <<n, "schema">> \in created
      /\ Holders(n)' = Holders(n)
      /\ \A m \in Holders(n) : shared'.types[<<m, n>>] = shared.types[<<m, n>>]
      /\ n \in shared'.groups <=> n \in shared.groups
      /\ shared'.entries[<<n, "module">>] = shared.entries[<<n, "module">>]
      /\ shared'.entries[<<n, "repository">>] = shared.entries[<<n, "repository">>]
  BY DEF SameAt, Made, Generated, Holders
<1>2. Pending(n)' = 0 /\ Pending(n) \in {0, 1}
  BY PendingIs
<1>3. shared.entries[<<n, "repository">>] \in Nat /\ Cardinality(Holders(n)) \in Nat
  BY Numbers, HoldersAreFew
<1>4. shared.entries[<<n, "repository">>] + Pending(n) <= Cardinality(Holders(n))
  BY DEF Wired, RepositoryIsWired
<1>5. shared'.entries[<<n, "repository">>] + Pending(n)' <= Cardinality(Holders(n)')
  BY <1>1, <1>2, <1>3, <1>4
<1> QED
  BY <1>1, <1>5 DEF Wired, ModuleIsWired, RepositoryIsWired

LEMMA Started ==
  ASSUME WellFormed, FilesAreInDir, NEW kind \in Generated, NEW n \in Entities,
         NEW m \in Entities, <<m, n>> \in Places, kind = "module" => m = n,
         Start(kind, n, m), UNCHANGED <<created, repositories, shared>>
  PROVE  /\ CommandIsAhead'
         /\ \A k \in Entities : (Wired(k) => Wired(k)') /\ (Whole(k) => Whole(k)')
<1>1. /\ command = Idle /\ command' # Idle /\ command'.kind = kind
      /\ command'.name = n /\ command'.module = m /\ command'.next = 1
  BY StartIs
<1>2. /\ \A k, j : ~Running(k, j)
      /\ Pending(n) = 0 /\ Pending(n)' = 0
  BY <1>1, PendingIs DEF Pending
<1>3. /\ kind = "module" => <<n, "dir">> \notin created
      /\ kind # "module" => <<m, "dir">> \in created /\ <<m, n>> \notin repositories
  BY DEF Start, Accepts
<1>4. kind = "module" => \A w : <<n, w>> \notin created
  BY <1>3 DEF FilesAreInDir
<1>5. CommandIsAhead'
  <2>1. CASE kind = "module"
    <3>1. /\ <<n, "dir">> \in created' <=> 1 > 1
          /\ 1 > 9 => <<n, "schema">> \in created'
          /\ \A i \in 1..10 : <<n, Writes("module")[i]>> \notin created'
      BY <1>3, <1>4, <2>1
    <3> QED
      BY <1>1, <2>1, <3>1 DEF CommandIsAhead, Writes
  <2>2. CASE kind # "module"
    <3>1. /\ <<m, "dir">> \in created' /\ <<m, n>> \notin repositories'
          /\ ~(1 > 1) /\ ~(1 > 2)
      BY <1>3, <2>2
    <3> QED
      BY <1>1, <2>2, <3>1 DEF CommandIsAhead
  <2> QED
    BY <2>1, <2>2
<1>6. SameAt(n)
  BY SameFiles
<1>7. Holders(n)' = Holders(n)
  BY <1>6 DEF SameAt
<1>8. Wired(n) => Wired(n)'
  BY <1>2, <1>7 DEF Wired, ModuleIsWired, RepositoryIsWired
<1>9. ModuleIsWhole(n) => ModuleIsWhole(n)'
  <2> SUFFICES ASSUME ModuleIsWhole(n) PROVE ModuleIsWhole(n)'
    OBVIOUS
  <2>1. /\ <<n, "dir">> \in created <=> <<n, "schema">> \in created
        /\ shared.entries[<<n, "module">>] = IF <<n, "dir">> \in created THEN 1 ELSE 0
    BY <1>2 DEF ModuleIsWhole
  <2>2. CASE kind = "module"
    <3>1. shared'.entries[<<n, "module">>] = 0 /\ (<<n, "schema">> \in created' <=> 1 > 9)
      BY <1>3, <2>1, <2>2
    <3>2. Running("module", n)'
      BY <1>1, <2>2 DEF Running
    <3> QED
      BY <1>1, <3>1, <3>2 DEF ModuleIsWhole
  <2>3. CASE kind # "module"
    <3>1. ~Running("module", n)'
      BY <1>1, <2>3 DEF Running
    <3> QED
      BY <2>1, <3>1 DEF ModuleIsWhole
  <2> QED
    BY <2>2, <2>3
<1>10. RepositoryIsWhole(n) => RepositoryIsWhole(n)'
  <2>1. command'.next = 1 /\ 1 < 4 /\ 1 # 2
    BY <1>1
  <2> QED
    BY <1>2, <1>7, <2>1 DEF RepositoryIsWhole
<1>11. ASSUME NEW k \in Entities
       PROVE  (Wired(k) => Wired(k)') /\ (Whole(k) => Whole(k)')
  <2>1. CASE k = n
    BY <1>8, <1>9, <1>10, <2>1 DEF Whole
  <2>2. CASE k # n
    <3>1. ~Concerns(k) /\ ~Concerns(k)'
      BY <1>1, <2>2 DEF Concerns
    <3>2. SameAt(k)
      BY SameFiles
    <3> QED
      BY <3>1, <3>2, Elsewhere
  <2> QED
    BY <2>1, <2>2
<1> QED
  BY <1>5, <1>11

LEMMA WrittenModule ==
  ASSUME WellFormed, FilesAreInDir, CommandIsAhead, Write,
         NEW n \in Entities, n = command.name, command.kind = "module"
  PROVE  /\ (Wired(n) => Wired(n)') /\ (Whole(n) => Whole(n)')
         /\ FilesAreInDir' /\ CommandIsAhead'
         /\ \A k \in Entities \ {n} : SameAt(k)
         /\ shared'.models = shared.models
<1> DEFINE i == command.next
<1>1. /\ command # Idle /\ i \in 1..10 /\ command \in Commands
      /\ DoWrite(command, Writes("module")[i])
      /\ \/ i = 10 /\ command' = Idle
         \/ /\ i # 10 /\ command' # Idle /\ command'.kind = "module"
            /\ command'.name = n /\ command'.next = i + 1
  BY WriteIs, WritesAre
<1>2. shared \in SharedFiles /\ shared.entries[<<n, "module">>] \in Nat
  BY Numbers DEF WellFormed
<1>3. Running("module", n)
  BY <1>1 DEF Running
<1>4. /\ <<n, "dir">> \in created <=> i > 1
      /\ i > 9 => <<n, "schema">> \in created
      /\ \A j \in i..10 : <<n, Writes("module")[j]>> \notin created
  BY <1>1 DEF CommandIsAhead
<1>5. /\ ~Running("repository", n) /\ ~Running("repository", n)'
      /\ Pending(n) = 0 /\ Pending(n)' = 0
  <2>1. ~Running("repository", n) /\ ~Running("repository", n)'
    BY <1>1 DEF Running
  <2> QED
    BY <2>1 DEF Pending
<1>6. \/ /\ i \in 1..9 /\ UNCHANGED <<repositories, shared>>
         /\ created' = created \cup {<<n, Writes("module")[i]>>}
      \/ i = 10 /\ ExtendCradle(n, "module") /\ UNCHANGED <<created, repositories>>
  <2>1. command.next \in DOMAIN Writes(command.kind)
    BY WriteIs
  <2> QED
    BY <1>1, <2>1, DoWriteIs
<1> HIDE DEF i
<1>7. CASE /\ i \in 1..9 /\ UNCHANGED <<repositories, shared>>
           /\ created' = created \cup {<<n, Writes("module")[i]>>}
  <2>1. Running("module", n)' /\ command'.next = i + 1 /\ i + 1 > 1
    BY <1>1, <1>7 DEF Running
  <2>2. Holders(n)' = Holders(n)
    BY <1>7 DEF Holders
  <2>3. /\ Writes("module")[1] = "dir" /\ Writes("module")[9] = "schema"
        /\ \A j \in 1..10 : j # i => Writes("module")[i] # Writes("module")[j]
    BY <1>7, WritesAre
  <2>4. <<n, "dir">> \in created'
    <3>1. CASE i = 1
      BY <1>7, <2>3, <3>1
    <3>2. CASE i # 1
      BY <1>4, <1>7, <3>2
    <3> QED
      BY <3>1, <3>2
  <2>5. /\ i + 1 > 9 => <<n, "schema">> \in created'
        /\ (<<n, "schema">> \in created <=> i > 9) => (<<n, "schema">> \in created' <=> i + 1 > 9)
    <3>1. CASE i = 9
      BY <1>7, <2>3, <3>1
    <3>2. CASE i # 9
      BY <1>4, <1>7, <2>3, <3>2
    <3> QED
      BY <3>1, <3>2
  <2>6. ASSUME NEW j \in (i + 1)..10
        PROVE  <<n, Writes("module")[j]>> \notin created'
    <3>1. j \in i..10 /\ j # i /\ j \in 1..10
      BY <1>7
    <3>2. Writes("module")[i] # Writes("module")[j]
      BY <2>3, <3>1
    <3> QED
      BY <1>4, <1>7, <3>1, <3>2
  <2>7. CommandIsAhead'
    <3>1. /\ <<n, "dir">> \in created' <=> command'.next > 1
          /\ command'.next > 9 => <<n, "schema">> \in created'
          /\ \A j \in command'.next..10 : <<n, Writes("module")[j]>> \notin created'
      BY <2>1, <2>4, <2>5, <2>6
    <3> QED
      BY <1>1, <1>7, <3>1 DEF CommandIsAhead, Writes
  <2>8. FilesAreInDir'
    <3>1. ASSUME NEW f \in created' PROVE <<f[1], "dir">> \in created'
      <4>1. CASE f \in created
        BY <1>7, <4>1 DEF FilesAreInDir
      <4>2. CASE f = <<n, Writes("module")[i]>>
        BY <2>4, <4>2
      <4> QED
        BY <1>7, <4>1, <4>2
    <3>2. \A r \in repositories' : <<r[1], "dir">> \in created'
      BY <1>7 DEF FilesAreInDir
    <3> QED
      BY <3>1, <3>2 DEF FilesAreInDir
  <2>9. Wired(n) => Wired(n)'
    BY <1>5, <1>7, <2>2 DEF Wired, ModuleIsWired, RepositoryIsWired
  <2>10. ModuleIsWhole(n) => ModuleIsWhole(n)'
    BY <1>3, <1>7, <2>1, <2>5 DEF ModuleIsWhole, i
  <2>11. RepositoryIsWhole(n) => RepositoryIsWhole(n)'
    BY <1>5, <1>7, <2>2 DEF RepositoryIsWhole
  <2>12. ASSUME NEW k \in Entities \ {n} PROVE SameAt(k)
    BY <1>7 DEF SameAt, Holders
  <2> QED
    BY <1>7, <2>7, <2>8, <2>9, <2>10, <2>11, <2>12 DEF Whole
<1>8. CASE i = 10 /\ ExtendCradle(n, "module") /\ UNCHANGED <<created, repositories>>
  <2>1. command' = Idle /\ ~Running("module", n)'
    BY <1>1, <1>8 DEF Running
  <2>2. /\ shared'.entries = [shared.entries EXCEPT ![<<n, "module">>] = @ + 1]
        /\ shared'.types = shared.types /\ shared'.groups = shared.groups
        /\ shared'.models = shared.models
        /\ shared.entries \in [Entities \X Generated -> Nat]
    BY <1>2, <1>8, ExtendCradleIs DEF Generated, SharedFiles
  <2>3. /\ shared'.entries[<<n, "module">>] = shared.entries[<<n, "module">>] + 1
        /\ shared'.entries[<<n, "repository">>] = shared.entries[<<n, "repository">>]
    BY <2>2 DEF Generated
  <2>4. /\ <<n, "dir">> \in created' /\ <<n, "schema">> \in created'
        /\ Holders(n)' = Holders(n)
    BY <1>4, <1>8 DEF Holders
  <2>5. Wired(n) => Wired(n)'
    BY <1>5, <2>2, <2>3, <2>4 DEF Wired, ModuleIsWired, RepositoryIsWired
  <2>6. ModuleIsWhole(n) => ModuleIsWhole(n)'
    BY <1>3, <2>1, <2>3, <2>4 DEF ModuleIsWhole
  <2>7. RepositoryIsWhole(n) => RepositoryIsWhole(n)'
    BY <1>5, <2>2, <2>3, <2>4 DEF RepositoryIsWhole
  <2>8. FilesAreInDir' /\ CommandIsAhead'
    BY <1>8, <2>1 DEF FilesAreInDir, CommandIsAhead
  <2>9. \A k \in Entities \ {n} : SameAt(k)
    BY <1>8, <2>2 DEF SameAt, Holders
  <2> QED
    BY <2>2, <2>5, <2>6, <2>7, <2>8, <2>9 DEF Whole
<1> QED
  BY <1>6, <1>7, <1>8

LEMMA WrittenRepository ==
  ASSUME WellFormed, FilesAreInDir, CommandIsAhead, Write,
         NEW n \in Entities, n = command.name, command.kind = "repository"
  PROVE  /\ (Wired(n) => Wired(n)') /\ (Whole(n) => Whole(n)')
         /\ FilesAreInDir' /\ CommandIsAhead'
         /\ \A k \in Entities \ {n} : SameAt(k)
         /\ shared'.models = shared.models
<1> DEFINE i == command.next
           m == command.module
           E == shared.entries[<<n, "repository">>]
           C == Cardinality(Holders(n))
<1>1. /\ command # Idle /\ i \in 1..4 /\ command \in Commands
      /\ DoWrite(command, Writes("repository")[i])
      /\ \/ i = 4 /\ command' = Idle
         \/ /\ i # 4 /\ command' # Idle /\ command'.kind = "repository"
            /\ command'.name = n /\ command'.module = m /\ command'.next = i + 1
  BY WriteIs, WritesAre
<1>2. /\ shared \in SharedFiles /\ E \in Nat /\ C \in Nat /\ m \in Entities
      /\ shared.types \in [Entities \X Entities -> Nat]
      /\ shared.entries \in [Entities \X Generated -> Nat]
  BY <1>1, Numbers, HoldersAreFew DEF WellFormed, Commands, SharedFiles
<1>3. /\ Running("repository", n) /\ ~Running("module", n) /\ ~Running("module", n)'
      /\ Running("repository", n)' <=> i # 4
  BY <1>1 DEF Running
<1>4. /\ <<m, "dir">> \in created
      /\ i > 1 => shared.types[<<m, n>>] > 0
      /\ m \in Holders(n) <=> i > 2
      /\ <<m, n>> \in repositories <=> i > 2
  BY <1>1, <1>2 DEF CommandIsAhead, Holders
<1>5. \/ i = 1 /\ AppendType(m, n) /\ UNCHANGED <<created, repositories>>
      \/ /\ i = 2 /\ UNCHANGED <<created, shared>>
         /\ repositories' = repositories \cup {<<m, n>>}
      \/ i = 3 /\ ExtendMessages(n) /\ UNCHANGED <<created, repositories>>
      \/ i = 4 /\ ExtendCradle(n, "repository") /\ UNCHANGED <<created, repositories>>
  <2>1. command.next \in DOMAIN Writes(command.kind)
    BY WriteIs
  <2> QED
    BY <1>1, <2>1, DoWriteIs
<1>6. /\ Pending(n) = IF i > 2 THEN 1 ELSE 0
      /\ i # 4 => Pending(n)' = IF i + 1 > 2 THEN 1 ELSE 0
      /\ i = 4 => Pending(n)' = 0
  BY <1>1, <1>3 DEF Pending
<1>7. i # 4 => command'.next = i + 1 /\ command'.module = m /\ command'.kind = "repository"
                 /\ command'.name = n /\ command' # Idle
  BY <1>1
\* The module's files and entries stay.
<1>8. ASSUME created' = created, shared'.entries[<<n, "module">>] = shared.entries[<<n, "module">>]
      PROVE  /\ ModuleIsWired(n) => ModuleIsWired(n)'
             /\ ModuleIsWhole(n) => ModuleIsWhole(n)'
  BY <1>3, <1>8 DEF ModuleIsWired, ModuleIsWhole
<1> HIDE DEF i, m, E, C
<1>9. CASE i = 1 /\ AppendType(m, n) /\ UNCHANGED <<created, repositories>>
  <2>1. /\ shared'.types = [shared.types EXCEPT ![<<m, n>>] = @ + 1]
        /\ shared'.groups = shared.groups /\ shared'.entries = shared.entries
        /\ shared'.models = shared.models
    BY <1>2, <1>9, AppendTypeIs
  <2>2. /\ Holders(n)' = Holders(n) /\ Pending(n) = 0 /\ Pending(n)' = 0
        /\ m \notin Holders(n) /\ <<m, n>> \notin repositories
        /\ Holders(n) \subseteq Entities
    BY <1>4, <1>6, <1>9 DEF Holders
  <2>3. /\ shared'.types[<<m, n>>] = shared.types[<<m, n>>] + 1
        /\ shared.types[<<m, n>>] \in Nat
        /\ \A k \in Entities \ {m} : shared'.types[<<k, n>>] = shared.types[<<k, n>>]
        /\ \A j \in Entities \ {n}, k \in Entities :
             shared'.types[<<k, j>>] = shared.types[<<k, j>>]
    BY <1>2, <2>1
  <2>4. Wired(n) => Wired(n)'
    BY <1>8, <1>9, <2>1, <2>2, <2>3 DEF Wired, RepositoryIsWired
  <2>5. RepositoryIsWhole(n) => RepositoryIsWhole(n)'
    <3> SUFFICES ASSUME RepositoryIsWhole(n) PROVE RepositoryIsWhole(n)'
      OBVIOUS
    <3>1. /\ shared.entries[<<n, "repository">>] + 0 = Cardinality(Holders(n))
          /\ n \in shared.groups => Holders(n) # {}
          /\ Holders(n) # {} => n \in shared.groups \/ command.next < 4
          /\ \A k \in Entities :
               shared.types[<<k, n>>] =
                 IF k \in Holders(n) \/ (command.module = k /\ command.next = 2)
                 THEN 1 ELSE 0
      BY <1>3, <2>2 DEF RepositoryIsWhole
    <3>2. command.next = 1 /\ command'.next = 2 /\ command'.module = m
      BY <1>7, <1>9 DEF i
    <3>3. ASSUME NEW k \in Entities
          PROVE  shared'.types[<<k, n>>] = IF k \in Holders(n)' \/ m = k THEN 1 ELSE 0
      <4>1. shared.types[<<k, n>>] = IF k \in Holders(n) THEN 1 ELSE 0
        BY <3>1, <3>2
      <4> QED
        BY <2>2, <2>3, <4>1
    <3> QED
      BY <1>3, <1>9, <2>1, <2>2, <3>1, <3>2, <3>3 DEF RepositoryIsWhole
  <2>6. \A k \in Entities \ {n} : SameAt(k)
    BY <1>9, <2>1, <2>3 DEF SameAt, Holders
  <2>7. FilesAreInDir'
    BY <1>9 DEF FilesAreInDir
  <2>8. CommandIsAhead'
    <3>1. /\ command'.kind # "module" /\ command'.name = n /\ command'.module = m
          /\ command'.next = 2
      BY <1>7, <1>9
    <3>2. shared'.types[<<m, n>>] > 0
      BY <2>3
    <3> QED
      BY <1>4, <1>9, <2>2, <3>1, <3>2 DEF CommandIsAhead
  <2> QED
    BY <1>8, <1>9, <2>1, <2>4, <2>5, <2>6, <2>7, <2>8 DEF Whole
<1>10. CASE /\ i = 2 /\ UNCHANGED <<created, shared>>
            /\ repositories' = repositories \cup {<<m, n>>}
  <2>1. /\ Holders(n)' = Holders(n) \cup {m}
        /\ Cardinality(Holders(n)') = C + 1
        /\ \A k \in Entities \ {n} : Holders(k)' = Holders(k)
    BY <1>2, <1>4, <1>10, OneMoreHolder DEF C
  <2>2. Pending(n) = 0 /\ Pending(n)' = 1
    BY <1>6, <1>10
  <2>3. command.next = 2 /\ command.module = m /\ command'.next = 3
    BY <1>7, <1>10 DEF i, m
  <2>4. Wired(n) => Wired(n)'
    <3> SUFFICES ASSUME Wired(n) PROVE Wired(n)'
      OBVIOUS
    <3>1. /\ E + 0 <= C /\ \A k \in Holders(n) : shared.types[<<k, n>>] > 0
      BY <2>2 DEF Wired, RepositoryIsWired, E, C
    <3>2. shared'.entries[<<n, "repository">>] + Pending(n)' <= Cardinality(Holders(n)')
      BY <1>2, <1>10, <2>1, <2>2, <3>1 DEF E
    <3>3. \A k \in Holders(n)' : shared'.types[<<k, n>>] > 0
      BY <1>4, <1>10, <2>1, <3>1
    <3>4. Holders(n)' # {}
      BY <2>1
    <3> QED
      BY <1>8, <1>10, <3>2, <3>3, <3>4 DEF Wired, RepositoryIsWired
  <2>5. RepositoryIsWhole(n) => RepositoryIsWhole(n)'
    <3> SUFFICES ASSUME RepositoryIsWhole(n) PROVE RepositoryIsWhole(n)'
      OBVIOUS
    <3>1. /\ E + 0 = C
          /\ \A k \in Entities :
               shared.types[<<k, n>>] = IF k \in Holders(n) \/ m = k THEN 1 ELSE 0
      BY <1>3, <2>2, <2>3 DEF RepositoryIsWhole, E, C
    <3>2. shared'.entries[<<n, "repository">>] + Pending(n)' = Cardinality(Holders(n)')
      BY <1>2, <1>10, <2>1, <2>2, <3>1 DEF E
    <3>3. \A k \in Entities :
            shared'.types[<<k, n>>] = IF k \in Holders(n)' THEN 1 ELSE 0
      BY <1>10, <2>1, <3>1
    <3>4. Holders(n)' # {} /\ Running("repository", n)' /\ command'.next < 4 /\ command'.next # 2
      BY <1>3, <1>10, <2>1, <2>3
    <3> QED
      BY <3>2, <3>3, <3>4 DEF RepositoryIsWhole
  <2>6. \A k \in Entities \ {n} : SameAt(k)
    BY <1>10, <2>1 DEF SameAt
  <2>7. FilesAreInDir'
    BY <1>4, <1>10 DEF FilesAreInDir
  <2>8. CommandIsAhead'
    <3>1. /\ command'.kind # "module" /\ command'.name = n /\ command'.module = m
          /\ command'.next = 3 /\ <<m, n>> \in repositories'
          /\ shared'.types[<<m, n>>] > 0
      BY <1>4, <1>7, <1>10
    <3> QED
      BY <1>4, <1>10, <3>1 DEF CommandIsAhead
  <2> QED
    BY <1>8, <1>10, <2>4, <2>5, <2>6, <2>7, <2>8 DEF Whole
<1>11. CASE i = 3 /\ ExtendMessages(n) /\ UNCHANGED <<created, repositories>>
  <2>1. /\ shared'.groups = shared.groups \cup {n} /\ shared'.types = shared.types
        /\ shared'.entries = shared.entries /\ shared'.models = shared.models
    BY <1>2, <1>11, ExtendMessagesIs
  <2>2. /\ Holders(n)' = Holders(n) /\ m \in Holders(n)
        /\ Pending(n) = 1 /\ Pending(n)' = 1
    BY <1>4, <1>6, <1>11 DEF Holders
  <2>3. Wired(n) => Wired(n)'
    BY <1>8, <1>11, <2>1, <2>2 DEF Wired, RepositoryIsWired
  <2>4. command.next = 3 /\ command'.next = 4
    BY <1>7, <1>11 DEF i
  <2>5. RepositoryIsWhole(n) => RepositoryIsWhole(n)'
    BY <2>1, <2>2, <2>4 DEF RepositoryIsWhole
  <2>6. \A k \in Entities \ {n} : SameAt(k)
    BY <1>11, <2>1 DEF SameAt, Holders
  <2>7. FilesAreInDir'
    BY <1>11 DEF FilesAreInDir
  <2>8. CommandIsAhead'
    <3>1. /\ command'.kind # "module" /\ command'.name = n /\ command'.module = m
          /\ command'.next = 4 /\ <<m, n>> \in repositories'
          /\ shared'.types[<<m, n>>] > 0
      BY <1>4, <1>7, <1>11, <2>1
    <3> QED
      BY <1>4, <1>11, <3>1 DEF CommandIsAhead
  <2> QED
    BY <1>8, <1>11, <2>1, <2>3, <2>5, <2>6, <2>7, <2>8 DEF Whole
<1>12. CASE i = 4 /\ ExtendCradle(n, "repository") /\ UNCHANGED <<created, repositories>>
  <2>1. command' = Idle /\ ~Running("repository", n)'
    BY <1>1, <1>3, <1>12
  <2>2. /\ shared'.entries = [shared.entries EXCEPT ![<<n, "repository">>] = @ + 1]
        /\ shared'.types = shared.types /\ shared'.groups = shared.groups
        /\ shared'.models = shared.models
    BY <1>2, <1>12, ExtendCradleIs DEF Generated
  <2>3. /\ shared'.entries[<<n, "repository">>] = E + 1
        /\ shared'.entries[<<n, "module">>] = shared.entries[<<n, "module">>]
    BY <1>2, <2>2 DEF Generated, E
  <2>4. /\ Holders(n)' = Holders(n) /\ Pending(n) = 1 /\ Pending(n)' = 0
    BY <1>6, <1>12 DEF Holders
  <2>5. Wired(n) => Wired(n)'
    <3> SUFFICES ASSUME Wired(n) PROVE Wired(n)'
      OBVIOUS
    <3>1. E + 1 <= C
      BY <2>4 DEF Wired, RepositoryIsWired, E, C
    <3>2. shared'.entries[<<n, "repository">>] + Pending(n)' <= Cardinality(Holders(n)')
      BY <1>2, <2>3, <2>4, <3>1 DEF C
    <3> QED
      BY <1>8, <1>12, <2>2, <2>3, <2>4, <3>2 DEF Wired, RepositoryIsWired
  <2>6. RepositoryIsWhole(n) => RepositoryIsWhole(n)'
    <3> SUFFICES ASSUME RepositoryIsWhole(n) PROVE RepositoryIsWhole(n)'
      OBVIOUS
    <3>1. E + 1 = C
      BY <2>4 DEF RepositoryIsWhole, E, C
    <3>2. shared'.entries[<<n, "repository">>] + Pending(n)' = Cardinality(Holders(n)')
      BY <1>2, <2>3, <2>4, <3>1 DEF C
    <3>3. command.next = 4
      BY <1>12 DEF i
    <3> QED
      BY <2>1, <2>2, <2>4, <3>2, <3>3 DEF RepositoryIsWhole
  <2>7. FilesAreInDir' /\ CommandIsAhead'
    BY <1>12, <2>1 DEF FilesAreInDir, CommandIsAhead
  <2>8. \A k \in Entities \ {n} : SameAt(k)
    BY <1>12, <2>2 DEF SameAt, Holders
  <2> QED
    BY <1>8, <1>12, <2>2, <2>3, <2>5, <2>6, <2>7, <2>8 DEF Whole
<1> QED
  BY <1>5, <1>9, <1>10, <1>11, <1>12

-----------------------------------------------------------------------------
(* The invariant *)

LEMMA GenInitial == GeneratorsInit => GenInv
<1> SUFFICES ASSUME GeneratorsInit PROVE GenInv
  OBVIOUS
<1>1. /\ created = {} /\ repositories = {} /\ command = Idle /\ probe = <<>>
      /\ shared = [types |-> [r \in Entities \X Entities |-> 0], groups |-> {}, imports |-> {},
                   entries |-> [e \in Entities \X Generated |-> 0], models |-> FALSE]
  BY DEF GeneratorsInit
<1>2. WellFormed
  BY WellFormedInit
<1>3. Stage = 8
  BY <1>1, <1>2, StageIs
<1>4. FilesAreInDir /\ CommandIsAhead /\ ProbeRunsAlone
  BY <1>1 DEF FilesAreInDir, CommandIsAhead, ProbeRunsAlone
<1>5. NamesAreBackedUp /\ ProbeIsNotBackedUp
  BY <1>3 DEF NamesAreBackedUp, ProbeIsNotBackedUp
<1>6. ProbeLeavesNothing
  BY <1>1, <1>3 DEF ProbeLeavesNothing
<1>7. ASSUME NEW n \in Entities PROVE Wired(n) /\ Whole(n)
  <2>1. /\ ~Running("module", n) /\ ~Running("repository", n) /\ Pending(n) = 0
    BY <1>1, PendingIs
  <2>2. /\ n \notin shared.groups
        /\ shared.entries[<<n, "module">>] = 0 /\ shared.entries[<<n, "repository">>] = 0
        /\ \A m \in Entities : shared.types[<<m, n>>] = 0
    BY <1>1 DEF Generated
  <2>3. Holders(n) = {} /\ Cardinality(Holders(n)) = 0
    BY <1>1, HoldersAreFew DEF Holders
  <2> QED
    BY <1>1, <2>1, <2>2, <2>3
    DEF Wired, ModuleIsWired, RepositoryIsWired, Whole, ModuleIsWhole, RepositoryIsWhole
<1>8. Names \subseteq Entities
  BY DEF Names
<1> QED
  BY <1>2, <1>4, <1>5, <1>6, <1>7, <1>8 DEF GenInv, Undisturbed, AllAreWhole

\* What the generators add to WellFormed, primed or not.
Kept ==
  /\ FilesAreInDir /\ CommandIsAhead /\ ProbeRunsAlone /\ NamesAreBackedUp
  /\ \A n \in Names : Wired(n)

LEMMA NamesAreEntities == Names \subseteq Entities /\ Probe \in Entities \ Names
                            /\ ProbeItem \in Entities \ Names
BY GeneratorsAssumption DEF Names

LEMMA GenGenerate ==
  ASSUME WellFormed, Kept, NEW kind \in Generated, NEW n \in Names, NEW m \in Names,
         Generate(kind, n, m)
  PROVE  Kept' /\ (Undisturbed => Undisturbed')
<1>1. /\ n \in Entities /\ m \in Entities /\ <<m, n>> \in Places
      /\ (kind = "module" => m = n) /\ Start(kind, n, m)
  BY GenerateStarts
<1>2. /\ probe = <<>> /\ UNCHANGED <<created, repositories, shared, probe, before>>
  BY DEF Generate
<1>3. Stage = 8 /\ Stage' = 8
  BY <1>2, StageIs DEF Stage
<1>4. /\ CommandIsAhead' /\ \A k \in Entities : (Wired(k) => Wired(k)') /\ (Whole(k) => Whole(k)')
  BY <1>1, <1>2, Started DEF Kept
<1>5. command'.module = m /\ m # Probe
  BY <1>1, StartIs, NamesAreEntities
<1>6. FilesAreInDir' /\ NamesAreBackedUp' /\ ProbeRunsAlone'
  BY <1>2, <1>3, <1>5 DEF Kept, FilesAreInDir, NamesAreBackedUp, ProbeRunsAlone
<1>7. Kept'
  BY <1>4, <1>6, NamesAreEntities DEF Kept
<1>8. Undisturbed => Undisturbed'
  BY <1>2, <1>3, <1>4
  DEF Undisturbed, ProbeIsNotBackedUp, ProbeLeavesNothing, AllAreWhole
<1> QED
  BY <1>7, <1>8

LEMMA GenWrite ==
  ASSUME WellFormed, Kept, Write
  PROVE  Kept' /\ (Undisturbed => Undisturbed')
<1>1. PICK n \in Entities : n = command.name
  BY WriteIs DEF Commands
<1>2. /\ command # Idle /\ command \in Commands /\ command.kind \in Generated
      /\ command' # Idle => command'.name = n /\ command'.module = command.module
      /\ UNCHANGED <<probe, before>>
  BY <1>1, WriteIs DEF Commands, Write
<1>3. Stage' = Stage
  BY <1>2 DEF Stage
<1>4. /\ command.module = Probe <=> Stage # 8
      /\ Stage \notin {1, 2, 6, 7}
  BY <1>2 DEF Kept, ProbeRunsAlone
<1>5. command.module = Probe <=> n \notin Names
  BY <1>1, <1>2, NamesAreEntities DEF Commands, Places
<1>6. /\ (Wired(n) => Wired(n)') /\ (Whole(n) => Whole(n)')
      /\ FilesAreInDir' /\ CommandIsAhead'
      /\ \A k \in Entities \ {n} : SameAt(k)
      /\ shared'.models = shared.models
  <2>1. CASE command.kind = "module"
    BY <1>1, <2>1, WrittenModule DEF Kept
  <2>2. CASE command.kind = "repository"
    BY <1>1, <2>2, WrittenRepository DEF Kept
  <2> QED
    BY <1>2, <2>1, <2>2 DEF Generated
<1>7. ASSUME NEW k \in Entities PROVE (Wired(k) => Wired(k)') /\ (Whole(k) => Whole(k)')
  <2>1. CASE k = n
    BY <1>6, <2>1
  <2>2. CASE k # n
    <3>1. ~Concerns(k) /\ ~Concerns(k)'
      BY <1>1, <1>2, <2>2 DEF Concerns
    <3> QED
      BY <1>6, <2>2, <3>1, Elsewhere
  <2> QED
    BY <2>1, <2>2
<1>8. ProbeRunsAlone'
  BY <1>2, <1>3, <1>4 DEF ProbeRunsAlone
<1>9. NamesAreBackedUp'
  <2> SUFFICES ASSUME Stage # 8, NEW k \in Names
               PROVE  /\ k \in before.groups <=> k \in shared'.groups
                      /\ \A kind \in Generated :
                           before.entries[<<k, kind>>] = shared'.entries[<<k, kind>>]
    BY <1>2, <1>3 DEF NamesAreBackedUp
  <2>1. SameAt(k)
    BY <1>4, <1>5, <1>6, NamesAreEntities
  <2> QED
    BY <2>1 DEF SameAt, Kept, NamesAreBackedUp
<1>10. Kept'
  BY <1>6, <1>7, <1>8, <1>9, NamesAreEntities DEF Kept
<1>11. ASSUME Undisturbed PROVE Undisturbed'
  <2>1. ProbeIsNotBackedUp'
    BY <1>2, <1>3, <1>11 DEF Undisturbed, ProbeIsNotBackedUp
  <2>2. Stage = 8 => <<Probe, "dir">> \notin created'
    <3> SUFFICES ASSUME Stage = 8 PROVE <<Probe, "dir">> \notin created'
      OBVIOUS
    <3>1. SameAt(Probe)
      BY <1>4, <1>5, <1>6, NamesAreEntities
    <3>2. <<Probe, "dir">> \notin created
      BY <1>11 DEF Undisturbed, ProbeLeavesNothing
    <3> QED
      BY <3>1, <3>2 DEF SameAt, Made
  <2>3. Stage \in {1, 8} => ~shared'.models
    BY <1>6, <1>11 DEF Undisturbed, ProbeLeavesNothing
  <2>4. ProbeLeavesNothing'
    BY <1>3, <1>4, <2>2, <2>3 DEF ProbeLeavesNothing
  <2>5. AllAreWhole'
    BY <1>3, <1>7, <1>11 DEF Undisturbed, AllAreWhole
  <2> QED
    BY <2>1, <2>4, <2>5 DEF Undisturbed
<1> QED
  BY <1>10, <1>11

LEMMA GenKill ==
  ASSUME WellFormed, Kept, Kill
  PROVE  Kept'
<1>1. /\ command' = Idle /\ probe' = <<>>
      /\ UNCHANGED <<created, repositories, shared, before>>
  BY DEF Kill
<1>2. Stage' = 8
  BY <1>1, RestIs, ProbeStepsOn
<1>3. ASSUME NEW n \in Names PROVE Wired(n)'
  BY <1>1, SameFiles, Killed, NamesAreEntities DEF Kept
<1> QED
  BY <1>1, <1>2, <1>3
  DEF Kept, FilesAreInDir, CommandIsAhead, ProbeRunsAlone, NamesAreBackedUp

\* A step with no command before or after it, which leaves all as it was.
LEMMA StillWired ==
  ASSUME command = Idle, command' = Idle, NEW S \in SUBSET Entities,
         \A n \in S : SameAt(n)
  PROVE  \A n \in S : (Wired(n) => Wired(n)') /\ (Whole(n) => Whole(n)')
<1>1. \A n : ~Concerns(n) /\ ~Concerns(n)'
  BY DEF Concerns
<1> QED
  BY <1>1, Elsewhere

LEMMA GenCheck ==
  ASSUME WellFormed, Kept, CheckGenerators
  PROVE  Kept' /\ (Undisturbed => Undisturbed')
<1>1. /\ command = Idle /\ probe = <<>> /\ before' = shared /\ probe' = ProbeSteps
      /\ UNCHANGED <<created, repositories, shared, command>>
  BY DEF CheckGenerators
<1>2. Stage = 8 /\ Stage' = 1
  <2>1. probe' = Rest[1] /\ 1 \in 1..8
    BY <1>1, RestIs
  <2> QED
    BY <1>1, <2>1, StageIs, ProbeStepsOn
<1>3. \A n \in Entities : (Wired(n) => Wired(n)') /\ (Whole(n) => Whole(n)')
  BY <1>1, SameFiles, StillWired
<1>4. Kept'
  BY <1>1, <1>2, <1>3, NamesAreEntities
  DEF Kept, FilesAreInDir, CommandIsAhead, ProbeRunsAlone, NamesAreBackedUp
<1>5. ASSUME Undisturbed PROVE Undisturbed'
  <2>1. ~shared.models /\ <<Probe, "dir">> \notin created
    BY <1>2, <1>5 DEF Undisturbed, ProbeLeavesNothing
  <2>2. ASSUME NEW n \in Entities \ Names
        PROVE  /\ n \notin shared.groups
               /\ \A kind \in Generated : shared.entries[<<n, kind>>] = 0
    <3>1. Whole(n)
      BY <1>2, <1>5 DEF Undisturbed, AllAreWhole
    <3>2. ~Running("module", n) /\ Pending(n) = 0
      BY <1>1, PendingIs
    <3>3. Holders(n) = {} /\ Cardinality(Holders(n)) = 0
      <4>1. \A m \in Entities : <<m, n>> \notin repositories
        BY <2>1 DEF Kept, FilesAreInDir, WellFormed, Places
      <4> QED
        BY <4>1, HoldersAreFew DEF Holders
    <3>4. <<n, "dir">> \notin created
      BY <2>1, NamesAreEntities DEF WellFormed, Modules
    <3>5. shared.entries[<<n, "module">>] = 0
      BY <3>1, <3>2, <3>4 DEF Whole, ModuleIsWhole
    <3>6. n \notin shared.groups /\ shared.entries[<<n, "repository">>] = 0
      <4>1. /\ n \in shared.groups => Holders(n) # {}
            /\ shared.entries[<<n, "repository">>] + Pending(n) = Cardinality(Holders(n))
        BY <3>1 DEF Whole, RepositoryIsWhole
      <4>2. shared.entries[<<n, "repository">>] \in Nat
        BY Numbers
      <4> QED
        BY <3>2, <3>3, <4>1, <4>2
    <3> QED
      BY <3>5, <3>6 DEF Generated
  <2>3. ProbeIsNotBackedUp'
    BY <1>1, <2>1, <2>2 DEF ProbeIsNotBackedUp
  <2>4. ProbeLeavesNothing'
    BY <1>1, <1>2, <2>1 DEF ProbeLeavesNothing
  <2>5. AllAreWhole'
    BY <1>2, <1>3, <1>5 DEF Undisturbed, AllAreWhole
  <2> QED
    BY <2>3, <2>4, <2>5 DEF Undisturbed
<1> QED
  BY <1>4, <1>5

LEMMA GenModels ==
  ASSUME WellFormed, Kept, ProbeWritesModels
  PROVE  Kept' /\ (Undisturbed => Undisturbed')
<1>1. /\ command = Idle /\ probe # <<>> /\ Head(probe) = "models" /\ probe' = Tail(probe)
      /\ shared' = [shared EXCEPT !.models = TRUE] /\ shared \in SharedFiles
      /\ UNCHANGED <<created, repositories, command, before>>
  BY DEF ProbeWritesModels, ProbeTurn, WellFormed
<1>2. Stage = 1 /\ Stage' = 2
  <2>1. Stage \in 1..7 /\ Stage' = Stage + 1 /\ ProbeSteps[Stage] = "models"
    BY <1>1, ProbeMoves
  <2> QED
    BY <2>1, StepsAre
<1>3. /\ shared'.types = shared.types /\ shared'.groups = shared.groups
      /\ shared'.entries = shared.entries
  BY <1>1 DEF SharedFiles
<1>4. \A n \in Entities : (Wired(n) => Wired(n)') /\ (Whole(n) => Whole(n)')
  BY <1>1, <1>3, SameFiles, StillWired
<1>5. Kept'
  BY <1>1, <1>2, <1>3, <1>4, NamesAreEntities
  DEF Kept, FilesAreInDir, CommandIsAhead, ProbeRunsAlone, NamesAreBackedUp
<1>6. Undisturbed => Undisturbed'
  BY <1>1, <1>2, <1>4
  DEF Undisturbed, ProbeIsNotBackedUp, ProbeLeavesNothing, AllAreWhole
<1> QED
  BY <1>5, <1>6

LEMMA GenProbe ==
  ASSUME WellFormed, Kept, ProbeGenerates
  PROVE  Kept' /\ (Undisturbed => Undisturbed')
<1>1. /\ probe # <<>> /\ Head(probe) \in {"module", "repository", "item"}
      /\ probe' = Tail(probe) /\ UNCHANGED <<created, repositories, shared, before>>
  BY ProbeStarts
<1>2. PICK kind \in Generated, n \in Entities \ Names :
        /\ <<Probe, n>> \in Places /\ (kind = "module" => Probe = n)
        /\ Start(kind, n, Probe)
  BY ProbeStarts
<1>3. Stage \in {2, 3, 4} /\ Stage' \in {3, 4, 5}
  <2>1. Stage \in 1..7 /\ Stage' = Stage + 1 /\ Head(probe) = ProbeSteps[Stage]
    BY <1>1, ProbeMoves
  <2>2. Stage \in {2, 3, 4}
    BY <1>1, <2>1, StepsAre
  <2> QED
    BY <2>1, <2>2
<1>4. command'.module = Probe
  BY <1>2, StartIs, NamesAreEntities
<1>5. CommandIsAhead' /\ \A k \in Entities : (Wired(k) => Wired(k)') /\ (Whole(k) => Whole(k)')
  BY <1>1, <1>2, Started, NamesAreEntities DEF Kept
<1>6. Kept'
  BY <1>1, <1>3, <1>4, <1>5, NamesAreEntities
  DEF Kept, FilesAreInDir, ProbeRunsAlone, NamesAreBackedUp
<1>7. Undisturbed => Undisturbed'
  BY <1>1, <1>3, <1>5
  DEF Undisturbed, ProbeIsNotBackedUp, ProbeLeavesNothing, AllAreWhole
<1> QED
  BY <1>6, <1>7

LEMMA GenFails ==
  ASSUME WellFormed, Kept, ProbeFails
  PROVE  Kept' /\ (Undisturbed => Undisturbed')
<1>1. /\ probe # <<>> /\ command' = Idle /\ probe' = <<"remove", "restore">>
      /\ UNCHANGED <<created, repositories, shared, before>>
  BY DEF ProbeFails
<1>2. Stage # 8 /\ Stage' = 6
  <2>1. probe' = Rest[6] /\ 6 \in 1..8
    BY <1>1, RestIs
  <2> QED
    BY <1>1, <2>1, StageIs, ProbeStepsOn
<1>3. ASSUME NEW n \in Names
      PROVE  Wired(n)' /\ (Undisturbed => Whole(n)')
  <2>1. SameAt(n) /\ n \in Entities /\ Wired(n)
    BY <1>1, SameFiles, NamesAreEntities DEF Kept
  <2>2. ~Concerns(n) /\ ~Concerns(n)'
    <3>1. command # Idle => command \in Commands /\ command.module = Probe
      BY <1>2 DEF WellFormed, Kept, ProbeRunsAlone
    <3>2. command # Idle => command.name \notin Names
      BY <3>1, NamesAreEntities DEF Commands, Places
    <3> QED
      BY <1>1, <3>2 DEF Concerns
  <2>3. Undisturbed => Whole(n)
    BY <2>1 DEF Undisturbed, AllAreWhole
  <2> QED
    BY <2>1, <2>2, <2>3, Elsewhere
<1>4. Kept'
  BY <1>1, <1>2, <1>3
  DEF Kept, FilesAreInDir, CommandIsAhead, ProbeRunsAlone, NamesAreBackedUp
<1>5. ASSUME Undisturbed PROVE Undisturbed'
  <2>1. ProbeIsNotBackedUp'
    BY <1>1, <1>2, <1>5 DEF Undisturbed, ProbeIsNotBackedUp
  <2>2. ProbeLeavesNothing' /\ AllAreWhole'
    BY <1>2, <1>3, <1>5 DEF ProbeLeavesNothing, AllAreWhole
  <2> QED
    BY <2>1, <2>2 DEF Undisturbed
<1> QED
  BY <1>4, <1>5

LEMMA GenRemoves ==
  ASSUME WellFormed, Kept, ProbeRemoves
  PROVE  Kept' /\ (Undisturbed => Undisturbed')
<1> DEFINE fewer == [r \in Entities \X Entities |-> IF r[1] = Probe THEN 0 ELSE shared.types[r]]
<1>1. /\ command = Idle /\ probe # <<>> /\ Head(probe) = "remove" /\ probe' = Tail(probe)
      /\ created' = {f \in created : f[1] # Probe}
      /\ repositories' = {r \in repositories : r[1] # Probe}
      /\ shared' = [shared EXCEPT !.types = fewer] /\ shared \in SharedFiles
      /\ UNCHANGED <<before, command>>
  BY DEF ProbeRemoves, ProbeTurn, WellFormed
<1>2. Stage = 6 /\ Stage' = 7
  <2>1. Stage \in 1..7 /\ Stage' = Stage + 1 /\ ProbeSteps[Stage] = "remove"
    BY <1>1, ProbeMoves
  <2> QED
    BY <2>1, StepsAre
<1>3. \A m, n \in Entities : fewer[<<m, n>>] = IF m = Probe THEN 0 ELSE shared.types[<<m, n>>]
  OBVIOUS
<1> HIDE DEF fewer
<1>4. /\ shared'.types = fewer /\ shared'.groups = shared.groups
      /\ shared'.entries = shared.entries
  BY <1>1 DEF SharedFiles
<1>5. FilesAreInDir'
  <2>1. ASSUME NEW f \in created' PROVE <<f[1], "dir">> \in created'
    <3>1. <<f[1], "dir">> \in created /\ <<f[1], "dir">>[1] # Probe
      BY <1>1 DEF Kept, FilesAreInDir
    <3> QED
      BY <1>1, <3>1
  <2>2. ASSUME NEW r \in repositories' PROVE <<r[1], "dir">> \in created'
    <3>1. <<r[1], "dir">> \in created /\ <<r[1], "dir">>[1] # Probe
      BY <1>1 DEF Kept, FilesAreInDir
    <3> QED
      BY <1>1, <3>1
  <2> QED
    BY <2>1, <2>2 DEF FilesAreInDir
<1>6. ASSUME NEW n \in Names PROVE SameAt(n)
  <2>1. n # Probe /\ n # ProbeItem /\ n \in Entities
    BY <1>6 DEF Names
  <2>2. <<Probe, n>> \notin Places
    BY <2>1, NamesAreEntities DEF Places
  <2>3. \A w : <<n, w>> \in created' <=> <<n, w>> \in created
    BY <1>1, <2>1
  <2>4. Holders(n)' = Holders(n)
    BY <1>1, <2>2 DEF Holders, WellFormed
  <2>5. \A m \in Entities : shared'.types[<<m, n>>] = shared.types[<<m, n>>]
    BY <1>3, <1>4, <2>1, <2>2, NamesAreEntities DEF WellFormed
  <2> QED
    BY <1>4, <2>3, <2>4, <2>5 DEF SameAt
<1>7. \A n \in Names : (Wired(n) => Wired(n)') /\ (Whole(n) => Whole(n)')
  BY <1>1, <1>6, StillWired, NamesAreEntities
<1>8. Kept'
  BY <1>1, <1>2, <1>4, <1>5, <1>7
  DEF Kept, CommandIsAhead, ProbeRunsAlone, NamesAreBackedUp
<1>9. ASSUME Undisturbed PROVE Undisturbed'
  <2>1. ProbeIsNotBackedUp'
    BY <1>1, <1>2, <1>9 DEF Undisturbed, ProbeIsNotBackedUp
  <2>2. <<Probe, "dir">> \notin created'
    BY <1>1
  <2>3. ProbeLeavesNothing'
    BY <1>2, <1>3, <1>4, <2>2, NamesAreEntities DEF ProbeLeavesNothing
  <2>4. AllAreWhole'
    BY <1>2, <1>7, <1>9, NamesAreEntities DEF Undisturbed, AllAreWhole
  <2> QED
    BY <2>1, <2>3, <2>4 DEF Undisturbed
<1> QED
  BY <1>8, <1>9

LEMMA GenRestores ==
  ASSUME WellFormed, Kept, ProbeRestores
  PROVE  Kept' /\ (Undisturbed => Undisturbed')
<1>1. /\ command = Idle /\ probe # <<>> /\ Head(probe) = "restore" /\ probe' = Tail(probe)
      /\ shared' = Restored /\ shared \in SharedFiles
      /\ UNCHANGED <<created, repositories, command, before>>
  BY DEF ProbeRestores, ProbeTurn, WellFormed
<1>2. Stage = 7 /\ Stage' = 8
  <2>1. Stage \in 1..7 /\ Stage' = Stage + 1 /\ ProbeSteps[Stage] = "restore"
    BY <1>1, ProbeMoves
  <2> QED
    BY <2>1, StepsAre
<1>3. /\ shared'.types = shared.types /\ shared'.groups = before.groups
      /\ shared'.entries = before.entries /\ shared'.models = before.models
  BY <1>1 DEF Restored, SharedFiles
<1>4. ASSUME NEW n \in Names PROVE SameAt(n)
  BY <1>1, <1>2, <1>3, <1>4 DEF SameAt, Holders, Kept, NamesAreBackedUp
<1>5. \A n \in Names : (Wired(n) => Wired(n)') /\ (Whole(n) => Whole(n)')
  BY <1>1, <1>4, StillWired, NamesAreEntities
<1>6. Kept'
  BY <1>1, <1>2, <1>5
  DEF Kept, FilesAreInDir, CommandIsAhead, ProbeRunsAlone, NamesAreBackedUp
<1>7. ASSUME Undisturbed PROVE Undisturbed'
  <2>1. /\ ~before.models /\ <<Probe, "dir">> \notin created
        /\ \A n \in Entities : shared.types[<<Probe, n>>] = 0
    BY <1>2, <1>7 DEF Undisturbed, ProbeIsNotBackedUp, ProbeLeavesNothing
  <2>2. ASSUME NEW n \in Entities \ Names PROVE Whole(n)'
    <3>1. n \notin before.groups /\ \A kind \in Generated : before.entries[<<n, kind>>] = 0
      BY <1>2, <1>7 DEF Undisturbed, ProbeIsNotBackedUp
    <3>2. /\ \A kind : ~Running(kind, n)'
          /\ Pending(n)' = 0
      BY <1>1, PendingIs
    <3>3. Holders(n)' = {} /\ Cardinality(Holders(n)') = 0
      <4>1. \A m \in Entities : <<m, n>> \notin repositories
        BY <2>1 DEF Kept, FilesAreInDir, WellFormed, Places
      <4>2. Holders(n)' = Holders(n) /\ Holders(n) = {}
        BY <1>1, <4>1 DEF Holders
      <4> QED
        BY <4>2, HoldersAreFew
    <3>4. \A w : <<n, w>> \notin created
      BY <2>1, NamesAreEntities DEF WellFormed, Modules, Kept, FilesAreInDir
    <3>5. \A m \in Entities : shared.types[<<m, n>>] = 0
      BY <2>1 DEF WellFormed, Places
    <3>6. ModuleIsWhole(n)'
      BY <1>1, <1>3, <3>1, <3>2, <3>4 DEF ModuleIsWhole, Generated
    <3>7. RepositoryIsWhole(n)'
      BY <1>3, <3>1, <3>2, <3>3, <3>5 DEF RepositoryIsWhole, Generated
    <3> QED
      BY <3>6, <3>7 DEF Whole
  <2>3. AllAreWhole'
    BY <1>2, <1>5, <1>7, <2>2, NamesAreEntities DEF Undisturbed, AllAreWhole
  <2>4. ProbeIsNotBackedUp' /\ ProbeLeavesNothing'
    BY <1>1, <1>2, <1>3, <2>1 DEF ProbeIsNotBackedUp, ProbeLeavesNothing
  <2> QED
    BY <2>3, <2>4 DEF Undisturbed
<1> QED
  BY <1>6, <1>7

LEMMA GenStep == GenInv /\ [GeneratorsNext]_generatorVars => GenInv'
<1> SUFFICES ASSUME GenInv, [GeneratorsNext]_generatorVars
             PROVE  GenInv'
  OBVIOUS
<1>1. WellFormed /\ WellFormed' /\ Kept /\ (~died => Undisturbed)
  BY WellFormedStep DEF GenInv, Kept
<1>2. CASE UNCHANGED generatorVars
  <2>1. Kept'
    BY <1>1, <1>2 DEF generatorVars, Kept, FilesAreInDir, CommandIsAhead, ProbeRunsAlone,
       NamesAreBackedUp, Wired, ModuleIsWired, RepositoryIsWired, Pending, Running, Holders,
       Stage
  <2>2. ~died' => Undisturbed'
    <3> SUFFICES ASSUME Undisturbed PROVE Undisturbed'
      BY <1>1, <1>2 DEF generatorVars
    <3>1. /\ \A n : Holders(n)' = Holders(n) /\ Pending(n)' = Pending(n)
          /\ \A kind, n : Running(kind, n)' <=> Running(kind, n)
          /\ Stage' = Stage
      BY <1>2 DEF generatorVars, Holders, Pending, Running, Stage
    <3>2. ASSUME NEW n \in Entities, Whole(n) PROVE Whole(n)'
      BY <1>2, <3>1, <3>2 DEF generatorVars, Whole, ModuleIsWhole, RepositoryIsWhole
    <3>3. AllAreWhole'
      BY <3>1, <3>2 DEF Undisturbed, AllAreWhole
    <3> QED
      BY <1>2, <3>1, <3>3
      DEF generatorVars, Undisturbed, ProbeIsNotBackedUp, ProbeLeavesNothing
  <2> QED
    BY <1>1, <2>1, <2>2 DEF GenInv, Kept
<1>3. CASE Kill
  BY <1>1, <1>3, GenKill DEF GenInv, Kept, Kill
<1>4. CASE GeneratorsNext /\ ~Kill
  <2>1. died' = died
    BY <1>4 DEF GeneratorsNext, Generate, Write, CheckGenerators, CheckGeneratorsStep,
       ProbeWritesModels, ProbeGenerates, ProbeFails, ProbeRemoves, ProbeRestores
  <2>2. Kept' /\ (Undisturbed => Undisturbed')
    BY <1>1, <1>4, GenGenerate, GenWrite, GenCheck, GenModels, GenProbe, GenFails,
       GenRemoves, GenRestores DEF GeneratorsNext, CheckGeneratorsStep
  <2> QED
    BY <1>1, <2>1, <2>2 DEF GenInv, Kept
<1> QED
  BY <1>2, <1>3, <1>4

LEMMA GenInvariance == GeneratorsSpec => []GenInv
  BY GenInitial, GenStep, PTL DEF GeneratorsSpec

-----------------------------------------------------------------------------

LEMMA GeneratorsTypes == GenInv => GeneratorsTypeOK
<1> SUFFICES ASSUME GenInv PROVE GeneratorsTypeOK
  OBVIOUS
<1>1. WellFormed /\ CommandIsAhead
  BY DEF GenInv
<1>2. SharedTypeOK
  BY <1>1 DEF WellFormed, SharedFiles, SharedTypeOK
<1>3. ASSUME command # Idle
      PROVE  /\ command.next \in DOMAIN Writes(command.kind)
             /\ \A i \in command.next..Len(Writes(command.kind)) :
                  ~IsThere(command, Writes(command.kind)[i])
  <2>1. /\ command \in Commands /\ command.next \in DOMAIN Writes(command.kind)
        /\ command.kind \in Generated /\ created \subseteq Modules \X Made
    BY <1>1, <1>3 DEF WellFormed, Commands
  <2>2. CASE command.kind = "module"
    <3>1. \A i \in command.next..10 : <<command.name, Writes("module")[i]>> \notin created
      BY <1>1, <1>3, <2>2 DEF CommandIsAhead
    <3>2. Len(Writes("module")) = 10 /\ command.next \in 1..10
      BY <2>1, <2>2, WritesAre
    <3>3. ASSUME NEW i \in command.next..10 PROVE ~IsThere(command, Writes("module")[i])
      <4>1. Writes("module")[i] # "repository"
        <5>1. i \in 1..10
          BY <3>2
        <5>2. CASE i = 10
          BY <5>2, WritesAre
        <5>3. CASE i # 10
          <6>1. i \in 1..9
            BY <5>1, <5>3
          <6>2. Writes("module")[i] \in Made
            BY <6>1, WritesAre
          <6> QED
            BY <6>2 DEF Made
        <5> QED
          BY <5>2, <5>3
      <4> QED
        BY <3>1, <4>1 DEF IsThere
    <3> QED
      BY <2>1, <2>2, <3>2, <3>3
  <2>3. CASE command.kind = "repository"
    <3>1. <<command.module, command.name>> \in repositories <=> command.next > 2
      BY <1>1, <1>3, <2>3 DEF CommandIsAhead
    <3>2. Len(Writes("repository")) = 4 /\ command.next \in 1..4
      BY <2>1, <2>3, WritesAre
    <3>3. ASSUME NEW i \in command.next..4 PROVE ~IsThere(command, Writes("repository")[i])
      <4>1. i \in 1..4 /\ i >= command.next
        BY <3>2
      <4>2. CASE i = 2
        <5>1. <<command.module, command.name>> \notin repositories
          BY <3>1, <3>2, <4>1, <4>2
        <5> QED
          BY <4>2, <5>1, WritesAre DEF IsThere
      <4>3. CASE i # 2
        <5>1. i = 1 \/ i = 3 \/ i = 4
          BY <4>1, <4>3
        <5>2. Writes("repository")[i] \in {"domain type", "messages", "cradle"}
          BY <5>1, WritesAre
        <5>3. Writes("repository")[i] \notin Made \cup {"repository"}
          BY <5>2 DEF Made
        <5> QED
          BY <2>1, <5>3 DEF IsThere
      <4> QED
        BY <4>2, <4>3
    <3> QED
      BY <2>1, <2>3, <3>2, <3>3
  <2> QED
    BY <2>1, <2>2, <2>3 DEF Generated
<1> QED
  BY <1>1, <1>2, <1>3 DEF WellFormed, GeneratorsTypeOK

\* The three generators, the three writers of src/types.ts and check:generators:
\* the shared files keep their form, and no generator writes over a file, also
\* after kills and whatever is run again after them.
THEOREM GeneratorsTypeCorrect == GeneratorsSpec => []GeneratorsTypeOK
BY GeneratorsTypes, GenInvariance, PTL

\* The order of the writes of generate-module.js and generate-repository.js, with
\* extend-cradle.js and extend-messages.js last: after any kills, the Cradle has
\* an entry only for what is there, once for each module that has it.
THEOREM WiredIsThere == GeneratorsSpec => []WhatIsWiredIsThere
<1>1. GenInv => WhatIsWiredIsThere
  <2> SUFFICES ASSUME GenInv, NEW n \in Names
               PROVE  /\ shared.entries[<<n, "module">>] > 0 => <<n, "schema">> \in created
                      /\ shared.entries[<<n, "repository">>] <= Cardinality(Holders(n))
                      /\ n \in shared.groups => Holders(n) # {}
                      /\ \A m \in Holders(n) :
                           <<m, "dir">> \in created /\ shared.types[<<m, n>>] > 0
    BY DEF WhatIsWiredIsThere
  <2>1. WellFormed /\ FilesAreInDir /\ Wired(n) /\ n \in Entities
    BY NamesAreEntities DEF GenInv
  <2>2. /\ shared.entries[<<n, "module">>] > 0 => <<n, "schema">> \in created
        /\ n \in shared.groups => Holders(n) # {}
        /\ \A m \in Holders(n) : shared.types[<<m, n>>] > 0
        /\ shared.entries[<<n, "repository">>] + Pending(n) <= Cardinality(Holders(n))
    BY <2>1 DEF Wired, ModuleIsWired, RepositoryIsWired
  <2>3. shared.entries[<<n, "repository">>] <= Cardinality(Holders(n))
    <3>1. /\ shared.entries[<<n, "repository">>] \in Nat /\ Pending(n) \in {0, 1}
          /\ Cardinality(Holders(n)) \in Nat
      BY <2>1, Numbers, PendingIs, HoldersAreFew
    <3> QED
      BY <2>2, <3>1
  <2>4. \A m \in Holders(n) : <<m, "dir">> \in created
    BY <2>1 DEF FilesAreInDir, Holders
  <2> QED
    BY <2>2, <2>3, <2>4
<1> QED
  BY <1>1, GenInvariance, PTL

\* The same files, and check-generators.mjs with its cleanup: as long as no command
\* was killed, a module or repository is there with all that belongs to it or not
\* at all, and check:generators leaves nothing behind, also when it fails.
THEOREM NoneIsHalfGenerated == GeneratorsSpec => []NothingIsHalfGenerated
<1>1. GenInv => NothingIsHalfGenerated
  <2> SUFFICES ASSUME GenInv, command = Idle, probe = <<>>, ~died
               PROVE  NothingIsHalfGenerated
    BY DEF NothingIsHalfGenerated, Quiet
  <2>1. WellFormed /\ FilesAreInDir /\ Undisturbed
    BY DEF GenInv
  <2>2. Stage = 8
    BY <2>1, StageIs
  <2>3. ~shared.models /\ <<Probe, "dir">> \notin created
    BY <2>1, <2>2 DEF Undisturbed, ProbeLeavesNothing
  <2>4. ASSUME NEW n \in Entities
        PROVE  /\ <<n, "schema">> \in created <=> <<n, "dir">> \in created
               /\ shared.entries[<<n, "module">>] = IF <<n, "dir">> \in created THEN 1 ELSE 0
               /\ shared.entries[<<n, "repository">>] = Cardinality(Holders(n))
               /\ n \in shared.groups <=> Holders(n) # {}
               /\ \A m \in Entities :
                    shared.types[<<m, n>>] = IF <<m, n>> \in repositories THEN 1 ELSE 0
    <3>1. ModuleIsWhole(n) /\ RepositoryIsWhole(n)
      BY <2>1, <2>2 DEF Undisturbed, AllAreWhole, Whole
    <3>2. ~Running("module", n) /\ ~Running("repository", n) /\ Pending(n) = 0
      BY PendingIs
    <3>3. /\ <<n, "dir">> \in created <=> <<n, "schema">> \in created
          /\ shared.entries[<<n, "module">>] = IF <<n, "dir">> \in created THEN 1 ELSE 0
      BY <3>1, <3>2 DEF ModuleIsWhole
    <3>4. /\ shared.entries[<<n, "repository">>] + 0 = Cardinality(Holders(n))
          /\ n \in shared.groups <=> Holders(n) # {}
          /\ \A m \in Entities : shared.types[<<m, n>>] = IF m \in Holders(n) THEN 1 ELSE 0
      BY <3>1, <3>2 DEF RepositoryIsWhole
    <3>5. shared.entries[<<n, "repository">>] \in Nat
      BY <2>1, Numbers
    <3>6. \A m \in Entities : m \in Holders(n) <=> <<m, n>> \in repositories
      BY DEF Holders
    <3> QED
      BY <3>3, <3>4, <3>5, <3>6
  <2>5. ASSUME NEW n \in Entities \ Names
        PROVE  <<n, "dir">> \notin created /\ Holders(n) = {}
    <3>1. <<n, "dir">> \notin created
      BY <2>1, <2>3 DEF WellFormed, Modules
    <3>2. \A m \in Entities : <<m, n>> \notin repositories
      BY <2>1, <2>3 DEF WellFormed, Places, FilesAreInDir
    <3> QED
      BY <3>1, <3>2 DEF Holders
  <2> QED
    BY <2>3, <2>4, <2>5 DEF NothingIsHalfGenerated
<1> QED
  BY <1>1, GenInvariance, PTL

-----------------------------------------------------------------------------
(* What the Cradle imports *)

NoNameEndsInAnother == \A n, m \in Entities : <<n, m>> \in EndsIn => n = m

AllImported(files) ==
  \A e \in Entities \X Generated : files.entries[e] > 0 => e \in files.imports

ImportsInv == AllImported(shared) /\ AllImported(before)

LEMMA CradleImports ==
  ASSUME NoNameEndsInAnother, shared \in SharedFiles, AllImported(shared),
         NEW n \in Entities, NEW kind \in Generated, ExtendCradle(n, kind)
  PROVE  AllImported(shared')
<1> DEFINE c == <<n, kind>>
           old == shared.entries
<1>1. c \in Entities \X Generated /\ old \in [Entities \X Generated -> Nat]
  BY DEF SharedFiles
<1>2. /\ shared'.entries = [old EXCEPT ![c] = @ + 1]
      /\ shared'.imports = IF Mentioned(n, kind) THEN shared.imports
                           ELSE shared.imports \cup {c}
  <2> DEFINE more == IF Mentioned(n, kind) THEN shared.imports
                     ELSE shared.imports \cup {c}
             counted == [old EXCEPT ![c] = @ + 1]
  <2>1. shared' = [shared EXCEPT !.entries = counted, !.imports = more]
    BY DEF ExtendCradle
  <2> HIDE DEF more, counted
  <2>2. shared'.entries = counted /\ shared'.imports = more
    BY <2>1 DEF SharedFiles
  <2> QED
    BY <2>2 DEF more, counted
<1>3. c \in shared'.imports
  <2>1. CASE Mentioned(n, kind)
    <3>1. PICK m \in Entities : (m = n \/ <<m, n>> \in EndsIn) /\ old[<<m, kind>>] > 0
      BY <2>1 DEF Mentioned
    <3>2. m = n
      BY <3>1 DEF NoNameEndsInAnother
    <3>3. c \in shared.imports
      BY <1>1, <3>1, <3>2 DEF AllImported
    <3> QED
      BY <1>2, <2>1, <3>3
  <2>2. CASE ~Mentioned(n, kind)
    BY <1>2, <2>2
  <2> QED
    BY <2>1, <2>2
<1>4. ASSUME NEW e \in Entities \X Generated, shared'.entries[e] > 0, e # c
      PROVE  e \in shared'.imports
  <2> HIDE DEF c, old
  <2>1. shared'.entries[e] = old[e]
    BY <1>1, <1>2, <1>4
  <2>2. e \in shared.imports
    BY <1>4, <2>1 DEF AllImported, old
  <2> QED
    BY <1>2, <2>2
<1> QED
  BY <1>3, <1>4 DEF AllImported

LEMMA ImportsStep ==
  ASSUME NoNameEndsInAnother
  PROVE  ImportsInv /\ WellFormed /\ [GeneratorsNext]_generatorVars => ImportsInv'
<1> SUFFICES ASSUME ImportsInv, WellFormed, [GeneratorsNext]_generatorVars
             PROVE  ImportsInv'
  OBVIOUS
<1>1. /\ AllImported(shared) /\ AllImported(before)
      /\ shared \in SharedFiles /\ before \in SharedFiles
      /\ command # Idle => command \in Commands /\ command.next \in DOMAIN Writes(command.kind)
  BY DEF ImportsInv, WellFormed
<1>2. ASSUME shared'.entries = shared.entries, shared'.imports = shared.imports
      PROVE  AllImported(shared')
  BY <1>1, <1>2 DEF AllImported
<1>3. /\ UNCHANGED shared => AllImported(shared')
      /\ UNCHANGED before => AllImported(before')
  BY <1>1
<1>4. CASE \E kind \in Generated, n, m \in Names : Generate(kind, n, m)
  BY <1>3, <1>4 DEF Generate, ImportsInv
<1>5. CASE Write
  <2> DEFINE n == command.name
             m == command.module
  <2>1. /\ n \in Entities /\ m \in Entities /\ UNCHANGED before
        /\ "module" \in Generated /\ "repository" \in Generated
    BY <1>1, <1>5 DEF Write, Commands, Generated
  <2>2. \/ UNCHANGED shared \/ ExtendCradle(n, "module") \/ ExtendCradle(n, "repository")
        \/ AppendType(m, n) \/ ExtendMessages(n)
    <3>1. /\ command \in Commands /\ command.next \in DOMAIN Writes(command.kind)
          /\ DoWrite(command, Writes(command.kind)[command.next])
      BY <1>5, WriteIs
    <3> QED
      BY <3>1, DoWriteIs
  <2> HIDE DEF n, m
  <2>3. CASE ExtendCradle(n, "module") \/ ExtendCradle(n, "repository")
    <3>1. AllImported(shared')
      BY <1>1, <2>1, <2>3, CradleImports
    <3> QED
      BY <1>3, <2>1, <3>1 DEF ImportsInv
  <2>4. CASE AppendType(m, n) \/ ExtendMessages(n)
    <3>1. shared'.entries = shared.entries /\ shared'.imports = shared.imports
      BY <1>1, <2>1, <2>4, AppendTypeIs, ExtendMessagesIs
    <3> QED
      BY <1>2, <1>3, <2>1, <3>1 DEF ImportsInv
  <2> QED
    BY <1>3, <2>1, <2>2, <2>3, <2>4 DEF ImportsInv
<1>6. CASE Kill
  BY <1>3, <1>6 DEF Kill, ImportsInv
<1>7. CASE CheckGenerators
  BY <1>1, <1>3, <1>7 DEF CheckGenerators, ImportsInv
<1>8. CASE ProbeWritesModels
  <2>1. shared'.entries = shared.entries /\ shared'.imports = shared.imports
    BY <1>1, <1>8 DEF ProbeWritesModels, SharedFiles
  <2> QED
    BY <1>2, <1>3, <1>8, <2>1 DEF ProbeWritesModels, ImportsInv
<1>9. CASE ProbeGenerates \/ ProbeFails
  BY <1>3, <1>9 DEF ProbeGenerates, ProbeFails, ImportsInv
<1>10. CASE ProbeRemoves
  <2>1. shared'.entries = shared.entries /\ shared'.imports = shared.imports
    BY <1>1, <1>10 DEF ProbeRemoves, SharedFiles
  <2> QED
    BY <1>2, <1>3, <1>10, <2>1 DEF ProbeRemoves, ImportsInv
<1>11. CASE ProbeRestores
  <2>1. shared'.entries = before.entries /\ shared'.imports = before.imports
    BY <1>1, <1>11 DEF ProbeRestores, Restored, SharedFiles
  <2>2. AllImported(shared')
    BY <1>1, <2>1 DEF AllImported
  <2> QED
    BY <1>3, <1>11, <2>2 DEF ProbeRestores, ImportsInv
<1>12. CASE UNCHANGED generatorVars
  BY <1>3, <1>12 DEF generatorVars, ImportsInv
<1> QED
  BY <1>4, <1>5, <1>6, <1>7, <1>8, <1>9, <1>10, <1>11, <1>12
  DEF GeneratorsNext, CheckGeneratorsStep

\* extend-cradle.js looks for the name of a type anywhere in the Cradle's file:
\* only where one type's name ends in another's does it leave an import out.
\* Otherwise every entry is imported at any time, also after a kill.
THEOREM DistinctNamesAreImported ==
  ASSUME NoNameEndsInAnother
  PROVE  GeneratorsSpec => [](AllImported(shared) /\ EveryEntryIsImported)
<1>1. GeneratorsInit => ImportsInv
  <2> SUFFICES ASSUME GeneratorsInit PROVE ImportsInv
    OBVIOUS
  <2>1. \A e \in Entities \X Generated : shared.entries[e] = 0
    BY DEF GeneratorsInit
  <2> QED
    BY <2>1 DEF GeneratorsInit, ImportsInv, AllImported
<1>2. ImportsInv /\ WellFormed /\ [GeneratorsNext]_generatorVars => ImportsInv'
  BY ImportsStep
<1>3. GenInv => WellFormed
  BY DEF GenInv
<1>4. ImportsInv => AllImported(shared) /\ EveryEntryIsImported
  BY DEF ImportsInv, AllImported, EveryEntryIsImported
<1> QED
  BY <1>1, <1>2, <1>3, <1>4, GenInvariance, PTL DEF GeneratorsSpec
=============================================================================
