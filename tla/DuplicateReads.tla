--------------------------- MODULE DuplicateReads ---------------------------
(***************************************************************************)
(* The lint rule arch/no-duplicate-repository-read.  A block is linted     *)
(* statement by statement; the rule groups equal reads of a segment, which *)
(* ends at a statement that writes or leaves.  What it reports is compared *)
(* with the runs of the block.                                             *)
(***************************************************************************)
EXTENDS Naturals, FiniteSetsExt, SequencesExt

CONSTANTS Statements,    \* the statements a block is made of
          MaxStatements  \* how many it has at most (bounds the model)

(***************************************************************************)
(* A statement is a sequence of elements.  An element is a call, a ternary *)
(* (test, arm, arm), a logical expression (left, right), a nested block, a *)
(* function, or a switch without braces; each part is a sequence of calls. *)
(***************************************************************************)
ElementKinds == {"call", "ternary", "logical", "block", "function", "switch"}

Calls == [on : STRING, do : STRING, by : STRING]

HasItsParts(element) ==
  CASE element.is = "ternary" -> Len(element.parts) = 3
    [] element.is = "logical" -> Len(element.parts) = 2
    [] element.is = "switch" -> TRUE
    [] OTHER -> Len(element.parts) = 1

ASSUME StatementsAssumption ==
  /\ Statements \subseteq Seq([is : ElementKinds, parts : Seq(Seq(Calls))])
  /\ \A s \in Statements : \A e \in DOMAIN s : HasItsParts(s[e])

VARIABLES block,     \* the statements linted so far
          segment,   \* the open groups of reads, by key
          reported,  \* the groups that were reported
          linted     \* whether the rule has come to the end of the block

readsVars == <<block, segment, reported, linted>>

Exit == [on |-> "nothing", do |-> "exit", by |-> "nothing"]

Database == {"repository", "prisma"}

\* Rows, not a count; with a `where' or of a repository; not after a cursor.
IsRead(call) ==
  /\ call.do \in {"find", "list"}
  /\ call.on \in Database
  /\ call.by # "cursor"
  /\ call.on = "prisma" => call.by # "nothing"

\* Mutant of IsWrite: a deletion in a cache or a map counts.
IsWriteAnywhere(call) == call.do \in {"update", "$transaction"}

IsWrite(call) ==
  /\ call.do \in {"update", "$transaction"}
  /\ call.on \in Database

Key(call) == <<call.on, call.by>>

\* A position is <<statement, element, part, call>>.
PositionsIn(s, n, e, parts) ==
  UNION {{<<n, e, p, c>> : c \in DOMAIN s[e].parts[p]} : p \in parts}

CallAt(b, q) == b[q[1]][q[2]].parts[q[3]][q[4]]

ReadsIn(s, n, e, parts) ==
  {q \in PositionsIn(s, n, e, parts) : IsRead(s[e].parts[q[3]][q[4]])}

-----------------------------------------------------------------------------
(* What the rule sees in a statement *)

\* The parts of an element that always run, as the rule takes it.
Always(element) ==
  CASE element.is \in {"call", "ternary", "logical"} -> {1}
    [] element.is = "switch" -> DOMAIN element.parts
    [] OTHER -> {}

Conditional(element) ==
  IF element.is \in {"ternary", "logical"}
  THEN DOMAIN element.parts \ {1} ELSE {}

OwnReads(s, n) == UNION {ReadsIn(s, n, e, Always(s[e])) : e \in DOMAIN s}

ConditionalPaths(s, n) ==
  UNION {{ReadsIn(s, n, e, {p}) : p \in Conditional(s[e])} : e \in DOMAIN s}

\* Mutant of IsBarrier: what a nested block does is not looked at.
IsBarrierOutsideBlocks(s) ==
  \E e \in DOMAIN s : \E p \in DOMAIN s[e].parts :
    /\ s[e].is \notin {"function", "block"}
    /\ \E call \in ToSet(s[e].parts[p]) : call = Exit \/ IsWrite(call)

IsBarrier(s) ==
  \E e \in DOMAIN s : \E p \in DOMAIN s[e].parts :
    /\ s[e].is # "function"
    /\ \E call \in ToSet(s[e].parts[p]) : call = Exit \/ IsWrite(call)

KeysOf(s, n, reads) == {Key(s[q[2]].parts[q[3]][q[4]]) : q \in reads}

GroupsOf(s, n, reads) ==
  [k \in KeysOf(s, n, reads) |->
     {q \in reads : Key(s[q[2]].parts[q[3]][q[4]]) = k}]

AddTo(seg, groups) ==
  [k \in DOMAIN seg \cup DOMAIN groups |->
     (IF k \in DOMAIN seg THEN seg[k] ELSE {})
       \cup (IF k \in DOMAIN groups THEN groups[k] ELSE {})]

NoReads == [k \in {} |-> {}]

Duplicates(seg) == {seg[k] : k \in {j \in DOMAIN seg : Cardinality(seg[j]) >= 2}}

PathDuplicates(s, n) ==
  UNION {Duplicates(GroupsOf(s, n, path)) : path \in ConditionalPaths(s, n)}

\* A nested block or function is a block of its own, here one whose statements
\* are single calls: a segment of it has no write and no exit inside.
NestedDuplicates(s, n) ==
  UNION {LET body == s[e].parts[1]
             open(i, j) == \A m \in i..(j - 1) :
                             body[m] # Exit /\ ~IsWrite(body[m])
             again(i, j) == /\ i < j /\ open(i, j)
                            /\ IsRead(body[i]) /\ IsRead(body[j])
                            /\ Key(body[i]) = Key(body[j])
         IN {{<<n, e, 1, ij[1]>>, <<n, e, 1, ij[2]>>} :
               ij \in {x \in (DOMAIN body) \X (DOMAIN body) : again(x[1], x[2])}} :
         e \in {f \in DOMAIN s : s[f].is \in {"block", "function"}}}

-----------------------------------------------------------------------------
(* The linter *)

ReadsInit ==
  /\ block = <<>>
  /\ segment = NoReads
  /\ reported = {}
  /\ linted = FALSE

Statement(s) ==
  LET n == Len(block) + 1
      grouped == AddTo(segment, GroupsOf(s, n, OwnReads(s, n)))
  IN /\ ~linted
     /\ n <= MaxStatements
     /\ block' = Append(block, s)
     /\ segment' = IF IsBarrier(s) THEN NoReads ELSE grouped
     /\ reported' =
          reported
            \cup (IF IsBarrier(s) THEN Duplicates(grouped) ELSE {})
            \cup PathDuplicates(s, n)
            \cup NestedDuplicates(s, n)
     /\ UNCHANGED linted

EndOfBlock ==
  /\ ~linted
  /\ linted' = TRUE
  /\ reported' = reported \cup Duplicates(segment)
  /\ segment' = NoReads
  /\ UNCHANGED block

ReadsNext == EndOfBlock \/ \E s \in Statements : Statement(s)

ReadsSpec == ReadsInit /\ [][ReadsNext]_readsVars

-----------------------------------------------------------------------------
(* The runs of a block *)

Positions ==
  UNION {UNION {PositionsIn(block[n], n, e, DOMAIN block[n][e].parts) :
                  e \in DOMAIN block[n]} : n \in DOMAIN block}

Call(q) == CallAt(block, q)

ChangesRows(q) ==
  Call(q).on \in {"repository", "prisma"} /\ Call(q).do \in {"update", "$transaction"}

ElementOf(q) == block[q[1]][q[2]]

\* The parts an element may run together: a function runs elsewhere or never.
PartsRun(element) ==
  CASE element.is = "call" -> {{1}}
    [] element.is = "ternary" -> {{1, 2}, {1, 3}}
    [] element.is = "logical" -> {{1}, {1, 2}}
    [] element.is = "switch" -> {{p} : p \in DOMAIN element.parts}
    [] OTHER -> {{}, {1}}

SameElement(p, q) == p[1] = q[1] /\ p[2] = q[2]

Before(p, q) ==
  \E k \in 1..4 : p[k] < q[k] /\ \A j \in 1..(k - 1) : p[j] = q[j]

SomeRunHasBoth(p, q) ==
  SameElement(p, q) =>
    \E choice \in PartsRun(ElementOf(p)) : {p[3], q[3]} \subseteq choice

\* What may run after p and before q in a run that has both.
Between(p, q) ==
  {x \in Positions :
     /\ Before(p, x) /\ Before(x, q)
     /\ SomeRunHasBoth(p, x) /\ SomeRunHasBoth(x, q)
     /\ ElementOf(x).is = "function" => SameElement(p, x)}

RunsWith(p, q) ==
  \A choice \in PartsRun(ElementOf(q)) :
    (SameElement(p, q) => p[3] \in choice) => q[3] \in choice

\* p and q are in the same runs, unless a run leaves between them.
AlwaysTogether(p, q) ==
  /\ RunsWith(p, q)
  /\ RunsWith(q, p)
  /\ \A x \in Between(p, q) : Call(x) # Exit

-----------------------------------------------------------------------------

\* An open group holds the equal reads of the segment and none from before the
\* last statement that writes or leaves.
ReadsTypeOK ==
  /\ block \in Seq(Statements)
  /\ linted \in BOOLEAN
  /\ UNION reported \subseteq Positions
  /\ \A k \in DOMAIN segment : \A q \in segment[k] :
       /\ q \in Positions
       /\ \A r \in segment[k] : Call(q).on = Call(r).on /\ Call(q).by = Call(r).by
       /\ \A n \in q[1]..Len(block) : ~IsBarrier(block[n])

\* Two reads reported as duplicates are on one path and nothing between them
\* writes to the database, but for the statement of the second one, of which
\* the rule does not see the order; and but for a switch without braces, whose
\* cases the rule takes for one path.
ReportedReadsAreOnOnePath ==
  \A group \in reported : \A p, q \in group :
    Before(p, q) /\ ElementOf(p).is # "switch" =>
      /\ SomeRunHasBoth(p, q)
      /\ \A x \in Between(p, q) :
           ChangesRows(x) =>
             x[1] = q[1] /\ ElementOf(q).is \notin {"block", "function"}

\* Two equal reads that every run makes, or leaves out, together, with no write
\* and no exit between them, are reported; but for a read that comes after a
\* write or an exit of its own statement.
EveryDuplicateIsReported ==
  linted =>
    \A p, q \in Positions :
      /\ Before(p, q)
      /\ IsRead(Call(p)) /\ Call(p) = Call(q)
      /\ AlwaysTogether(p, q)
      /\ \A x \in Between(p, q) : ~ChangesRows(x)
      /\ \A x \in Positions :
           x[1] = p[1] /\ Before(x, p) => Call(x) # Exit /\ ~ChangesRows(x)
      => \E group \in reported : {p, q} \subseteq group

=============================================================================
