----------------------- MODULE DuplicateReads_proofs ------------------------
(***************************************************************************)
(* What arch/no-duplicate-repository-read reports, and what it misses, for *)
(* every set of statements and blocks of every length.                     *)
(***************************************************************************)
EXTENDS DuplicateReads, FiniteSetTheorems, SequenceTheorems, TLAPS

Part(q) == ElementOf(q).parts[q[3]]

\* The reads the rule groups with those of other statements.
IsOwnRead(q) == q[3] \in Always(ElementOf(q)) /\ IsRead(Call(q))

NoBarrier(m, n) == \A i \in m..n : ~IsBarrier(block[i])

-----------------------------------------------------------------------------
(* Statements and positions *)

LEMMA StatementIs ==
  ASSUME NEW s \in Statements
  PROVE  /\ s \in Seq([is : ElementKinds, parts : Seq(Seq(Calls))])
         /\ DOMAIN s = 1..Len(s) /\ Len(s) \in Nat
         /\ \A e \in DOMAIN s :
              /\ s[e].is \in ElementKinds /\ HasItsParts(s[e])
              /\ s[e].parts \in Seq(Seq(Calls))
              /\ DOMAIN s[e].parts = 1..Len(s[e].parts)
              /\ \A p \in DOMAIN s[e].parts :
                   DOMAIN s[e].parts[p] = 1..Len(s[e].parts[p])
<1>1. s \in Seq([is : ElementKinds, parts : Seq(Seq(Calls))])
  BY StatementsAssumption
<1>2. DOMAIN s = 1..Len(s) /\ Len(s) \in Nat
  BY <1>1
<1>3. ASSUME NEW e \in DOMAIN s
      PROVE  /\ s[e].is \in ElementKinds /\ HasItsParts(s[e])
             /\ s[e].parts \in Seq(Seq(Calls))
  <2> DEFINE E == [is : ElementKinds, parts : Seq(Seq(Calls))]
  <2>1. s[e] \in E
    <3> HIDE DEF E
    <3>1. s \in Seq(E)
      BY <1>1 DEF E
    <3> QED
      BY <1>2, <3>1
  <2> QED
    BY <2>1, StatementsAssumption
<1>4. ASSUME NEW e \in DOMAIN s, NEW p \in DOMAIN s[e].parts
      PROVE  DOMAIN s[e].parts[p] = 1..Len(s[e].parts[p])
  BY <1>3
<1> QED
  BY <1>1, <1>2, <1>3, <1>4

LEMMA PartsAre ==
  ASSUME NEW s \in Statements, NEW e \in DOMAIN s
  PROVE  /\ s[e].is = "ternary" => DOMAIN s[e].parts = 1..3
         /\ s[e].is = "logical" => DOMAIN s[e].parts = 1..2
         /\ s[e].is \in {"call", "block", "function"} => DOMAIN s[e].parts = 1..1
         /\ Always(s[e]) \subseteq DOMAIN s[e].parts
         /\ Conditional(s[e]) \subseteq DOMAIN s[e].parts
<1>1. /\ HasItsParts(s[e]) /\ DOMAIN s[e].parts = 1..Len(s[e].parts)
  BY StatementIs
<1>2. /\ s[e].is = "ternary" => DOMAIN s[e].parts = 1..3
      /\ s[e].is = "logical" => DOMAIN s[e].parts = 1..2
      /\ s[e].is \in {"call", "block", "function"} => DOMAIN s[e].parts = 1..1
  BY <1>1 DEF HasItsParts
<1>3. Always(s[e]) \subseteq DOMAIN s[e].parts
  BY <1>2 DEF Always
<1>4. Conditional(s[e]) \subseteq DOMAIN s[e].parts
  BY DEF Conditional
<1> QED
  BY <1>2, <1>3, <1>4

LEMMA PositionIs ==
  ASSUME NEW q
  PROVE  q \in Positions <=>
           \E n \in DOMAIN block : \E e \in DOMAIN block[n] :
             \E p \in DOMAIN block[n][e].parts : \E c \in DOMAIN block[n][e].parts[p] :
               q = <<n, e, p, c>>
BY DEF Positions, PositionsIn

PositionsFit ==
  \A q : block \in Seq(Statements) /\ q \in Positions =>
    /\ q = <<q[1], q[2], q[3], q[4]>>
    /\ q[1] \in 1..Len(block) /\ block[q[1]] \in Statements
    /\ q[2] \in DOMAIN block[q[1]] /\ q[2] \in Nat
    /\ q[3] \in DOMAIN ElementOf(q).parts /\ q[3] \in Nat
    /\ q[4] \in DOMAIN Part(q) /\ q[4] \in Nat
    /\ ElementOf(q).is \in ElementKinds
    /\ Call(q) = Part(q)[q[4]]

LEMMA PositionsAre == PositionsFit
<1> SUFFICES ASSUME NEW q, block \in Seq(Statements), q \in Positions
             PROVE  /\ q = <<q[1], q[2], q[3], q[4]>>
                    /\ q[1] \in 1..Len(block) /\ block[q[1]] \in Statements
                    /\ q[2] \in DOMAIN block[q[1]] /\ q[2] \in Nat
                    /\ q[3] \in DOMAIN ElementOf(q).parts /\ q[3] \in Nat
                    /\ q[4] \in DOMAIN Part(q) /\ q[4] \in Nat
                    /\ ElementOf(q).is \in ElementKinds
                    /\ Call(q) = Part(q)[q[4]]
  BY DEF PositionsFit
<1>1. PICK n, e, p, c :
        /\ n \in DOMAIN block /\ e \in DOMAIN block[n] /\ p \in DOMAIN block[n][e].parts
        /\ c \in DOMAIN block[n][e].parts[p] /\ q = <<n, e, p, c>>
  BY PositionIs
<1>2. q[1] = n /\ q[2] = e /\ q[3] = p /\ q[4] = c
  BY <1>1
<1>3. n \in 1..Len(block) /\ block[n] \in Statements
  BY <1>1
<1>4. /\ e \in Nat /\ block[n][e].is \in ElementKinds
      /\ DOMAIN block[n][e].parts = 1..Len(block[n][e].parts)
      /\ block[n][e].parts \in Seq(Seq(Calls))
  BY <1>1, <1>3, StatementIs
<1>5. p \in Nat /\ c \in Nat
  <2>1. block[n][e].parts[p] \in Seq(Calls)
    BY <1>1, <1>4
  <2> QED
    BY <1>1, <1>4, <2>1
<1> QED
  BY <1>1, <1>2, <1>3, <1>4, <1>5 DEF ElementOf, Part, Call, CallAt

LEMMA BeforeIs ==
  ASSUME NEW p, NEW q
  PROVE  Before(p, q) <=>
           \/ p[1] < q[1]
           \/ p[1] = q[1] /\ p[2] < q[2]
           \/ p[1] = q[1] /\ p[2] = q[2] /\ p[3] < q[3]
           \/ p[1] = q[1] /\ p[2] = q[2] /\ p[3] = q[3] /\ p[4] < q[4]
<1>1. /\ \A j \in 1..(1 - 1) : FALSE
      /\ \A j : j \in 1..(2 - 1) <=> j = 1
      /\ \A j : j \in 1..(3 - 1) <=> j = 1 \/ j = 2
      /\ \A j : j \in 1..(4 - 1) <=> j = 1 \/ j = 2 \/ j = 3
  OBVIOUS
<1>2. Before(p, q) <=>
        \/ p[1] < q[1] /\ \A j \in 1..(1 - 1) : p[j] = q[j]
        \/ p[2] < q[2] /\ \A j \in 1..(2 - 1) : p[j] = q[j]
        \/ p[3] < q[3] /\ \A j \in 1..(3 - 1) : p[j] = q[j]
        \/ p[4] < q[4] /\ \A j \in 1..(4 - 1) : p[j] = q[j]
  <2>1. \A k : k \in 1..4 <=> k = 1 \/ k = 2 \/ k = 3 \/ k = 4
    OBVIOUS
  <2> QED
    BY <2>1 DEF Before
<1> QED
  BY <1>1, <1>2

-----------------------------------------------------------------------------
(* What the rule may report *)

\* Two reads of a group that may be reported.
Sound(p, q) ==
  Before(p, q) /\ ElementOf(p).is # "switch" =>
    /\ SomeRunHasBoth(p, q)
    /\ \A x \in Between(p, q) :
         ChangesRows(x) =>
           x[1] = q[1] /\ ElementOf(q).is \notin {"block", "function"}

LEMMA BarrierHas ==
  ASSUME block \in Seq(Statements), NEW x \in Positions, ElementOf(x).is # "function",
         ChangesRows(x) \/ Call(x) = Exit
  PROVE  IsBarrier(block[x[1]])
<1>1. /\ x[2] \in DOMAIN block[x[1]] /\ block[x[1]] \in Statements
      /\ x[3] \in DOMAIN ElementOf(x).parts /\ x[4] \in DOMAIN Part(x)
      /\ Call(x) = Part(x)[x[4]]
  BY PositionsAre DEF PositionsFit
<1>2. Call(x) \in ToSet(Part(x))
  BY <1>1 DEF ToSet
<1>3. Call(x) = Exit \/ IsWrite(Call(x))
  BY DEF ChangesRows, IsWrite, Database
<1> QED
  BY <1>1, <1>2, <1>3 DEF IsBarrier, Part, ElementOf

\* Reads of two statements, or of one, that a barrier does not part.
OwnReadsFit ==
  \A p, q : block \in Seq(Statements) /\ p \in Positions /\ q \in Positions
             /\ IsOwnRead(p) /\ IsOwnRead(q) /\ NoBarrier(p[1], q[1] - 1)
           => Sound(p, q)

LEMMA OwnReadsAreSound == OwnReadsFit
<1> SUFFICES ASSUME NEW p, NEW q, block \in Seq(Statements),
                    p \in Positions, q \in Positions,
                    IsOwnRead(p), IsOwnRead(q), NoBarrier(p[1], q[1] - 1),
                    Before(p, q), ElementOf(p).is # "switch"
             PROVE  /\ SomeRunHasBoth(p, q)
                    /\ \A x \in Between(p, q) :
                         ChangesRows(x) =>
                           x[1] = q[1] /\ ElementOf(q).is \notin {"block", "function"}
  BY DEF OwnReadsFit, Sound
<1>1. /\ p[1] \in 1..Len(block) /\ q[1] \in 1..Len(block)
      /\ ElementOf(p).is \in ElementKinds /\ ElementOf(q).is \in ElementKinds
      /\ p[2] \in Nat /\ q[2] \in Nat /\ p[3] \in Nat /\ q[3] \in Nat
      /\ Len(block) \in Nat
  BY PositionsAre DEF PositionsFit
<1>2. /\ ElementOf(p).is \notin {"block", "function"}
      /\ ElementOf(q).is \notin {"block", "function"}
  BY DEF IsOwnRead, Always
<1>3. SomeRunHasBoth(p, q)
  <2> SUFFICES ASSUME SameElement(p, q)
               PROVE  \E choice \in PartsRun(ElementOf(p)) : {p[3], q[3]} \subseteq choice
    BY DEF SomeRunHasBoth
  <2>1. ElementOf(p) = ElementOf(q)
    BY DEF SameElement, ElementOf
  <2>2. ElementOf(p).is \in {"call", "ternary", "logical"}
    BY <1>1, <1>2 DEF ElementKinds
  <2>3. p[3] = 1 /\ q[3] = 1
    BY <2>1, <2>2 DEF IsOwnRead, Always
  <2>4. \E choice \in PartsRun(ElementOf(p)) : 1 \in choice
    BY <2>2 DEF PartsRun
  <2> QED
    BY <2>3, <2>4
<1>4. ASSUME NEW x \in Between(p, q), ChangesRows(x)
      PROVE  x[1] = q[1]
  <2> SUFFICES ASSUME x[1] # q[1] PROVE FALSE
    OBVIOUS
  <2>1. /\ x \in Positions /\ Before(p, x) /\ Before(x, q)
        /\ ElementOf(x).is = "function" => SameElement(p, x)
    BY <1>4 DEF Between
  <2>2. x[1] \in 1..Len(block) /\ x[2] \in Nat /\ x[3] \in Nat
    BY <2>1, PositionsAre DEF PositionsFit
  <2>3. p[1] <= x[1] /\ x[1] <= q[1]
    BY <1>1, <2>1, <2>2, BeforeIs
  <2>4. x[1] \in p[1]..(q[1] - 1)
    BY <1>1, <2>2, <2>3
  <2>5. ElementOf(x).is # "function"
    BY <1>2, <2>1 DEF SameElement, ElementOf
  <2> QED
    BY <1>4, <2>1, <2>4, <2>5, BarrierHas DEF NoBarrier
<1> QED
  BY <1>2, <1>3, <1>4

\* Reads of one part of an element; of a body, that nothing of it parts.
SamePartFits ==
  \A p, q : block \in Seq(Statements) /\ p \in Positions /\ q \in Positions
             /\ SameElement(p, q) /\ p[3] = q[3]
             /\ (ElementOf(q).is \in {"block", "function"} =>
                   \A c \in p[4]..(q[4] - 1) : ~IsWrite(Part(q)[c]))
           => Sound(p, q)

LEMMA SamePartIsSound == SamePartFits
<1> SUFFICES ASSUME NEW p, NEW q, block \in Seq(Statements),
                    p \in Positions, q \in Positions,
                    SameElement(p, q), p[3] = q[3],
                    ElementOf(q).is \in {"block", "function"} =>
                      \A c \in p[4]..(q[4] - 1) : ~IsWrite(Part(q)[c]),
                    Before(p, q), ElementOf(p).is # "switch"
             PROVE  /\ SomeRunHasBoth(p, q)
                    /\ \A x \in Between(p, q) :
                         ChangesRows(x) =>
                           x[1] = q[1] /\ ElementOf(q).is \notin {"block", "function"}
  BY DEF SamePartFits, Sound
<1>1. /\ p[1] \in Nat /\ p[2] \in Nat /\ p[3] \in Nat /\ p[4] \in Nat
      /\ q[1] \in Nat /\ q[2] \in Nat /\ q[3] \in Nat /\ q[4] \in Nat
      /\ ElementOf(q).is \in ElementKinds
      /\ q[3] \in DOMAIN ElementOf(q).parts /\ q[2] \in DOMAIN block[q[1]]
      /\ block[q[1]] \in Statements
  BY PositionsAre DEF PositionsFit
<1>2. ElementOf(p) = ElementOf(q)
  BY DEF SameElement, ElementOf
<1>3. /\ ElementOf(q).is = "ternary" => q[3] \in 1..3
      /\ ElementOf(q).is = "logical" => q[3] \in 1..2
      /\ ElementOf(q).is \in {"call", "block", "function"} => q[3] \in 1..1
  BY <1>1, PartsAre DEF ElementOf
<1>4. \E choice \in PartsRun(ElementOf(p)) : q[3] \in choice
  <2>1. CASE ElementOf(q).is = "ternary"
    <3>1. q[3] \in {1, 2} \/ q[3] \in {1, 3}
      BY <1>3, <2>1
    <3> QED
      BY <1>2, <2>1, <3>1 DEF PartsRun
  <2>2. CASE ElementOf(q).is = "logical"
    <3>1. q[3] \in {1, 2}
      BY <1>3, <2>2
    <3> QED
      BY <1>2, <2>2, <3>1 DEF PartsRun
  <2>3. CASE ElementOf(q).is \in {"call", "block", "function"}
    <3>1. q[3] \in {1}
      BY <1>3, <2>3
    <3> QED
      BY <1>2, <2>3, <3>1 DEF PartsRun
  <2> QED
    BY <1>1, <1>2, <2>1, <2>2, <2>3 DEF ElementKinds
<1>5. SomeRunHasBoth(p, q)
  BY <1>4 DEF SomeRunHasBoth
<1>6. ASSUME NEW x \in Between(p, q), ChangesRows(x)
      PROVE  x[1] = q[1] /\ ElementOf(q).is \notin {"block", "function"}
  <2>1. x \in Positions /\ Before(p, x) /\ Before(x, q)
    BY <1>6 DEF Between
  <2>2. /\ x[1] \in Nat /\ x[2] \in Nat /\ x[3] \in Nat /\ x[4] \in Nat
        /\ Call(x) = Part(x)[x[4]]
    BY <2>1, PositionsAre DEF PositionsFit
  <2>3. /\ x[1] = q[1] /\ x[2] = q[2] /\ x[3] = q[3]
        /\ p[4] < x[4] /\ x[4] < q[4]
    <3>1. /\ p[1] = q[1] /\ p[2] = q[2]
          /\ q[1] \in Nat /\ q[2] \in Nat /\ q[3] \in Nat /\ q[4] \in Nat /\ p[4] \in Nat
      BY <1>1 DEF SameElement
    <3>2. x[1] = q[1]
      BY <2>1, <2>2, <3>1, BeforeIs
    <3>3. x[2] = q[2]
      BY <2>1, <2>2, <3>1, <3>2, BeforeIs
    <3>4. x[3] = q[3]
      BY <2>1, <2>2, <3>1, <3>2, <3>3, BeforeIs
    <3> QED
      BY <2>1, <2>2, <3>1, <3>2, <3>3, <3>4, BeforeIs
  <2>4. Call(x) = Part(q)[x[4]]
    BY <2>2, <2>3 DEF Part, ElementOf
  <2>5. IsWrite(Call(x))
    BY <1>6 DEF ChangesRows, IsWrite, Database
  <2>6. x[4] \in p[4]..(q[4] - 1)
    BY <1>1, <2>2, <2>3
  <2> QED
    BY <2>3, <2>4, <2>5, <2>6
<1> QED
  BY <1>5, <1>6

LEMMA OwnReadsAreSoundNext ==
  \A p, q : block' \in Seq(Statements) /\ p \in Positions' /\ q \in Positions'
             /\ IsOwnRead(p)' /\ IsOwnRead(q)' /\ NoBarrier(p[1], q[1] - 1)'
           => Sound(p, q)'
<1>1. OwnReadsFit'
  BY OwnReadsAreSound, PTL
<1> QED
  BY <1>1 DEF OwnReadsFit

LEMMA SamePartIsSoundNext ==
  \A p, q : block' \in Seq(Statements) /\ p \in Positions' /\ q \in Positions'
             /\ SameElement(p, q) /\ p[3] = q[3]
             /\ (ElementOf(q)'.is \in {"block", "function"} =>
                   \A c \in p[4]..(q[4] - 1) : ~IsWrite(Part(q)'[c]))
           => Sound(p, q)'
<1>1. SamePartFits'
  BY SamePartIsSound, PTL
<1> QED
  BY <1>1 DEF SamePartFits

LEMMA PositionsAreNext ==
  \A q : block' \in Seq(Statements) /\ q \in Positions' =>
    /\ q = <<q[1], q[2], q[3], q[4]>>
    /\ q[1] \in 1..Len(block') /\ block'[q[1]] \in Statements
    /\ q[2] \in DOMAIN block'[q[1]] /\ q[2] \in Nat
    /\ q[3] \in DOMAIN ElementOf(q)'.parts /\ q[3] \in Nat
    /\ q[4] \in DOMAIN Part(q)' /\ q[4] \in Nat
    /\ ElementOf(q)'.is \in ElementKinds
    /\ Call(q)' = Part(q)'[q[4]]
<1>1. PositionsFit'
  BY PositionsAre, PTL
<1> QED
  BY <1>1 DEF PositionsFit

-----------------------------------------------------------------------------
(* One more statement *)

LEMMA Appended ==
  ASSUME block \in Seq(Statements), NEW s \in Statements, block' = Append(block, s)
  PROVE  /\ block' \in Seq(Statements) /\ Len(block) \in Nat
         /\ Len(block') = Len(block) + 1
         /\ DOMAIN block = 1..Len(block) /\ DOMAIN block' = 1..(Len(block) + 1)
         /\ \A n \in 1..Len(block) : block'[n] = block[n]
         /\ block'[Len(block) + 1] = s
OBVIOUS

\* What was there stays where it is.
LEMMA PositionsStay ==
  ASSUME block \in Seq(Statements), NEW s \in Statements, block' = Append(block, s),
         NEW q
  PROVE  /\ q \in Positions <=> q \in Positions' /\ q[1] # Len(block) + 1
         /\ q \in Positions =>
              /\ Call(q)' = Call(q) /\ ElementOf(q)' = ElementOf(q) /\ Part(q)' = Part(q)
              /\ IsOwnRead(q)' <=> IsOwnRead(q)
<1>1. /\ Len(block) \in Nat /\ \A n \in 1..Len(block) : block'[n] = block[n]
      /\ DOMAIN block = 1..Len(block) /\ DOMAIN block' = 1..(Len(block) + 1)
  BY Appended
<1>2. ASSUME q \in Positions
      PROVE  q \in Positions' /\ q[1] \in 1..Len(block)
  <2>1. PICK n, e, p, c :
          /\ n \in DOMAIN block /\ e \in DOMAIN block[n] /\ p \in DOMAIN block[n][e].parts
          /\ c \in DOMAIN block[n][e].parts[p] /\ q = <<n, e, p, c>>
    BY <1>2, PositionIs
  <2>2. n \in DOMAIN block' /\ block'[n] = block[n]
    BY <1>1, <2>1
  <2>3. q \in Positions'
    BY <2>1, <2>2 DEF Positions, PositionsIn
  <2> QED
    BY <1>1, <2>1, <2>3
<1>3. ASSUME q \in Positions', q[1] # Len(block) + 1
      PROVE  q \in Positions
  <2>1. PICK n, e, p, c :
          /\ n \in DOMAIN block' /\ e \in DOMAIN block'[n]
          /\ p \in DOMAIN block'[n][e].parts
          /\ c \in DOMAIN block'[n][e].parts[p] /\ q = <<n, e, p, c>>
    BY <1>3 DEF Positions, PositionsIn
  <2>2. n \in DOMAIN block /\ block'[n] = block[n]
    BY <1>1, <1>3, <2>1
  <2> QED
    BY <2>1, <2>2, PositionIs
<1>4. ASSUME q \in Positions
      PROVE  /\ Call(q)' = Call(q) /\ ElementOf(q)' = ElementOf(q) /\ Part(q)' = Part(q)
             /\ IsOwnRead(q)' <=> IsOwnRead(q)
  <2>1. block'[q[1]] = block[q[1]]
    BY <1>1, <1>2, <1>4
  <2>2. Call(q)' = Call(q) /\ ElementOf(q)' = ElementOf(q)
    BY <2>1 DEF Call, CallAt, ElementOf
  <2> QED
    BY <2>2 DEF Part, IsOwnRead
<1>5. Len(block) + 1 \notin 1..Len(block)
  BY <1>1
<1> QED
  BY <1>2, <1>3, <1>4, <1>5

LEMMA NewPosition ==
  ASSUME block \in Seq(Statements), NEW s \in Statements, block' = Append(block, s),
         NEW e \in DOMAIN s, NEW p \in DOMAIN s[e].parts, NEW c \in DOMAIN s[e].parts[p],
         NEW q, q = <<Len(block) + 1, e, p, c>>
  PROVE  /\ q \in Positions' /\ ElementOf(q)' = s[e] /\ Part(q)' = s[e].parts[p]
         /\ Call(q)' = s[e].parts[p][c]
<1>1. /\ Len(block) \in Nat /\ block'[Len(block) + 1] = s
      /\ DOMAIN block' = 1..(Len(block) + 1)
  BY Appended
<1>2. q \in Positions'
  <2>1. Len(block) + 1 \in DOMAIN block'
    BY <1>1
  <2> QED
    BY <1>1, <2>1 DEF Positions, PositionsIn
<1>3. ElementOf(q)' = s[e] /\ Part(q)' = s[e].parts[p] /\ Call(q)' = s[e].parts[p][c]
  BY <1>1 DEF ElementOf, Part, Call, CallAt
<1> QED
  BY <1>2, <1>3

LEMMA SoundStays ==
  ASSUME block \in Seq(Statements), NEW s \in Statements, block' = Append(block, s),
         NEW p \in Positions, NEW q \in Positions, Sound(p, q)
  PROVE  Sound(p, q)'
<1>1. /\ ElementOf(p)' = ElementOf(p) /\ ElementOf(q)' = ElementOf(q)
      /\ q[1] \in 1..Len(block) /\ q[1] \in Nat /\ Len(block) \in Nat
  BY PositionsStay, PositionsAre DEF PositionsFit
<1>2. SomeRunHasBoth(p, q)' <=> SomeRunHasBoth(p, q)
  BY <1>1 DEF SomeRunHasBoth
<1>3. ASSUME NEW x \in Between(p, q)', ChangesRows(x)'
      PROVE  x \in Between(p, q) /\ ChangesRows(x)
  <2>1. /\ x \in Positions' /\ Before(p, x) /\ Before(x, q)
        /\ SomeRunHasBoth(p, x)' /\ SomeRunHasBoth(x, q)'
        /\ ElementOf(x)'.is = "function" => SameElement(p, x)
    BY <1>3 DEF Between
  <2>2. block' \in Seq(Statements) /\ Len(block') = Len(block) + 1
    BY Appended
  <2>3. x[1] \in 1..(Len(block) + 1) /\ x[2] \in Nat /\ x[3] \in Nat
    BY <2>1, <2>2, PositionsAreNext
  <2>4. x[1] <= q[1]
    BY <1>1, <2>1, <2>3, BeforeIs
  <2>5. x[1] # Len(block) + 1
    BY <1>1, <2>3, <2>4
  <2>6. x \in Positions /\ ElementOf(x)' = ElementOf(x) /\ Call(x)' = Call(x)
    BY <2>1, <2>5, PositionsStay
  <2>7. SomeRunHasBoth(p, x) /\ SomeRunHasBoth(x, q)
    BY <1>1, <2>1, <2>6 DEF SomeRunHasBoth
  <2> QED
    BY <1>3, <2>1, <2>6, <2>7 DEF Between, ChangesRows
<1> QED
  BY <1>1, <1>2, <1>3 DEF Sound

-----------------------------------------------------------------------------
(* The groups of the rule *)

LEMMA ImageIsFinite ==
  ASSUME NEW S, IsFiniteSet(S), NEW f
  PROVE  IsFiniteSet({f[x] : x \in S})
<1> DEFINE T == {f[x] : x \in S}
           g == [x \in S |-> f[x]]
<1>1. g \in Surjection(S, T)
  BY DEF Surjection
<1> HIDE DEF g
<1> QED
  BY <1>1, FS_Surjection

LEMMA ReadsInAre ==
  ASSUME NEW s, NEW n, NEW e, NEW parts, NEW q
  PROVE  q \in ReadsIn(s, n, e, parts) <=>
           \E p \in parts : \E c \in DOMAIN s[e].parts[p] :
             q = <<n, e, p, c>> /\ IsRead(s[e].parts[p][c])
BY DEF ReadsIn, PositionsIn

LEMMA ReadsInAreFinite ==
  ASSUME NEW s \in Statements, NEW n, NEW e \in DOMAIN s,
         NEW parts \in SUBSET DOMAIN s[e].parts
  PROVE  IsFiniteSet(ReadsIn(s, n, e, parts))
<1>1. /\ s[e].parts \in Seq(Seq(Calls)) /\ DOMAIN s[e].parts = 1..Len(s[e].parts)
      /\ \A p \in DOMAIN s[e].parts : DOMAIN s[e].parts[p] = 1..Len(s[e].parts[p])
  BY StatementIs
<1>2. IsFiniteSet(parts)
  <2>1. IsFiniteSet(1..Len(s[e].parts))
    BY <1>1, FS_Interval
  <2> QED
    BY <1>1, <2>1, FS_Subset
<1> DEFINE one(p) == {<<n, e, p, c>> : c \in DOMAIN s[e].parts[p]}
           all == [p \in parts |-> one(p)]
<1>3. ASSUME NEW p \in parts PROVE IsFiniteSet(one(p))
  <2> DEFINE at == [c \in DOMAIN s[e].parts[p] |-> <<n, e, p, c>>]
  <2>1. IsFiniteSet(DOMAIN s[e].parts[p])
    <3>1. Len(s[e].parts[p]) \in Nat
      BY <1>1
    <3> QED
      BY <1>1, <3>1, FS_Interval
  <2>2. one(p) = {at[c] : c \in DOMAIN s[e].parts[p]}
    OBVIOUS
  <2> HIDE DEF at, one
  <2> QED
    BY <2>1, <2>2, ImageIsFinite
<1>4. IsFiniteSet({all[p] : p \in parts})
  <2> HIDE DEF all
  <2> QED
    BY <1>2, ImageIsFinite
<1>5. \A T \in {all[p] : p \in parts} : IsFiniteSet(T)
  BY <1>3
<1>6. PositionsIn(s, n, e, parts) = UNION {all[p] : p \in parts}
  BY DEF PositionsIn
<1> HIDE DEF all
<1>7. IsFiniteSet(PositionsIn(s, n, e, parts))
  BY <1>4, <1>5, <1>6, FS_UNION
<1> QED
  BY <1>7, FS_Subset DEF ReadsIn

LEMMA OwnReadsAreFinite ==
  ASSUME NEW s \in Statements, NEW n
  PROVE  IsFiniteSet(OwnReads(s, n))
<1> DEFINE all == [e \in DOMAIN s |-> ReadsIn(s, n, e, Always(s[e]))]
<1>1. IsFiniteSet(DOMAIN s)
  BY StatementIs, FS_Interval
<1>2. IsFiniteSet({all[e] : e \in DOMAIN s})
  <2> HIDE DEF all
  <2> QED
    BY <1>1, ImageIsFinite
<1>3. \A T \in {all[e] : e \in DOMAIN s} : IsFiniteSet(T)
  BY ReadsInAreFinite, PartsAre
<1>4. OwnReads(s, n) = UNION {all[e] : e \in DOMAIN s}
  BY DEF OwnReads
<1> HIDE DEF all
<1> QED
  BY <1>2, <1>3, <1>4, FS_UNION

\* The key of a read of a statement.
KeyIn(s, q) == Key(s[q[2]].parts[q[3]][q[4]])

LEMMA GroupsAre ==
  ASSUME NEW s, NEW n, NEW reads
  PROVE  /\ \A k : k \in DOMAIN GroupsOf(s, n, reads) <=> \E q \in reads : KeyIn(s, q) = k
         /\ \A k \in DOMAIN GroupsOf(s, n, reads) :
              GroupsOf(s, n, reads)[k] = {q \in reads : KeyIn(s, q) = k}
BY DEF GroupsOf, KeysOf, KeyIn

LEMMA AddToIs ==
  ASSUME NEW seg, NEW groups, NEW k
  PROVE  /\ k \in DOMAIN AddTo(seg, groups) <=> k \in DOMAIN seg \/ k \in DOMAIN groups
         /\ k \in DOMAIN AddTo(seg, groups) =>
              AddTo(seg, groups)[k] =
                (IF k \in DOMAIN seg THEN seg[k] ELSE {})
                  \cup (IF k \in DOMAIN groups THEN groups[k] ELSE {})
BY DEF AddTo

\* Two reads of a group are enough to report it.
LEMMA DuplicatesAre ==
  ASSUME NEW seg, NEW k \in DOMAIN seg, IsFiniteSet(seg[k]),
         NEW p \in seg[k], NEW q \in seg[k], p # q
  PROVE  seg[k] \in Duplicates(seg)
<1>1. /\ IsFiniteSet({p}) /\ Cardinality({p}) = 1 /\ q \notin {p}
  BY FS_Singleton
<1>2. IsFiniteSet({p} \cup {q}) /\ Cardinality({p} \cup {q}) = 2
  <2>1. /\ IsFiniteSet({p} \cup {q})
        /\ Cardinality({p} \cup {q}) =
             IF q \in {p} THEN Cardinality({p}) ELSE Cardinality({p}) + 1
    BY <1>1, FS_AddElement
  <2>2. Cardinality({p} \cup {q}) = Cardinality({p}) + 1
    BY <1>1, <2>1
  <2>3. Cardinality({p} \cup {q}) = 1 + 1
    BY <1>1, <2>2
  <2> QED
    BY <2>1, <2>3
<1>3. Cardinality({p} \cup {q}) <= Cardinality(seg[k])
  BY FS_Subset
<1>4. Cardinality(seg[k]) \in Nat
  BY FS_CardinalityType
<1> QED
  BY <1>2, <1>3, <1>4 DEF Duplicates

LEMMA DuplicatesFrom ==
  ASSUME NEW seg, NEW g \in Duplicates(seg)
  PROVE  \E k \in DOMAIN seg : g = seg[k]
BY DEF Duplicates

LEMMA OwnReadsAre ==
  ASSUME block \in Seq(Statements), NEW s \in Statements, block' = Append(block, s), NEW q
  PROVE  /\ q \in OwnReads(s, Len(block) + 1) <=>
              q \in Positions' /\ q[1] = Len(block) + 1 /\ IsOwnRead(q)'
         /\ q \in OwnReads(s, Len(block) + 1) => KeyIn(s, q) = Key(Call(q)')
<1> DEFINE n == Len(block) + 1
<1>1. q \in OwnReads(s, n) <=>
        \E e \in DOMAIN s : \E p \in Always(s[e]) : \E c \in DOMAIN s[e].parts[p] :
          q = <<n, e, p, c>> /\ IsRead(s[e].parts[p][c])
  <2> HIDE DEF n
  <2>1. q \in OwnReads(s, n) <=> \E e \in DOMAIN s : q \in ReadsIn(s, n, e, Always(s[e]))
    BY DEF OwnReads
  <2> QED
    BY <2>1, ReadsInAre
<1>2. ASSUME q \in OwnReads(s, n)
      PROVE  /\ q \in Positions' /\ q[1] = n /\ IsOwnRead(q)'
             /\ KeyIn(s, q) = Key(Call(q)')
  <2>1. PICK e, p, c :
          /\ e \in DOMAIN s /\ p \in Always(s[e]) /\ c \in DOMAIN s[e].parts[p]
          /\ q = <<n, e, p, c>> /\ IsRead(s[e].parts[p][c])
    BY <1>1, <1>2
  <2>2. p \in DOMAIN s[e].parts
    BY <2>1, PartsAre
  <2>3. /\ q \in Positions' /\ ElementOf(q)' = s[e] /\ Call(q)' = s[e].parts[p][c]
    BY <2>1, <2>2, NewPosition
  <2>4. q[1] = n /\ q[2] = e /\ q[3] = p /\ q[4] = c
    BY <2>1
  <2> HIDE DEF n
  <2> QED
    BY <2>1, <2>3, <2>4 DEF IsOwnRead, KeyIn
<1>3. ASSUME q \in Positions', q[1] = n, IsOwnRead(q)'
      PROVE  q \in OwnReads(s, n)
  <2>1. block' \in Seq(Statements) /\ block'[n] = s
    BY Appended
  <2>2. /\ q = <<q[1], q[2], q[3], q[4]>>
        /\ q[2] \in DOMAIN block'[q[1]] /\ q[4] \in DOMAIN Part(q)'
        /\ Call(q)' = Part(q)'[q[4]]
    BY <1>3, <2>1, PositionsAreNext
  <2>3. /\ ElementOf(q)' = s[q[2]] /\ Part(q)' = s[q[2]].parts[q[3]]
        /\ q[2] \in DOMAIN s
    BY <1>3, <2>1, <2>2 DEF ElementOf, Part
  <2>4. q[3] \in Always(s[q[2]]) /\ IsRead(s[q[2]].parts[q[3]][q[4]])
    BY <1>3, <2>2, <2>3 DEF IsOwnRead
  <2> QED
    BY <1>1, <1>3, <2>2, <2>3, <2>4
<1> QED
  BY <1>2, <1>3

-----------------------------------------------------------------------------
(* The invariant *)

Together(p, q) == \E g \in reported : {p, q} \subseteq g

SegmentIsOpen ==
  \A k \in DOMAIN segment :
    /\ IsFiniteSet(segment[k])
    /\ \A q \in segment[k] :
         /\ q \in Positions /\ IsOwnRead(q) /\ Key(Call(q)) = k
         /\ NoBarrier(q[1], Len(block))

ReportedAreSound ==
  \A g \in reported : g \subseteq Positions /\ \A p, q \in g : Sound(p, q)

\* No read of the segment is missing,
SegmentIsFull ==
  ~linted =>
    \A q \in Positions :
      IsOwnRead(q) /\ NoBarrier(q[1], Len(block)) =>
        Key(Call(q)) \in DOMAIN segment /\ q \in segment[Key(Call(q))]

\* no pair of one that is closed,
OwnAreFound ==
  \A p, q \in Positions :
    /\ IsOwnRead(p) /\ IsOwnRead(q) /\ Key(Call(p)) = Key(Call(q)) /\ p # q
    /\ p[1] <= q[1] /\ NoBarrier(p[1], q[1] - 1)
    /\ linted \/ ~NoBarrier(q[1], Len(block))
    => Together(p, q)

\* of an arm,
PathsAreFound ==
  \A p, q \in Positions :
    /\ SameElement(p, q) /\ p[3] = q[3] /\ p # q
    /\ p[3] \in Conditional(ElementOf(p))
    /\ IsRead(Call(p)) /\ IsRead(Call(q)) /\ Key(Call(p)) = Key(Call(q))
    => Together(p, q)

\* or of a body.
BodiesAreFound ==
  \A p, q \in Positions :
    /\ SameElement(p, q) /\ p[3] = 1 /\ q[3] = 1 /\ p[4] < q[4]
    /\ ElementOf(p).is \in {"block", "function"}
    /\ \A c \in p[4]..(q[4] - 1) : Part(p)[c] # Exit /\ ~IsWrite(Part(p)[c])
    /\ IsRead(Call(p)) /\ IsRead(Call(q)) /\ Key(Call(p)) = Key(Call(q))
    => Together(p, q)

ReadsInv ==
  /\ block \in Seq(Statements) /\ linted \in BOOLEAN
  /\ SegmentIsOpen /\ ReportedAreSound
  /\ SegmentIsFull /\ OwnAreFound /\ PathsAreFound /\ BodiesAreFound

LEMMA ReadsInitial == ReadsInit => ReadsInv
<1> SUFFICES ASSUME ReadsInit PROVE ReadsInv
  OBVIOUS
<1>1. block = <<>> /\ segment = NoReads /\ reported = {} /\ linted = FALSE
  BY DEF ReadsInit
<1>2. block \in Seq(Statements) /\ DOMAIN block = {} /\ DOMAIN segment = {}
  BY <1>1 DEF NoReads
<1>3. Positions = {}
  BY <1>2 DEF Positions
<1> QED
  BY <1>1, <1>2, <1>3 DEF ReadsInv, SegmentIsOpen, ReportedAreSound, SegmentIsFull,
     OwnAreFound, PathsAreFound, BodiesAreFound

-----------------------------------------------------------------------------
(* A statement is linted *)

Grouped(s) ==
  AddTo(segment, GroupsOf(s, Len(block) + 1, OwnReads(s, Len(block) + 1)))

LEMMA StatementDoes ==
  ASSUME ReadsInv, NEW s \in Statements, Statement(s)
  PROVE  /\ block \in Seq(Statements) /\ block' = Append(block, s)
         /\ ~linted /\ linted' = linted
         /\ segment' = IF IsBarrier(s) THEN NoReads ELSE Grouped(s)
         /\ reported' = reported
              \cup (IF IsBarrier(s) THEN Duplicates(Grouped(s)) ELSE {})
              \cup PathDuplicates(s, Len(block) + 1)
              \cup NestedDuplicates(s, Len(block) + 1)
BY DEF Statement, Grouped, ReadsInv

\* No barrier is between what is in a group and the statement.
LEMMA GroupedAre ==
  ASSUME ReadsInv, NEW s \in Statements, Statement(s), NEW k \in DOMAIN Grouped(s)
  PROVE  /\ IsFiniteSet(Grouped(s)[k])
         /\ \A q \in Grouped(s)[k] :
              /\ q \in Positions' /\ IsOwnRead(q)' /\ Key(Call(q)') = k
              /\ \A i \in q[1]..Len(block) : ~IsBarrier(block'[i])
<1> DEFINE own == OwnReads(s, Len(block) + 1)
           groups == GroupsOf(s, Len(block) + 1, own)
<1>1. block \in Seq(Statements) /\ block' = Append(block, s)
  BY StatementDoes
<1>2. Grouped(s)[k] = (IF k \in DOMAIN segment THEN segment[k] ELSE {})
                        \cup (IF k \in DOMAIN groups THEN groups[k] ELSE {})
  <2> HIDE DEF groups
  <2>1. Grouped(s) = AddTo(segment, groups)
    BY DEF Grouped, groups
  <2> QED
    BY <2>1, AddToIs
<1>3. k \in DOMAIN groups => groups[k] = {q \in own : KeyIn(s, q) = k}
  <2> HIDE DEF own
  <2> QED
    BY GroupsAre
<1>4. IsFiniteSet(own)
  BY OwnReadsAreFinite
<1> HIDE DEF own, groups
<1>5. k \in DOMAIN segment => IsFiniteSet(segment[k])
  BY DEF ReadsInv, SegmentIsOpen
<1>6. k \in DOMAIN groups => IsFiniteSet(groups[k])
  <2> SUFFICES ASSUME k \in DOMAIN groups PROVE IsFiniteSet(groups[k])
    OBVIOUS
  <2>1. groups[k] \in SUBSET own
    BY <1>3
  <2> QED
    BY <1>4, <2>1, FS_Subset
<1>7. IsFiniteSet(Grouped(s)[k])
  <2> DEFINE A == IF k \in DOMAIN segment THEN segment[k] ELSE {}
             B == IF k \in DOMAIN groups THEN groups[k] ELSE {}
  <2>1. IsFiniteSet(A) /\ IsFiniteSet(B)
    BY <1>5, <1>6, FS_EmptySet
  <2>2. Grouped(s)[k] = A \cup B
    BY <1>2
  <2> HIDE DEF A, B
  <2> QED
    BY <2>1, <2>2, FS_Union
<1>8. /\ Len(block) \in Nat
      /\ \A i \in 1..Len(block) : block'[i] = block[i]
  BY <1>1, Appended
<1>9. ASSUME NEW q \in Grouped(s)[k]
      PROVE  /\ q \in Positions' /\ IsOwnRead(q)' /\ Key(Call(q)') = k
             /\ \A i \in q[1]..Len(block) : ~IsBarrier(block'[i])
  <2>1. CASE k \in DOMAIN segment /\ q \in segment[k]
    <3>1. /\ q \in Positions /\ IsOwnRead(q) /\ Key(Call(q)) = k
          /\ NoBarrier(q[1], Len(block))
      BY <2>1 DEF ReadsInv, SegmentIsOpen
    <3>2. q \in Positions' /\ IsOwnRead(q)' /\ Call(q)' = Call(q)
      BY <1>1, <3>1, PositionsStay
    <3>3. q[1] \in 1..Len(block)
      BY <1>1, <3>1, PositionsAre DEF PositionsFit
    <3>4. ASSUME NEW i \in q[1]..Len(block) PROVE ~IsBarrier(block'[i])
      <4>1. i \in 1..Len(block)
        BY <1>8, <3>3
      <4> QED
        BY <1>8, <3>1, <4>1 DEF NoBarrier
    <3> QED
      BY <3>1, <3>2, <3>4
  <2>2. CASE k \in DOMAIN groups /\ q \in groups[k]
    <3>1. q \in own /\ KeyIn(s, q) = k
      BY <1>3, <2>2
    <3>2. /\ q \in Positions' /\ q[1] = Len(block) + 1 /\ IsOwnRead(q)'
          /\ Key(Call(q)') = k
      BY <1>1, <3>1, OwnReadsAre DEF own
    <3>3. q[1]..Len(block) = {}
      BY <1>8, <3>2
    <3> QED
      BY <3>2, <3>3
  <2> QED
    BY <1>2, <2>1, <2>2
<1> QED
  BY <1>7, <1>9

LEMMA GroupedHas ==
  ASSUME ReadsInv, NEW s \in Statements, Statement(s),
         NEW q \in Positions', IsOwnRead(q)',
         \A i \in q[1]..Len(block) : ~IsBarrier(block'[i])
  PROVE  Key(Call(q)') \in DOMAIN Grouped(s) /\ q \in Grouped(s)[Key(Call(q)')]
<1> DEFINE own == OwnReads(s, Len(block) + 1)
           groups == GroupsOf(s, Len(block) + 1, own)
<1>1. block \in Seq(Statements) /\ block' = Append(block, s) /\ ~linted
  BY StatementDoes
<1>2. PICK k : k = Key(Call(q)')
  OBVIOUS
<1>3. /\ k \in DOMAIN Grouped(s) <=> k \in DOMAIN segment \/ k \in DOMAIN groups
      /\ k \in DOMAIN Grouped(s) =>
           Grouped(s)[k] = (IF k \in DOMAIN segment THEN segment[k] ELSE {})
                             \cup (IF k \in DOMAIN groups THEN groups[k] ELSE {})
  <2> HIDE DEF groups
  <2>1. Grouped(s) = AddTo(segment, groups)
    BY DEF Grouped, groups
  <2> QED
    BY <2>1, AddToIs
<1>4. /\ k \in DOMAIN groups <=> \E r \in own : KeyIn(s, r) = k
      /\ k \in DOMAIN groups => groups[k] = {r \in own : KeyIn(s, r) = k}
  <2> HIDE DEF own
  <2> QED
    BY GroupsAre
<1> HIDE DEF own, groups
<1>5. CASE q[1] = Len(block) + 1
  <2>1. q \in own /\ KeyIn(s, q) = k
    BY <1>1, <1>2, <1>5, OwnReadsAre DEF own
  <2> QED
    BY <1>2, <1>3, <1>4, <2>1
<1>6. CASE q[1] # Len(block) + 1
  <2>1. q \in Positions
    BY <1>1, <1>6, PositionsStay
  <2>2. IsOwnRead(q) /\ Call(q)' = Call(q)
    BY <1>1, <2>1, PositionsStay
  <2>3. q[1] \in 1..Len(block) /\ Len(block) \in Nat
    BY <1>1, <2>1, PositionsAre DEF PositionsFit
  <2>4. \A i \in q[1]..Len(block) : block'[i] = block[i]
    BY <1>1, <2>3, Appended
  <2>5. NoBarrier(q[1], Len(block))
    BY <2>4 DEF NoBarrier
  <2>6. k \in DOMAIN segment /\ q \in segment[k]
    BY <1>1, <1>2, <2>1, <2>2, <2>5 DEF ReadsInv, SegmentIsFull
  <2> QED
    BY <1>2, <1>3, <2>6
<1> QED
  BY <1>5, <1>6

LEMMA SegmentStep ==
  ASSUME ReadsInv, NEW s \in Statements, Statement(s)
  PROVE  SegmentIsOpen' /\ SegmentIsFull'
<1>1. /\ block \in Seq(Statements) /\ block' = Append(block, s)
      /\ segment' = IF IsBarrier(s) THEN NoReads ELSE Grouped(s)
  BY StatementDoes
<1>2. /\ block' \in Seq(Statements) /\ Len(block) \in Nat /\ Len(block') = Len(block) + 1
      /\ block'[Len(block) + 1] = s
  BY <1>1, Appended
<1>3. CASE IsBarrier(s)
  <2>1. DOMAIN segment' = {}
    BY <1>1, <1>3 DEF NoReads
  <2>2. ASSUME NEW q \in Positions', NoBarrier(q[1], Len(block))'
        PROVE  FALSE
    <3>1. q[1] \in 1..Len(block')
      BY <1>2, <2>2, PositionsAreNext
    <3>2. Len(block) + 1 \in q[1]..Len(block')
      BY <1>2, <3>1
    <3> QED
      BY <1>2, <1>3, <2>2, <3>2 DEF NoBarrier
  <2> QED
    BY <2>1, <2>2 DEF SegmentIsOpen, SegmentIsFull
<1>4. CASE ~IsBarrier(s)
  <2>1. segment' = Grouped(s)
    BY <1>1, <1>4
  <2>2. ASSUME NEW q \in Positions'
        PROVE  NoBarrier(q[1], Len(block))' <=>
                 \A i \in q[1]..Len(block) : ~IsBarrier(block'[i])
    <3>1. q[1] \in 1..(Len(block) + 1)
      BY <1>2, <2>2, PositionsAreNext
    <3>2. \A i : i \in q[1]..(Len(block) + 1)
                  <=> i \in q[1]..Len(block) \/ i = Len(block) + 1
      BY <1>2, <3>1
    <3> QED
      BY <1>2, <1>4, <3>2 DEF NoBarrier
  <2>3. SegmentIsOpen'
    <3> SUFFICES ASSUME NEW k \in DOMAIN Grouped(s)
                 PROVE  /\ IsFiniteSet(Grouped(s)[k])
                        /\ \A q \in Grouped(s)[k] :
                             /\ q \in Positions' /\ IsOwnRead(q)' /\ Key(Call(q)') = k
                             /\ NoBarrier(q[1], Len(block))'
      BY <2>1 DEF SegmentIsOpen
    <3> QED
      BY <2>2, GroupedAre
  <2>4. SegmentIsFull'
    <3> SUFFICES ASSUME NEW q \in Positions', IsOwnRead(q)', NoBarrier(q[1], Len(block))'
                 PROVE  /\ Key(Call(q)') \in DOMAIN Grouped(s)
                        /\ q \in Grouped(s)[Key(Call(q)')]
      BY <2>1 DEF SegmentIsFull
    <3> QED
      BY <2>2, GroupedHas
  <2> QED
    BY <2>3, <2>4
<1> QED
  BY <1>3, <1>4

LEMMA OwnStep ==
  ASSUME ReadsInv, NEW s \in Statements, Statement(s)
  PROVE  OwnAreFound'
<1>1. /\ block \in Seq(Statements) /\ block' = Append(block, s)
      /\ ~linted /\ linted' = linted /\ reported \subseteq reported'
      /\ IsBarrier(s) => Duplicates(Grouped(s)) \subseteq reported'
  BY StatementDoes
<1>2. /\ block' \in Seq(Statements) /\ Len(block) \in Nat /\ Len(block') = Len(block) + 1
      /\ block'[Len(block) + 1] = s /\ \A i \in 1..Len(block) : block'[i] = block[i]
  BY <1>1, Appended
<1> SUFFICES ASSUME NEW p \in Positions', NEW q \in Positions',
                    IsOwnRead(p)', IsOwnRead(q)', Key(Call(p)') = Key(Call(q)'), p # q,
                    p[1] <= q[1], NoBarrier(p[1], q[1] - 1)',
                    ~NoBarrier(q[1], Len(block))'
             PROVE  \E g \in reported' : {p, q} \subseteq g
  BY <1>1 DEF OwnAreFound, Together
<1>3. p[1] \in 1..(Len(block) + 1) /\ q[1] \in 1..(Len(block) + 1)
  BY <1>2, PositionsAreNext
<1>4. \A i \in p[1]..(q[1] - 1) : ~IsBarrier(block'[i])
  BY DEF NoBarrier
<1>5. CASE \A i \in q[1]..Len(block) : ~IsBarrier(block'[i])
  <2>1. IsBarrier(s)
    <3>1. PICK i \in q[1]..(Len(block) + 1) : IsBarrier(block'[i])
      BY <1>2 DEF NoBarrier
    <3>2. i = Len(block) + 1
      BY <1>2, <1>3, <1>5, <3>1
    <3> QED
      BY <1>2, <3>1, <3>2
  <2>2. \A i \in p[1]..Len(block) : ~IsBarrier(block'[i])
    <3> SUFFICES ASSUME NEW i \in p[1]..Len(block) PROVE ~IsBarrier(block'[i])
      OBVIOUS
    <3>1. i \in p[1]..(q[1] - 1) \/ i \in q[1]..Len(block)
      BY <1>2, <1>3
    <3> QED
      BY <1>4, <1>5, <3>1
  <2>3. PICK k : k = Key(Call(q)')
    OBVIOUS
  <2>4. k \in DOMAIN Grouped(s) /\ p \in Grouped(s)[k] /\ q \in Grouped(s)[k]
    BY <1>5, <2>2, <2>3, GroupedHas
  <2>5. IsFiniteSet(Grouped(s)[k])
    BY <2>4, GroupedAre
  <2>6. Grouped(s)[k] \in Duplicates(Grouped(s))
    BY <2>4, <2>5, DuplicatesAre
  <2> QED
    BY <1>1, <2>1, <2>4, <2>6
<1>6. CASE \E i \in q[1]..Len(block) : IsBarrier(block'[i])
  <2>1. PICK i \in q[1]..Len(block) : IsBarrier(block'[i])
    BY <1>6
  <2>2. /\ p[1] # Len(block) + 1 /\ q[1] # Len(block) + 1
        /\ i \in 1..Len(block)
    BY <1>2, <1>3, <2>1
  <2>3. p \in Positions /\ q \in Positions
    BY <1>1, <2>2, PositionsStay
  <2>4. IsOwnRead(p) /\ IsOwnRead(q) /\ Key(Call(p)) = Key(Call(q))
    BY <1>1, <2>3, PositionsStay
  <2>5. NoBarrier(p[1], q[1] - 1)
    <3> SUFFICES ASSUME NEW j \in p[1]..(q[1] - 1) PROVE ~IsBarrier(block[j])
      BY DEF NoBarrier
    <3>1. j \in 1..Len(block)
      BY <1>2, <1>3
    <3> QED
      BY <1>2, <1>4, <3>1
  <2>6. ~NoBarrier(q[1], Len(block))
    BY <1>2, <2>1, <2>2 DEF NoBarrier
  <2>7. Together(p, q)
    BY <2>3, <2>4, <2>5, <2>6 DEF ReadsInv, OwnAreFound
  <2> QED
    BY <1>1, <2>7 DEF Together
<1> QED
  BY <1>5, <1>6

\* The reads of an arm of the statement are grouped.
LEMMA PathsStep ==
  ASSUME ReadsInv, NEW s \in Statements, Statement(s)
  PROVE  PathsAreFound'
<1> DEFINE n == Len(block) + 1
<1>1. /\ block \in Seq(Statements) /\ block' = Append(block, s)
      /\ reported \subseteq reported'
      /\ PathDuplicates(s, n) \subseteq reported'
  BY StatementDoes
<1>2. block' \in Seq(Statements) /\ block'[n] = s
  BY <1>1, Appended
<1> SUFFICES ASSUME NEW p \in Positions', NEW q \in Positions',
                    SameElement(p, q), p[3] = q[3], p # q,
                    p[3] \in Conditional(ElementOf(p)'),
                    IsRead(Call(p)'), IsRead(Call(q)'), Key(Call(p)') = Key(Call(q)')
             PROVE  \E g \in reported' : {p, q} \subseteq g
  BY DEF PathsAreFound, Together
<1>3. CASE p[1] # n
  <2>1. p \in Positions /\ q \in Positions
    BY <1>1, <1>3, PositionsStay DEF SameElement
  <2>2. ElementOf(p)' = ElementOf(p) /\ Call(p)' = Call(p) /\ Call(q)' = Call(q)
    BY <1>1, <2>1, PositionsStay
  <2>3. Together(p, q)
    BY <2>1, <2>2 DEF ReadsInv, PathsAreFound
  <2> QED
    BY <1>1, <2>3 DEF Together
<1>4. CASE p[1] = n
  <2>1. q[1] = n /\ q[2] = p[2]
    BY <1>4 DEF SameElement
  <2>2. /\ p = <<n, p[2], p[3], p[4]>> /\ q = <<n, p[2], p[3], q[4]>>
        /\ p[2] \in DOMAIN s
        /\ p[4] \in DOMAIN Part(p)' /\ q[4] \in DOMAIN Part(q)'
        /\ Call(p)' = Part(p)'[p[4]] /\ Call(q)' = Part(q)'[q[4]]
    BY <1>2, <1>4, <2>1, PositionsAreNext
  <2>3. ElementOf(p)' = s[p[2]] /\ ElementOf(q)' = s[p[2]]
    BY <1>2, <1>4, <2>1 DEF ElementOf
  <2>4. Part(p)' = s[p[2]].parts[p[3]] /\ Part(q)' = s[p[2]].parts[p[3]]
    BY <2>3 DEF Part
  <2> DEFINE path == ReadsIn(s, n, p[2], {p[3]})
  <2>5. p \in path /\ q \in path
    <3> HIDE DEF n
    <3> QED
      BY <2>2, <2>4, ReadsInAre
  <2>6. path \in ConditionalPaths(s, n)
    <3>1. p[3] \in Conditional(s[p[2]]) /\ p[2] \in DOMAIN s
      BY <2>2, <2>3
    <3> HIDE DEF n
    <3>2. path \in {ReadsIn(s, n, p[2], {c}) : c \in Conditional(s[p[2]])}
      BY <3>1
    <3> HIDE DEF path
    <3> QED
      BY <3>1, <3>2 DEF ConditionalPaths
  <2>7. IsFiniteSet(path)
    <3>1. {p[3]} \subseteq DOMAIN s[p[2]].parts
      BY <2>2, <2>3, PartsAre
    <3> HIDE DEF n
    <3> QED
      BY <2>2, <3>1, ReadsInAreFinite
  <2> HIDE DEF path, n
  <2>8. /\ KeyIn(s, p) = Key(Call(p)') /\ KeyIn(s, q) = Key(Call(p)')
    <3>1. Part(q)' = s[q[2]].parts[q[3]]
      BY <2>1, <2>4
    <3> QED
      BY <2>2, <2>4, <3>1 DEF KeyIn
  <2>9. PICK k : k = Key(Call(p)')
    OBVIOUS
  <2>10. /\ k \in DOMAIN GroupsOf(s, n, path)
         /\ p \in GroupsOf(s, n, path)[k] /\ q \in GroupsOf(s, n, path)[k]
         /\ GroupsOf(s, n, path)[k] \in SUBSET path
    BY <2>5, <2>8, <2>9, GroupsAre
  <2>11. IsFiniteSet(GroupsOf(s, n, path)[k])
    BY <2>7, <2>10, FS_Subset
  <2>12. GroupsOf(s, n, path)[k] \in Duplicates(GroupsOf(s, n, path))
    BY <2>10, <2>11, DuplicatesAre
  <2>13. GroupsOf(s, n, path)[k] \in PathDuplicates(s, n)
    BY <2>6, <2>12 DEF PathDuplicates
  <2> QED
    BY <1>1, <2>10, <2>13
<1> QED
  BY <1>3, <1>4

LEMMA BodiesStep ==
  ASSUME ReadsInv, NEW s \in Statements, Statement(s)
  PROVE  BodiesAreFound'
<1> DEFINE n == Len(block) + 1
<1>1. /\ block \in Seq(Statements) /\ block' = Append(block, s)
      /\ reported \subseteq reported' /\ NestedDuplicates(s, n) \subseteq reported'
  BY StatementDoes
<1>2. block' \in Seq(Statements) /\ block'[n] = s
  BY <1>1, Appended
<1> SUFFICES ASSUME NEW p \in Positions', NEW q \in Positions',
                    SameElement(p, q), p[3] = 1, q[3] = 1, p[4] < q[4],
                    ElementOf(p)'.is \in {"block", "function"},
                    \A c \in p[4]..(q[4] - 1) : Part(p)'[c] # Exit /\ ~IsWrite(Part(p)'[c]),
                    IsRead(Call(p)'), IsRead(Call(q)'), Key(Call(p)') = Key(Call(q)')
             PROVE  \E g \in reported' : {p, q} \subseteq g
  BY DEF BodiesAreFound, Together
<1>3. CASE p[1] # n
  <2>1. p \in Positions /\ q \in Positions
    BY <1>1, <1>3, PositionsStay DEF SameElement
  <2>2. /\ ElementOf(p)' = ElementOf(p) /\ Part(p)' = Part(p)
        /\ Call(p)' = Call(p) /\ Call(q)' = Call(q)
    BY <1>1, <2>1, PositionsStay
  <2>3. Together(p, q)
    BY <2>1, <2>2 DEF ReadsInv, BodiesAreFound
  <2> QED
    BY <1>1, <2>3 DEF Together
<1>4. CASE p[1] = n
  <2>1. q[1] = n /\ q[2] = p[2]
    BY <1>4 DEF SameElement
  <2>2. /\ p = <<n, p[2], 1, p[4]>> /\ q = <<n, p[2], 1, q[4]>>
        /\ p[2] \in DOMAIN s
        /\ p[4] \in DOMAIN Part(p)' /\ q[4] \in DOMAIN Part(q)'
        /\ Call(p)' = Part(p)'[p[4]] /\ Call(q)' = Part(q)'[q[4]]
    BY <1>2, <1>4, <2>1, PositionsAreNext
  <2>3. ElementOf(p)' = s[p[2]] /\ ElementOf(q)' = s[p[2]]
    BY <1>2, <1>4, <2>1 DEF ElementOf
  <2>4. PICK body : body = s[p[2]].parts[1]
    OBVIOUS
  <2>5. Part(p)' = body /\ Part(q)' = body
    BY <2>3, <2>4 DEF Part
  <2>6. /\ p[4] \in DOMAIN body /\ q[4] \in DOMAIN body
        /\ IsRead(body[p[4]]) /\ IsRead(body[q[4]]) /\ Key(body[p[4]]) = Key(body[q[4]])
        /\ \A m \in p[4]..(q[4] - 1) : body[m] # Exit /\ ~IsWrite(body[m])
    BY <2>2, <2>5
  <2>7. PICK i, j : i = p[4] /\ j = q[4]
    OBVIOUS
  <2>8. {<<n, p[2], 1, i>>, <<n, p[2], 1, j>>} \in NestedDuplicates(s, n)
    <3>1. p[2] \in {f \in DOMAIN s : s[f].is \in {"block", "function"}}
      BY <2>2, <2>3
    <3>2. <<i, j>> \in
            {x \in (DOMAIN body) \X (DOMAIN body) :
               /\ x[1] < x[2]
               /\ \A m \in x[1]..(x[2] - 1) : body[m] # Exit /\ ~IsWrite(body[m])
               /\ IsRead(body[x[1]]) /\ IsRead(body[x[2]])
               /\ Key(body[x[1]]) = Key(body[x[2]])}
      BY <2>6, <2>7
    <3> HIDE DEF n
    <3> QED
      BY <2>4, <3>1, <3>2 DEF NestedDuplicates
  <2>9. {p, q} \in NestedDuplicates(s, n)
    BY <2>2, <2>7, <2>8
  <2> QED
    BY <1>1, <2>9
<1> QED
  BY <1>3, <1>4

\* What is reported of a statement is of a group, of an arm or of a body.
LEMMA ReportedStep ==
  ASSUME ReadsInv, NEW s \in Statements, Statement(s)
  PROVE  ReportedAreSound'
<1>1. /\ block \in Seq(Statements) /\ block' = Append(block, s)
      /\ reported' = reported
           \cup (IF IsBarrier(s) THEN Duplicates(Grouped(s)) ELSE {})
           \cup PathDuplicates(s, Len(block) + 1)
           \cup NestedDuplicates(s, Len(block) + 1)
  BY StatementDoes
<1>2. /\ block' \in Seq(Statements) /\ Len(block) \in Nat /\ Len(block') = Len(block) + 1
      /\ block'[Len(block) + 1] = s
  BY <1>1, Appended
<1>3. ASSUME NEW g \in reported
      PROVE  g \subseteq Positions' /\ \A p, q \in g : Sound(p, q)'
  <2>1. g \subseteq Positions /\ \A p, q \in g : Sound(p, q)
    BY <1>3 DEF ReadsInv, ReportedAreSound
  <2>2. ASSUME NEW q \in g PROVE q \in Positions'
    BY <1>1, <2>1, PositionsStay
  <2>3. ASSUME NEW p \in g, NEW q \in g PROVE Sound(p, q)'
    BY <1>1, <2>1, SoundStays
  <2> QED
    BY <2>2, <2>3
<1>4. ASSUME NEW g \in Duplicates(Grouped(s))
      PROVE  g \subseteq Positions' /\ \A p, q \in g : Sound(p, q)'
  <2>1. PICK k \in DOMAIN Grouped(s) : g = Grouped(s)[k]
    BY <1>4, DuplicatesFrom
  <2>2. \A q \in g : /\ q \in Positions' /\ IsOwnRead(q)'
                     /\ \A i \in q[1]..Len(block) : ~IsBarrier(block'[i])
    BY <2>1, GroupedAre
  <2>3. ASSUME NEW p \in g, NEW q \in g PROVE Sound(p, q)'
    <3>1. q[1] \in 1..(Len(block) + 1) /\ p[1] \in 1..(Len(block) + 1)
      BY <1>2, <2>2, PositionsAreNext
    <3>2. NoBarrier(p[1], q[1] - 1)'
      <4> SUFFICES ASSUME NEW i \in p[1]..(q[1] - 1) PROVE ~IsBarrier(block'[i])
        BY DEF NoBarrier
      <4>1. i \in p[1]..Len(block)
        BY <1>2, <3>1
      <4> QED
        BY <2>2, <4>1
    <3> QED
      BY <1>2, <2>2, <3>2, OwnReadsAreSoundNext
  <2> QED
    BY <2>2, <2>3
<1>5. ASSUME NEW g \in PathDuplicates(s, Len(block) + 1)
      PROVE  g \subseteq Positions' /\ \A p, q \in g : Sound(p, q)'
  <2> DEFINE n == Len(block) + 1
  <2>1. PICK path \in ConditionalPaths(s, n) : g \in Duplicates(GroupsOf(s, n, path))
    BY <1>5 DEF PathDuplicates
  <2>2. PICK e, c : /\ e \in DOMAIN s /\ c \in Conditional(s[e])
                    /\ path = ReadsIn(s, n, e, {c})
    <3> HIDE DEF n
    <3> QED
      BY <2>1 DEF ConditionalPaths
  <2>3. /\ c \in DOMAIN s[e].parts /\ s[e].is \notin {"block", "function"}
    BY <2>2, PartsAre DEF Conditional
  <2>4. g \subseteq path
    <3> HIDE DEF n
    <3>1. PICK k \in DOMAIN GroupsOf(s, n, path) : g = GroupsOf(s, n, path)[k]
      BY <2>1, DuplicatesFrom
    <3> QED
      BY <3>1, GroupsAre
  <2>5. ASSUME NEW q \in g
        PROVE  /\ q \in Positions' /\ q[1] = n /\ q[2] = e /\ q[3] = c
               /\ ElementOf(q)' = s[e]
    <3>1. PICK i \in DOMAIN s[e].parts[c] : q = <<n, e, c, i>>
      <4> HIDE DEF n
      <4> QED
        BY <2>2, <2>4, <2>5, ReadsInAre
    <3>2. q \in Positions' /\ ElementOf(q)' = s[e]
      BY <1>1, <2>2, <2>3, <3>1, NewPosition
    <3> QED
      BY <3>1, <3>2
  <2>6. ASSUME NEW p \in g, NEW q \in g PROVE Sound(p, q)'
    <3>1. /\ p \in Positions' /\ q \in Positions' /\ SameElement(p, q) /\ p[3] = q[3]
          /\ ElementOf(q)'.is \notin {"block", "function"}
      BY <2>3, <2>5, <2>6 DEF SameElement
    <3> QED
      BY <1>2, <3>1, SamePartIsSoundNext
  <2> QED
    BY <2>5, <2>6
<1>6. ASSUME NEW g \in NestedDuplicates(s, Len(block) + 1)
      PROVE  g \subseteq Positions' /\ \A p, q \in g : Sound(p, q)'
  <2> DEFINE n == Len(block) + 1
  <2>1. PICK e, i, j :
          /\ e \in DOMAIN s /\ s[e].is \in {"block", "function"}
          /\ i \in DOMAIN s[e].parts[1] /\ j \in DOMAIN s[e].parts[1] /\ i < j
          /\ \A m \in i..(j - 1) : ~IsWrite(s[e].parts[1][m])
          /\ g = {<<n, e, 1, i>>, <<n, e, 1, j>>}
    <3> HIDE DEF n
    <3>1. PICK e \in {f \in DOMAIN s : s[f].is \in {"block", "function"}} :
            g \in {{<<n, e, 1, ij[1]>>, <<n, e, 1, ij[2]>>} :
                   ij \in {x \in (DOMAIN s[e].parts[1]) \X (DOMAIN s[e].parts[1]) :
                            /\ x[1] < x[2]
                            /\ \A m \in x[1]..(x[2] - 1) :
                                 s[e].parts[1][m] # Exit /\ ~IsWrite(s[e].parts[1][m])
                            /\ IsRead(s[e].parts[1][x[1]]) /\ IsRead(s[e].parts[1][x[2]])
                            /\ Key(s[e].parts[1][x[1]]) = Key(s[e].parts[1][x[2]])}}
      BY <1>6 DEF NestedDuplicates, n
    <3>2. PICK ij \in (DOMAIN s[e].parts[1]) \X (DOMAIN s[e].parts[1]) :
            /\ g = {<<n, e, 1, ij[1]>>, <<n, e, 1, ij[2]>>} /\ ij[1] < ij[2]
            /\ \A m \in ij[1]..(ij[2] - 1) : ~IsWrite(s[e].parts[1][m])
      BY <3>1
    <3> QED
      BY <3>1, <3>2
  <2>2. /\ 1 \in DOMAIN s[e].parts /\ i \in Nat /\ j \in Nat
    <3>1. DOMAIN s[e].parts = 1..1
      BY <2>1, PartsAre
    <3>2. DOMAIN s[e].parts[1] = 1..Len(s[e].parts[1])
      BY <2>1, <3>1, StatementIs
    <3> QED
      BY <2>1, <3>1, <3>2
  <2>3. PICK x, y : x = <<n, e, 1, i>> /\ y = <<n, e, 1, j>>
    OBVIOUS
  <2>4. /\ x \in Positions' /\ y \in Positions'
        /\ ElementOf(x)' = s[e] /\ ElementOf(y)' = s[e]
        /\ Part(x)' = s[e].parts[1] /\ Part(y)' = s[e].parts[1]
    BY <1>1, <2>1, <2>2, <2>3, NewPosition
  <2>5. /\ SameElement(x, y) /\ SameElement(y, x) /\ SameElement(x, x) /\ SameElement(y, y)
        /\ x[3] = 1 /\ y[3] = 1 /\ x[4] = i /\ y[4] = j
    BY <2>3 DEF SameElement
  <2>6. /\ i..(i - 1) = {} /\ j..(j - 1) = {} /\ j..(i - 1) = {}
    BY <2>1, <2>2
  <2>7. Sound(x, y)' /\ Sound(y, x)' /\ Sound(x, x)' /\ Sound(y, y)'
    <3> HIDE DEF n
    <3>1. Sound(x, y)'
      BY <1>2, <2>1, <2>4, <2>5, SamePartIsSoundNext
    <3>2. Sound(y, x)'
      BY <1>2, <2>4, <2>5, <2>6, SamePartIsSoundNext
    <3>3. Sound(x, x)'
      BY <1>2, <2>4, <2>5, <2>6, SamePartIsSoundNext
    <3>4. Sound(y, y)'
      BY <1>2, <2>4, <2>5, <2>6, SamePartIsSoundNext
    <3> QED
      BY <3>1, <3>2, <3>3, <3>4
  <2>8. g = {x, y}
    BY <2>1, <2>3
  <2> QED
    BY <2>4, <2>7, <2>8
<1> SUFFICES ASSUME NEW g \in reported'
             PROVE  g \subseteq Positions' /\ \A p, q \in g : Sound(p, q)'
  BY DEF ReportedAreSound
<1>7. \/ g \in reported \/ g \in Duplicates(Grouped(s))
      \/ g \in PathDuplicates(s, Len(block) + 1)
      \/ g \in NestedDuplicates(s, Len(block) + 1)
  BY <1>1
<1> QED
  BY <1>3, <1>4, <1>5, <1>6, <1>7

LEMMA StatementStep ==
  ASSUME ReadsInv, NEW s \in Statements, Statement(s)
  PROVE  ReadsInv'
<1>1. block' \in Seq(Statements) /\ linted' \in BOOLEAN
  BY StatementDoes DEF ReadsInv
<1> QED
  BY <1>1, SegmentStep, ReportedStep, OwnStep, PathsStep, BodiesStep DEF ReadsInv

-----------------------------------------------------------------------------
(* The block ends *)

SameBlock ==
  /\ Positions' = Positions
  /\ \A p, q : Sound(p, q)' <=> Sound(p, q)
  /\ \A m, n : NoBarrier(m, n)' <=> NoBarrier(m, n)
  /\ \A q : /\ ElementOf(q)' = ElementOf(q) /\ Part(q)' = Part(q)
            /\ Call(q)' = Call(q) /\ (IsOwnRead(q)' <=> IsOwnRead(q))

LEMMA BlockStays == block' = block => SameBlock
BY DEF SameBlock, Positions, PositionsIn, Sound, NoBarrier, ElementOf, Part, Call, CallAt,
       IsOwnRead, SomeRunHasBoth, Between, ChangesRows

LEMMA EndStep ==
  ASSUME ReadsInv, EndOfBlock
  PROVE  ReadsInv'
<1>1. /\ ~linted /\ linted' = TRUE /\ reported' = reported \cup Duplicates(segment)
      /\ segment' = NoReads /\ block' = block
  BY DEF EndOfBlock
<1>2. SameBlock
  BY <1>1, BlockStays
<1>3. block' \in Seq(Statements) /\ linted' \in BOOLEAN
  BY <1>1 DEF ReadsInv
<1>4. SegmentIsOpen' /\ SegmentIsFull'
  <2>1. DOMAIN segment' = {}
    BY <1>1 DEF NoReads
  <2> QED
    BY <1>1, <2>1 DEF SegmentIsOpen, SegmentIsFull
<1>5. ReportedAreSound'
  <2>1. ASSUME NEW g \in Duplicates(segment)
        PROVE  g \subseteq Positions /\ \A p, q \in g : Sound(p, q)
    <3>1. PICK k \in DOMAIN segment : g = segment[k]
      BY <2>1, DuplicatesFrom
    <3>2. \A q \in g : q \in Positions /\ IsOwnRead(q) /\ NoBarrier(q[1], Len(block))
      BY <3>1 DEF ReadsInv, SegmentIsOpen
    <3>3. ASSUME NEW p \in g, NEW q \in g PROVE Sound(p, q)
      <4>1. /\ p[1] \in 1..Len(block) /\ q[1] \in 1..Len(block) /\ Len(block) \in Nat
        BY <3>2, PositionsAre DEF PositionsFit, ReadsInv
      <4>2. p[1]..(q[1] - 1) \subseteq p[1]..Len(block)
        BY <4>1
      <4>3. NoBarrier(p[1], q[1] - 1)
        BY <3>2, <4>2 DEF NoBarrier
      <4> QED
        BY <3>2, <4>3, OwnReadsAreSound DEF OwnReadsFit, ReadsInv
    <3> QED
      BY <3>2, <3>3
  <2>2. \A g \in reported' : g \subseteq Positions /\ \A p, q \in g : Sound(p, q)
    BY <1>1, <2>1 DEF ReadsInv, ReportedAreSound
  <2> QED
    BY <1>2, <2>2 DEF ReportedAreSound, SameBlock
<1>6. OwnAreFound'
  <2> SUFFICES ASSUME NEW p \in Positions, NEW q \in Positions,
                      IsOwnRead(p), IsOwnRead(q), Key(Call(p)) = Key(Call(q)), p # q,
                      p[1] <= q[1], NoBarrier(p[1], q[1] - 1)
               PROVE  \E g \in reported' : {p, q} \subseteq g
    BY <1>2 DEF OwnAreFound, SameBlock, Together
  <2>1. CASE NoBarrier(q[1], Len(block))
    <3>1. NoBarrier(p[1], Len(block))
      <4>1. /\ p[1] \in 1..Len(block) /\ q[1] \in 1..Len(block) /\ Len(block) \in Nat
        BY PositionsAre DEF PositionsFit, ReadsInv
      <4>2. \A i \in p[1]..Len(block) : i \in p[1]..(q[1] - 1) \/ i \in q[1]..Len(block)
        BY <4>1
      <4> QED
        BY <2>1, <4>2 DEF NoBarrier
    <3>2. PICK k : k = Key(Call(q))
      OBVIOUS
    <3>3. k \in DOMAIN segment /\ p \in segment[k] /\ q \in segment[k]
      BY <1>1, <2>1, <3>1, <3>2 DEF ReadsInv, SegmentIsFull
    <3>4. segment[k] \in Duplicates(segment)
      BY <3>3, DuplicatesAre DEF ReadsInv, SegmentIsOpen
    <3> QED
      BY <1>1, <3>3, <3>4
  <2>2. CASE ~NoBarrier(q[1], Len(block))
    <3>1. Together(p, q)
      BY <2>2 DEF ReadsInv, OwnAreFound
    <3> QED
      BY <1>1, <3>1 DEF Together
  <2> QED
    BY <2>1, <2>2
<1>7. PathsAreFound'
  <2>1. \A p, q : Together(p, q) => Together(p, q)'
    BY <1>1 DEF Together
  <2> QED
    BY <1>2, <2>1 DEF ReadsInv, PathsAreFound, SameBlock
<1>8. BodiesAreFound'
  <2>1. \A p, q : Together(p, q) => Together(p, q)'
    BY <1>1 DEF Together
  <2> QED
    BY <1>2, <2>1 DEF ReadsInv, BodiesAreFound, SameBlock
<1> QED
  BY <1>3, <1>4, <1>5, <1>6, <1>7, <1>8 DEF ReadsInv

LEMMA ReadsStep == ReadsInv /\ [ReadsNext]_readsVars => ReadsInv'
<1> SUFFICES ASSUME ReadsInv, [ReadsNext]_readsVars PROVE ReadsInv'
  OBVIOUS
<1>1. CASE EndOfBlock
  BY <1>1, EndStep
<1>2. CASE \E s \in Statements : Statement(s)
  BY <1>2, StatementStep
<1>3. CASE UNCHANGED readsVars
  <2>1. block' = block /\ segment' = segment /\ reported' = reported /\ linted' = linted
    BY <1>3 DEF readsVars
  <2>2. SameBlock
    BY <2>1, BlockStays
  <2>3. \A p, q : Together(p, q) => Together(p, q)'
    BY <2>1 DEF Together
  <2>4. SegmentIsOpen' /\ SegmentIsFull' /\ ReportedAreSound'
    BY <2>1, <2>2 DEF ReadsInv, SegmentIsOpen, SegmentIsFull, ReportedAreSound, SameBlock
  <2>5. OwnAreFound' /\ PathsAreFound' /\ BodiesAreFound'
    BY <2>1, <2>2, <2>3 DEF ReadsInv, OwnAreFound, PathsAreFound, BodiesAreFound, SameBlock
  <2> QED
    BY <2>1, <2>4, <2>5 DEF ReadsInv
<1> QED
  BY <1>1, <1>2, <1>3 DEF ReadsNext

LEMMA ReadsInvariance == ReadsSpec => []ReadsInv
BY ReadsInitial, ReadsStep, PTL DEF ReadsSpec

-----------------------------------------------------------------------------
(* What is reported, and what is missed *)

LEMMA ReadsTypes == ReadsInv => ReadsTypeOK
<1> SUFFICES ASSUME ReadsInv PROVE ReadsTypeOK
  OBVIOUS
<1>1. UNION reported \subseteq Positions
  BY DEF ReadsInv, ReportedAreSound
<1>2. ASSUME NEW k \in DOMAIN segment, NEW q \in segment[k]
      PROVE  /\ q \in Positions
             /\ \A r \in segment[k] : Call(q).on = Call(r).on /\ Call(q).by = Call(r).by
             /\ \A n \in q[1]..Len(block) : ~IsBarrier(block[n])
  <2>1. q \in Positions /\ NoBarrier(q[1], Len(block)) /\ Key(Call(q)) = k
    BY <1>2 DEF ReadsInv, SegmentIsOpen
  <2>2. ASSUME NEW r \in segment[k]
        PROVE  Call(q).on = Call(r).on /\ Call(q).by = Call(r).by
    <3>1. Key(Call(q)) = Key(Call(r))
      BY <2>1 DEF ReadsInv, SegmentIsOpen
    <3> QED
      BY <3>1 DEF Key
  <2> QED
    BY <2>1, <2>2 DEF NoBarrier
<1> QED
  BY <1>1, <1>2 DEF ReadsTypeOK, ReadsInv

\* An open group of the rule holds equal reads of the block, and none from before
\* the last statement that writes or leaves.
THEOREM ReadsTypeCorrect == ReadsSpec => []ReadsTypeOK
BY ReadsTypes, ReadsInvariance, PTL

\* no-duplicate-repository-read: two reads that one report names are on one path
\* and nothing before the statement of the second one writes between them, for
\* every set of statements; a switch without braces is left out.
THEOREM ReportsAreOnOnePath == ReadsSpec => []ReportedReadsAreOnOnePath
<1>1. ReadsInv => ReportedReadsAreOnOnePath
  BY DEF ReadsInv, ReportedAreSound, Sound, ReportedReadsAreOnOnePath
<1> QED
  BY <1>1, ReadsInvariance, PTL

\* A part that every run of an element has.
LEMMA AlwaysRuns ==
  ASSUME NEW s \in Statements, NEW e \in DOMAIN s, NEW part \in DOMAIN s[e].parts,
         \A choice \in PartsRun(s[e]) : part \in choice
  PROVE  /\ part \in Always(s[e])
         /\ \A r \in DOMAIN s[e].parts :
              \E choice \in PartsRun(s[e]) : {part, r} \subseteq choice
<1>1. s[e].is \in ElementKinds
  BY StatementIs
<1>2. CASE s[e].is = "call"
  <2>1. PartsRun(s[e]) = {{1}} /\ DOMAIN s[e].parts = {1}
    BY <1>2, PartsAre DEF PartsRun
  <2> QED
    BY <1>2, <2>1 DEF Always
<1>3. CASE s[e].is = "ternary"
  <2>1. PartsRun(s[e]) = {{1, 2}, {1, 3}} /\ DOMAIN s[e].parts = {1, 2, 3}
    BY <1>3, PartsAre DEF PartsRun
  <2>2. part = 1
    BY <2>1
  <2> QED
    BY <1>3, <2>1, <2>2 DEF Always
<1>4. CASE s[e].is = "logical"
  <2>1. PartsRun(s[e]) = {{1}, {1, 2}} /\ DOMAIN s[e].parts = {1, 2}
    BY <1>4, PartsAre DEF PartsRun
  <2>2. part = 1
    BY <2>1
  <2> QED
    BY <1>4, <2>1, <2>2 DEF Always
<1>5. CASE s[e].is = "switch"
  <2>1. PartsRun(s[e]) = {{c} : c \in DOMAIN s[e].parts}
    BY <1>5 DEF PartsRun
  <2>2. \A r \in DOMAIN s[e].parts : r = part
    BY <2>1
  <2> QED
    BY <1>5, <2>1, <2>2 DEF Always
<1>6. CASE s[e].is \in {"block", "function"}
  <2>1. {} \in PartsRun(s[e])
    BY <1>6 DEF PartsRun
  <2> QED
    BY <2>1
<1> QED
  BY <1>1, <1>2, <1>3, <1>4, <1>5, <1>6 DEF ElementKinds

\* Parts that the same runs of an element have.
LEMMA OnePart ==
  ASSUME NEW s \in Statements, NEW e \in DOMAIN s,
         NEW i \in DOMAIN s[e].parts, NEW j \in DOMAIN s[e].parts,
         \A choice \in PartsRun(s[e]) : i \in choice <=> j \in choice
  PROVE  /\ i = j
         /\ \/ i \in Always(s[e])
            \/ i \in Conditional(s[e])
            \/ s[e].is \in {"block", "function"} /\ i = 1
         /\ \E choice \in PartsRun(s[e]) : i \in choice
<1>1. s[e].is \in ElementKinds
  BY StatementIs
<1>2. CASE s[e].is = "call"
  <2>1. PartsRun(s[e]) = {{1}} /\ DOMAIN s[e].parts = {1}
    BY <1>2, PartsAre DEF PartsRun
  <2> QED
    BY <1>2, <2>1 DEF Always
<1>3. CASE s[e].is = "ternary"
  <2>1. PartsRun(s[e]) = {{1, 2}, {1, 3}} /\ DOMAIN s[e].parts = {1, 2, 3}
    BY <1>3, PartsAre DEF PartsRun
  <2>2. i = j
    BY <2>1
  <2>3. \E choice \in PartsRun(s[e]) : i \in choice
    BY <2>1
  <2> QED
    BY <1>3, <2>1, <2>2, <2>3 DEF Always, Conditional
<1>4. CASE s[e].is = "logical"
  <2>1. PartsRun(s[e]) = {{1}, {1, 2}} /\ DOMAIN s[e].parts = {1, 2}
    BY <1>4, PartsAre DEF PartsRun
  <2>2. i = j
    BY <2>1
  <2>3. \E choice \in PartsRun(s[e]) : i \in choice
    BY <2>1
  <2> QED
    BY <1>4, <2>1, <2>2, <2>3 DEF Always, Conditional
<1>5. CASE s[e].is = "switch"
  <2>1. PartsRun(s[e]) = {{c} : c \in DOMAIN s[e].parts}
    BY <1>5 DEF PartsRun
  <2>2. {i} \in PartsRun(s[e])
    BY <2>1
  <2> QED
    BY <1>5, <2>2 DEF Always
<1>6. CASE s[e].is \in {"block", "function"}
  <2>1. PartsRun(s[e]) = {{}, {1}} /\ DOMAIN s[e].parts = {1}
    BY <1>6, PartsAre DEF PartsRun
  <2> QED
    BY <1>6, <2>1
<1> QED
  BY <1>1, <1>2, <1>3, <1>4, <1>5, <1>6 DEF ElementKinds

LEMMA PartIs ==
  ASSUME block \in Seq(Statements), NEW q \in Positions
  PROVE  DOMAIN Part(q) = 1..Len(Part(q)) /\ Len(Part(q)) \in Nat
<1>1. /\ block[q[1]] \in Statements /\ q[2] \in DOMAIN block[q[1]]
      /\ q[3] \in DOMAIN ElementOf(q).parts
  BY PositionsAre DEF PositionsFit
<1>2. PICK s, e : s \in Statements /\ s = block[q[1]] /\ e = q[2]
  BY <1>1
<1>3. /\ ElementOf(q) = s[e] /\ e \in DOMAIN s /\ s[e].parts \in Seq(Seq(Calls))
  BY <1>1, <1>2, StatementIs DEF ElementOf
<1>4. s[e].parts[q[3]] \in Seq(Calls)
  BY <1>1, <1>3
<1> QED
  BY <1>3, <1>4 DEF Part

LEMMA EveryDuplicate == ReadsInv => EveryDuplicateIsReported
<1> SUFFICES ASSUME ReadsInv, linted,
                    NEW p \in Positions, NEW q \in Positions,
                    Before(p, q), IsRead(Call(p)), Call(p) = Call(q),
                    AlwaysTogether(p, q),
                    \A x \in Between(p, q) : ~ChangesRows(x),
                    \A x \in Positions :
                      x[1] = p[1] /\ Before(x, p) => Call(x) # Exit /\ ~ChangesRows(x)
             PROVE  Together(p, q)
  BY DEF EveryDuplicateIsReported, Together
<1>1. /\ p = <<p[1], p[2], p[3], p[4]>> /\ q = <<q[1], q[2], q[3], q[4]>>
      /\ p[1] \in 1..Len(block) /\ q[1] \in 1..Len(block) /\ Len(block) \in Nat
      /\ block[p[1]] \in Statements /\ block[q[1]] \in Statements
      /\ p[2] \in DOMAIN block[p[1]] /\ q[2] \in DOMAIN block[q[1]]
      /\ p[2] \in Nat /\ q[2] \in Nat /\ p[3] \in Nat /\ q[3] \in Nat
      /\ p[4] \in Nat /\ q[4] \in Nat
      /\ p[3] \in DOMAIN ElementOf(p).parts /\ q[3] \in DOMAIN ElementOf(q).parts
      /\ p[4] \in DOMAIN Part(p) /\ q[4] \in DOMAIN Part(q)
      /\ Call(p) = Part(p)[p[4]]
  BY PositionsAre DEF PositionsFit, ReadsInv
<1>2. p # q /\ p[1] <= q[1]
  BY <1>1, BeforeIs
<1>3. Call(p) # Exit /\ ~IsWrite(Call(p)) /\ IsRead(Call(q)) /\ Key(Call(p)) = Key(Call(q))
  BY DEF IsRead, Exit, IsWrite
<1>4. ASSUME NEW x \in Positions, Before(p, x), Before(x, q),
             SomeRunHasBoth(p, x), SomeRunHasBoth(x, q),
             ElementOf(x).is = "function" => SameElement(p, x)
      PROVE  Call(x) # Exit /\ ~IsWrite(Call(x))
  <2>1. x \in Between(p, q)
    BY <1>4 DEF Between
  <2> QED
    BY <2>1 DEF AlwaysTogether, ChangesRows, IsWrite, Database
<1>5. ASSUME NEW n \in 1..Len(block), NEW e \in DOMAIN block[n],
             NEW i \in DOMAIN block[n][e].parts, NEW c \in DOMAIN block[n][e].parts[i]
      PROVE  <<n, e, i, c>> \in Positions
  <2>1. n \in DOMAIN block
    BY DEF ReadsInv
  <2> QED
    BY <2>1, PositionIs
<1>6. CASE SameElement(p, q)
  <2>1. /\ p[1] = q[1] /\ p[2] = q[2] /\ ElementOf(p) = ElementOf(q)
        /\ ElementOf(p) = block[p[1]][p[2]]
    BY <1>6 DEF SameElement, ElementOf
  <2>2. \A choice \in PartsRun(ElementOf(p)) : p[3] \in choice <=> q[3] \in choice
    <3>1. SameElement(q, p)
      BY <1>6 DEF SameElement
    <3> QED
      BY <1>6, <2>1, <3>1 DEF AlwaysTogether, RunsWith
  <2>3. /\ p[3] = q[3]
        /\ \/ p[3] \in Always(ElementOf(p))
           \/ p[3] \in Conditional(ElementOf(p))
           \/ ElementOf(p).is \in {"block", "function"} /\ p[3] = 1
        /\ \E choice \in PartsRun(ElementOf(p)) : p[3] \in choice
    BY <1>1, <2>1, <2>2, OnePart
  <2>4. CASE p[3] \in Always(ElementOf(p))
    <3>1. IsOwnRead(p) /\ IsOwnRead(q)
      BY <1>3, <2>1, <2>3, <2>4 DEF IsOwnRead
    <3>2. p[1]..(q[1] - 1) = {}
      BY <1>1, <2>1
    <3>3. NoBarrier(p[1], q[1] - 1)
      BY <3>2 DEF NoBarrier
    <3> QED
      BY <1>2, <1>3, <3>1, <3>3 DEF ReadsInv, OwnAreFound
  <2>5. CASE p[3] \in Conditional(ElementOf(p))
    BY <1>2, <1>3, <1>6, <2>3, <2>5 DEF ReadsInv, PathsAreFound
  <2>6. CASE ElementOf(p).is \in {"block", "function"} /\ p[3] = 1
    <3>1. p[4] < q[4]
      BY <1>1, <2>1, <2>3, BeforeIs
    <3>2. ASSUME NEW c \in p[4]..(q[4] - 1)
          PROVE  Part(p)[c] # Exit /\ ~IsWrite(Part(p)[c])
      <4>1. CASE c = p[4]
        BY <1>1, <1>3, <4>1
      <4>2. CASE c # p[4]
        <5>1. p[4] < c /\ c < q[4] /\ c \in Nat
          BY <1>1, <3>1, <4>2
        <5>2. Part(p) = Part(q) /\ Part(p) = block[p[1]][p[2]].parts[p[3]]
          BY <2>1, <2>3 DEF Part
        <5>3. c \in DOMAIN Part(p)
          <6>1. DOMAIN Part(p) = 1..Len(Part(p)) /\ Len(Part(p)) \in Nat
            BY PartIs DEF ReadsInv
          <6>2. p[4] \in 1..Len(Part(p)) /\ q[4] \in 1..Len(Part(p))
            BY <1>1, <5>2, <6>1
          <6> QED
            BY <5>1, <6>1, <6>2
        <5>4. PICK x : x = <<p[1], p[2], p[3], c>>
          OBVIOUS
        <5>5. x[1] = p[1] /\ x[2] = p[2] /\ x[3] = p[3] /\ x[4] = c
          BY <5>4
        <5>6. x \in Positions
          BY <1>1, <1>5, <2>1, <5>2, <5>3, <5>4
        <5>7. Before(p, x) /\ Before(x, q)
          BY <1>1, <2>1, <2>3, <5>1, <5>5, BeforeIs
        <5>8. SameElement(p, x) /\ ElementOf(x) = ElementOf(p)
          BY <5>5 DEF SameElement, ElementOf
        <5>9. SomeRunHasBoth(p, x) /\ SomeRunHasBoth(x, q)
          BY <2>3, <5>5, <5>8 DEF SomeRunHasBoth
        <5>10. Call(x) = Part(p)[c]
          BY <5>2, <5>5 DEF Call, CallAt
        <5> QED
          BY <1>4, <5>6, <5>7, <5>8, <5>9, <5>10
      <4> QED
        BY <4>1, <4>2
    <3> QED
      BY <1>3, <1>6, <2>3, <2>6, <3>1, <3>2 DEF ReadsInv, BodiesAreFound
  <2> QED
    BY <2>3, <2>4, <2>5, <2>6
<1>7. CASE ~SameElement(p, q)
  <2>1. ~SameElement(q, p)
    BY <1>7 DEF SameElement
  <2>2. /\ \A choice \in PartsRun(ElementOf(p)) : p[3] \in choice
        /\ \A choice \in PartsRun(ElementOf(q)) : q[3] \in choice
    BY <1>7, <2>1 DEF AlwaysTogether, RunsWith
  <2>3. /\ ElementOf(p) = block[p[1]][p[2]] /\ ElementOf(q) = block[q[1]][q[2]]
    BY DEF ElementOf
  <2>4. /\ p[3] \in Always(ElementOf(p)) /\ q[3] \in Always(ElementOf(q))
        /\ \A r \in DOMAIN ElementOf(p).parts :
             \E choice \in PartsRun(ElementOf(p)) : {p[3], r} \subseteq choice
    BY <1>1, <2>2, <2>3, AlwaysRuns
  <2>5. ASSUME NEW n \in p[1]..(q[1] - 1), IsBarrier(block[n])
        PROVE  FALSE
    <3>1. n \in 1..Len(block) /\ p[1] <= n /\ n < q[1]
      BY <1>1
    <3>2. PICK e \in DOMAIN block[n] : \E i \in DOMAIN block[n][e].parts :
            /\ block[n][e].is # "function"
            /\ \E call \in ToSet(block[n][e].parts[i]) : call = Exit \/ IsWrite(call)
      BY <2>5 DEF IsBarrier
    <3>3. PICK i \in DOMAIN block[n][e].parts :
            /\ block[n][e].is # "function"
            /\ \E call \in ToSet(block[n][e].parts[i]) : call = Exit \/ IsWrite(call)
      BY <3>2
    <3>4. PICK c \in DOMAIN block[n][e].parts[i] :
            block[n][e].parts[i][c] = Exit \/ IsWrite(block[n][e].parts[i][c])
      BY <3>3 DEF ToSet
    <3>5. PICK x : x = <<n, e, i, c>>
      OBVIOUS
    <3>6. x[1] = n /\ x[2] = e /\ x[3] = i /\ x[4] = c
      BY <3>5
    <3>7. /\ x \in Positions /\ ElementOf(x) = block[n][e]
          /\ Call(x) = Exit \/ IsWrite(Call(x))
      BY <1>5, <3>1, <3>4, <3>5, <3>6 DEF ElementOf, Call, CallAt
    <3>8. x[1] \in Nat /\ x[2] \in Nat /\ x[3] \in Nat /\ x[4] \in Nat
      BY <3>7, PositionsAre DEF PositionsFit, ReadsInv
    <3>9. Before(x, q) /\ SomeRunHasBoth(x, q)
      <4>1. ~SameElement(x, q)
        BY <3>1, <3>6 DEF SameElement
      <4> QED
        BY <3>1, <3>6, <4>1, BeforeIs DEF SomeRunHasBoth
    <3>10. x # p
      BY <1>3, <3>7
    <3>11. ~Before(x, p)
      <4> SUFFICES ASSUME Before(x, p) PROVE FALSE
        OBVIOUS
      <4>1. x[1] = p[1]
        <5>1. p[1] \in Nat
          BY <1>1
        <5>2. x[1] <= p[1] /\ p[1] <= x[1]
          BY <3>1, <3>6, <3>8, <5>1, BeforeIs
        <5> QED
          BY <3>8, <5>1, <5>2
      <4>2. Call(x) # Exit /\ ~ChangesRows(x)
        BY <3>7, <4>1
      <4> QED
        BY <3>7, <4>2 DEF ChangesRows, IsWrite, Database
    <3>12. Before(p, x)
      <4>1. x[1] # p[1] \/ x[2] # p[2] \/ x[3] # p[3] \/ x[4] # p[4]
        BY <1>1, <3>5, <3>6, <3>10
      <4>2. p[1] \in Nat /\ p[2] \in Nat /\ p[3] \in Nat /\ p[4] \in Nat
        BY <1>1
      <4> QED
        BY <3>8, <3>11, <4>1, <4>2, BeforeIs
    <3>13. SomeRunHasBoth(p, x)
      <4> SUFFICES ASSUME SameElement(p, x)
                   PROVE  \E choice \in PartsRun(ElementOf(p)) : {p[3], x[3]} \subseteq choice
        BY DEF SomeRunHasBoth
      <4>1. ElementOf(p) = ElementOf(x)
        BY DEF SameElement, ElementOf
      <4> QED
        BY <2>4, <3>6, <3>7, <4>1
    <3> QED
      BY <1>4, <3>3, <3>7, <3>9, <3>12, <3>13
  <2>6. NoBarrier(p[1], q[1] - 1)
    BY <2>5 DEF NoBarrier
  <2>7. IsOwnRead(p) /\ IsOwnRead(q)
    BY <1>3, <2>4 DEF IsOwnRead
  <2> QED
    BY <1>2, <1>3, <2>6, <2>7 DEF ReadsInv, OwnAreFound
<1> QED
  BY <1>6, <1>7

\* no-duplicate-repository-read: two equal reads that are always made together,
\* with no write and no exit between them, are reported, but for a first read that
\* comes after a write or an exit of its own statement.
THEOREM DuplicatesAreReported == ReadsSpec => []EveryDuplicateIsReported
BY EveryDuplicate, ReadsInvariance, PTL

=============================================================================
