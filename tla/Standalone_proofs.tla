------------------------- MODULE Standalone_proofs --------------------------
(***************************************************************************)
(* The walk through the pages of messages, the deletion of a folder of the *)
(* bucket, the ip ban and the keys of the response cache, for every value  *)
(* of their constants.                                                     *)
(***************************************************************************)
EXTENDS MCStandalone, FiniteSetTheorems, NaturalsInduction, SequenceTheorems,
        WellFoundedInduction, TLAPS

-----------------------------------------------------------------------------
(* Naturals *)

LEMMA LeastOf ==
  ASSUME NEW S \in SUBSET Nat, S # {}
  PROVE  \E m \in S : \A k \in S : m <= k
<1>1. PICK m \in S : \A k \in S : ~(<<k, m>> \in OpToRel(<, Nat))
  BY NatLessThanWellFounded, WFMin
<1>2. ASSUME NEW k \in S PROVE m <= k
  <2>1. <<k, m>> \in Nat \X Nat
    OBVIOUS
  <2>2. ~(k < m)
    BY <1>1, <2>1 DEF OpToRel
  <2> QED
    BY <2>2
<1> QED
  BY <1>2

\* Induction over the naturals in a form that needs no operator.
LEMMA SetInduction ==
  ASSUME NEW S, 0 \in S, \A n \in Nat : n \in S => n + 1 \in S
  PROVE  Nat \subseteq S
<1> SUFFICES ASSUME Nat \ S # {} PROVE FALSE
  OBVIOUS
<1>1. PICK m \in Nat \ S : \A k \in Nat \ S : m <= k
  <2> DEFINE Missing == Nat \ S
  <2>1. Missing \in SUBSET Nat /\ Missing # {}
    OBVIOUS
  <2> HIDE DEF Missing
  <2>2. \E m \in Missing : \A k \in Missing : m <= k
    BY <2>1, LeastOf
  <2> QED
    BY <2>2 DEF Missing
<1>2. m # 0
  OBVIOUS
<1>3. m - 1 \in Nat /\ ~(m <= m - 1)
  BY <1>2
<1>4. m - 1 \in S
  BY <1>1, <1>3
<1>5. (m - 1) + 1 = m
  OBVIOUS
<1> QED
  BY <1>3, <1>4, <1>5

-----------------------------------------------------------------------------
(* The pages of messages *)

LEMMA IdsAreFinite ==
  ASSUME NEW S \in SUBSET Ids
  PROVE  IsFiniteSet(S) /\ Cardinality(S) \in Nat
<1>1. IsFiniteSet(1..MaxId)
  BY PaginationAssumption, FS_Interval
<1>2. IsFiniteSet(S)
  BY <1>1, FS_Subset DEF Ids
<1> QED
  BY <1>2, FS_CardinalityType

LEMMA LeastId ==
  ASSUME NEW S \in SUBSET Ids, S # {}
  PROVE  Min(S) \in S /\ \A id \in S : Min(S) <= id
<1>1. S \in SUBSET Nat
  BY PaginationAssumption DEF Ids
<1>2. \E m \in S : \A id \in S : m <= id
  BY <1>1, LeastOf
<1> QED
  BY <1>2 DEF Min

LEMMA GreatestId ==
  ASSUME NEW S \in SUBSET Ids, S # {}
  PROVE  \E m \in S : \A id \in S : id <= m
<1> DEFINE Mirrored == {MaxId - id : id \in S}
<1>1. MaxId \in Nat /\ \A id \in S : id \in Nat /\ MaxId - id \in Nat
  BY PaginationAssumption DEF Ids
<1>2. PICK k \in Mirrored : \A l \in Mirrored : k <= l
  <2>1. Mirrored \in SUBSET Nat /\ Mirrored # {}
    BY <1>1
  <2> HIDE DEF Mirrored
  <2> QED
    BY <2>1, LeastOf
<1>3. PICK m \in S : k = MaxId - m
  OBVIOUS
<1>4. \A id \in S : MaxId - m <= MaxId - id
  BY <1>2, <1>3
<1> QED
  BY <1>1, <1>4

Newer(S, x) == {k \in S : k > x}

LEMMA FewerAreNewer ==
  ASSUME NEW S \in SUBSET Ids, NEW x \in S, NEW y \in S, x < y
  PROVE  Cardinality(Newer(S, y)) < Cardinality(Newer(S, x))
<1>1. \A id \in S : id \in Nat
  BY PaginationAssumption DEF Ids
<1>2. Newer(S, y) \subseteq Newer(S, x) /\ y \in Newer(S, x) /\ y \notin Newer(S, y)
  BY <1>1 DEF Newer
<1>3. Newer(S, x) \in SUBSET Ids /\ Newer(S, y) \in SUBSET Ids
  BY DEF Newer
<1>4. /\ IsFiniteSet(Newer(S, x)) /\ Cardinality(Newer(S, x)) \in Nat
      /\ Cardinality(Newer(S, y)) \in Nat
  BY <1>3, IdsAreFinite
<1>5. /\ Cardinality(Newer(S, y)) <= Cardinality(Newer(S, x))
      /\ Cardinality(Newer(S, x)) = Cardinality(Newer(S, y)) => Newer(S, x) = Newer(S, y)
  BY <1>2, <1>4, FS_Subset
<1> QED
  BY <1>2, <1>4, <1>5

\* An element has a place in the order, and every place an element.
LEMMA EveryPlaceIsTaken ==
  ASSUME NEW S \in SUBSET Ids
  PROVE  /\ \A x \in S : Cardinality(Newer(S, x)) \in 0..(Cardinality(S) - 1)
         /\ \A i \in 1..Cardinality(S) : \E x \in S : Cardinality(Newer(S, x)) = i - 1
<1> DEFINE n == Cardinality(S)
           place == [x \in S |-> Cardinality(Newer(S, x)) + 1]
<1>1. IsFiniteSet(S) /\ n \in Nat
  BY IdsAreFinite
<1>2. ASSUME NEW x \in S
      PROVE  Cardinality(Newer(S, x)) \in 0..(n - 1)
  <2>1. Newer(S, x) \in SUBSET S /\ x \notin Newer(S, x)
    BY PaginationAssumption DEF Newer, Ids
  <2>2. /\ Cardinality(Newer(S, x)) <= n
        /\ n = Cardinality(Newer(S, x)) => S = Newer(S, x)
    BY <1>1, <2>1, FS_Subset
  <2>3. Cardinality(Newer(S, x)) \in Nat
    BY <2>1, IdsAreFinite
  <2> QED
    BY <1>1, <2>1, <2>2, <2>3
<1>3. place \in [S -> 1..n]
  BY <1>1, <1>2
<1>4. \A x, y \in S : place[x] = place[y] => x = y
  <2>1. ASSUME NEW x \in S, NEW y \in S, x < y
        PROVE  place[x] # place[y]
    <3>1. Cardinality(Newer(S, y)) < Cardinality(Newer(S, x))
      BY <2>1, FewerAreNewer
    <3> QED
      BY <1>2, <3>1
  <2>2. \A x, y \in S : x = y \/ x < y \/ y < x
    BY PaginationAssumption DEF Ids
  <2> HIDE DEF place
  <2> QED
    BY <2>1, <2>2
<1>5. place \in Injection(S, 1..n)
  BY <1>3, <1>4 DEF Injection, IsInjective
<1>6. IsFiniteSet(1..n) /\ Cardinality(1..n) = n
  <2>1. IsFiniteSet(1..n) /\ Cardinality(1..n) = IF 1 > n THEN 0 ELSE n - 1 + 1
    BY <1>1, FS_Interval
  <2> HIDE DEF n
  <2> QED
    BY <1>1, <2>1
<1>7. place \in Surjection(S, 1..n)
  BY <1>5, <1>6, FS_Injection
<1>8. ASSUME NEW i \in 1..n
      PROVE  \E x \in S : Cardinality(Newer(S, x)) = i - 1
  <2>1. PICK x \in S : place[x] = i
    BY <1>7 DEF Surjection
  <2> QED
    BY <1>2, <2>1
<1> QED
  BY <1>2, <1>8

LEMMA NewestFirstIs ==
  ASSUME NEW S \in SUBSET Ids
  PROVE  /\ NewestFirst(S) \in Seq(S) /\ ToSet(NewestFirst(S)) = S
         /\ \A i, j \in 1..Len(NewestFirst(S)) :
              i < j => NewestFirst(S)[i] > NewestFirst(S)[j]
<1> DEFINE n == Cardinality(S)
           q == NewestFirst(S)
<1>1. n \in Nat
  BY IdsAreFinite
<1>2. q = [i \in 1..n |-> CHOOSE id \in S : Cardinality(Newer(S, id)) = i - 1]
  BY DEF NewestFirst, Newer
<1>3. ASSUME NEW i \in 1..n
      PROVE  q[i] \in S /\ Cardinality(Newer(S, q[i])) = i - 1
  <2>1. \E id \in S : Cardinality(Newer(S, id)) = i - 1
    BY EveryPlaceIsTaken
  <2> QED
    BY <1>2, <2>1
<1>4. DOMAIN q = 1..n /\ q \in [1..n -> S]
  BY <1>2, <1>3
<1> HIDE DEF q, n
<1>5. q \in Seq(S) /\ Len(q) = n
  BY <1>1, <1>4
<1>6. \A x, y \in S : x = y \/ x < y \/ y < x
  BY PaginationAssumption DEF Ids
<1>7. ASSUME NEW i \in 1..n, NEW j \in 1..n, i < j
      PROVE  q[i] > q[j]
  <2>1. q[i] # q[j]
    BY <1>3, <1>7
  <2>2. ~(q[i] < q[j])
    <3> SUFFICES ASSUME q[i] < q[j] PROVE FALSE
      OBVIOUS
    <3>1. Cardinality(Newer(S, q[j])) < Cardinality(Newer(S, q[i]))
      BY <1>3, FewerAreNewer
    <3> QED
      BY <1>1, <1>3, <1>7, <3>1
  <2> QED
    BY <1>3, <1>6, <2>1, <2>2
<1>8. ASSUME NEW x \in S
      PROVE  \E i \in 1..n : q[i] = x
  <2> DEFINE i == Cardinality(Newer(S, x)) + 1
  <2>1. Cardinality(Newer(S, x)) \in 0..(n - 1)
    BY EveryPlaceIsTaken DEF n
  <2>2. i \in 1..n /\ i - 1 = Cardinality(Newer(S, x))
    BY <1>1, <2>1
  <2> HIDE DEF i
  <2>3. q[i] \in S /\ Cardinality(Newer(S, q[i])) = Cardinality(Newer(S, x))
    BY <1>3, <2>2
  <2>4. Cardinality(Newer(S, x)) \in Int
    BY <2>1
  <2>5. q[i] = x
    <3>1. CASE q[i] < x
      BY <2>3, <2>4, <3>1, FewerAreNewer
    <3>2. CASE x < q[i]
      BY <2>3, <2>4, <3>2, FewerAreNewer
    <3> QED
      BY <1>6, <2>3, <3>1, <3>2
  <2> QED
    BY <2>2, <2>5
<1>9. ToSet(q) = S
  BY <1>3, <1>4, <1>8 DEF ToSet
<1> QED
  BY <1>5, <1>7, <1>9 DEF q

LEMMA NextCursorIs ==
  ASSUME NEW S \in SUBSET Ids, NEW c
  PROVE  /\ NextCursor(S, c) \in 0..MaxId
         /\ \A id \in S : id >= NextCursor(S, c)
         /\ \/ NextCursor(S, c) = End
            \/ NextCursor(S, c) \in S /\ Cardinality(S) = Limit
<1>1. /\ MaxId \in Nat /\ Limit \in Nat \ {0} /\ Cardinality({}) = 0
      /\ \A id \in S : id \in Nat /\ id \in 0..MaxId
  BY PaginationAssumption, FS_EmptySet DEF Ids
<1>2. CASE Cardinality(S) = Limit
  <2>1. S # {}
    BY <1>1, <1>2
  <2>2. NextCursor(S, c) = Min(S) /\ Min(S) \in S /\ \A id \in S : Min(S) <= id
    BY <1>2, <2>1, LeastId DEF NextCursor
  <2> QED
    BY <1>1, <1>2, <2>2
<1>3. CASE Cardinality(S) # Limit
  BY <1>1, <1>3 DEF NextCursor, End
<1> QED
  BY <1>2, <1>3

\* What is not on the page is older than all that is, and then the page is full.
LEMMA FindManyIs ==
  ASSUME rows \subseteq Ids, NEW c \in 1..Start
  PROVE  /\ FindMany(c) \subseteq Older(c)
         /\ ~Gone(c) => \A id \in Older(c) :
              id >= NextCursor(FindMany(c), c) => id \in FindMany(c)
<1> DEFINE S == Older(c)
           firstOnes == {id \in S : Cardinality(Newer(S, id)) < Limit}
<1>1. S \subseteq Ids /\ firstOnes \subseteq S /\ firstOnes \in SUBSET Ids
  BY DEF Older
<1>2. FindMany(c) = (IF Gone(c) THEN {} ELSE firstOnes)
  BY DEF FindMany, Newer
<1>3. ASSUME NEW x \in S, x \notin firstOnes, Cardinality(firstOnes) # Limit
      PROVE  FALSE
  <2>1. \A id \in S : id \in Nat /\ Cardinality(Newer(S, id)) \in Nat
    <3>1. \A id \in S : Newer(S, id) \in SUBSET Ids
      BY <1>1 DEF Newer
    <3> QED
      BY <1>1, <3>1, IdsAreFinite, PaginationAssumption DEF Ids
  <2>2. IsFiniteSet(firstOnes) /\ Cardinality(firstOnes) \in Nat /\ Limit \in Nat \ {0}
    BY <1>1, IdsAreFinite, PaginationAssumption
  <2>3. Cardinality(firstOnes) >= Limit
    <3>1. S \ firstOnes # {} /\ S \ firstOnes \in SUBSET Ids
      BY <1>1, <1>3
    <3>2. PICK m \in S \ firstOnes : \A id \in S \ firstOnes : id <= m
      BY <3>1, GreatestId
    <3>3. Newer(S, m) \subseteq firstOnes
      BY <2>1, <3>2 DEF Newer
    <3>4. Cardinality(Newer(S, m)) <= Cardinality(firstOnes)
      BY <2>2, <3>3, FS_Subset
    <3>5. Cardinality(Newer(S, m)) >= Limit
      BY <2>1, <2>2, <3>2
    <3> QED
      BY <2>1, <2>2, <3>2, <3>4, <3>5
  <2>4. Cardinality(firstOnes) <= Limit
    <3>1. firstOnes # {}
      BY <2>2, <2>3, FS_EmptySet
    <3>2. Min(firstOnes) \in firstOnes /\ \A id \in firstOnes : Min(firstOnes) <= id
      BY <1>1, <3>1, LeastId
    <3>3. firstOnes \ {Min(firstOnes)} \subseteq Newer(S, Min(firstOnes))
      <4>1. Min(firstOnes) \in Nat /\ \A id \in firstOnes : id \in S /\ id \in Nat
        BY <2>1, <3>2
      <4> HIDE DEF firstOnes, S
      <4>2. \A id \in firstOnes \ {Min(firstOnes)} : id > Min(firstOnes)
        BY <3>2, <4>1
      <4> QED
        BY <4>1, <4>2 DEF Newer
    <3>4. /\ Newer(S, Min(firstOnes)) \in SUBSET Ids
          /\ Cardinality(Newer(S, Min(firstOnes))) < Limit
      BY <1>1, <3>2 DEF Newer
    <3>5. Cardinality(firstOnes \ {Min(firstOnes)}) <= Cardinality(Newer(S, Min(firstOnes)))
      BY <3>3, <3>4, IdsAreFinite, FS_Subset
    <3>6. Cardinality(firstOnes \ {Min(firstOnes)}) = Cardinality(firstOnes) - 1
      BY <2>2, <3>2, FS_RemoveElement
    <3> HIDE DEF firstOnes
    <3> QED
      BY <1>1, <2>1, <2>2, <3>2, <3>4, <3>5, <3>6
  <2> QED
    BY <1>3, <2>2, <2>3, <2>4
<1>4. ASSUME NEW x \in S, x >= NextCursor(firstOnes, c), x \notin firstOnes
      PROVE  FALSE
  <2>1. Cardinality(firstOnes) = Limit
    BY <1>3, <1>4
  <2>2. firstOnes # {}
    BY <2>1, FS_EmptySet, PaginationAssumption
  <2>3. Min(firstOnes) \in firstOnes /\ NextCursor(firstOnes, c) = Min(firstOnes)
    BY <1>1, <2>1, <2>2, LeastId DEF NextCursor
  <2>4. Min(firstOnes) < x
    BY <1>1, <1>4, <2>3, PaginationAssumption DEF Ids
  <2>5. Cardinality(Newer(S, x)) < Cardinality(Newer(S, Min(firstOnes)))
    BY <1>1, <2>3, <2>4, FewerAreNewer
  <2>6. Cardinality(Newer(S, Min(firstOnes))) < Limit
    BY <2>3
  <2>7. Cardinality(Newer(S, x)) \in Nat /\ Cardinality(Newer(S, Min(firstOnes))) \in Nat
    <3>1. Newer(S, x) \in SUBSET Ids /\ Newer(S, Min(firstOnes)) \in SUBSET Ids
      BY <1>1 DEF Newer
    <3> QED
      BY <3>1, IdsAreFinite
  <2>8. Cardinality(Newer(S, x)) < Limit
    BY <2>5, <2>6, <2>7, PaginationAssumption
  <2> QED
    BY <1>4, <2>8
<1> HIDE DEF firstOnes
<1> QED
  BY <1>1, <1>2, <1>4

\* A page holds what it was read from down to its next cursor.
IsPageOf(entry, c) ==
  /\ \A id \in entry.ids : id < c
  /\ ~entry.cut => \A id \in entry.kept :
       id < c /\ id >= NextCursor(entry.ids, c) => id \in entry.ids

PagesAreWhole ==
  \A c \in 1..Start : cached[c] # NoPage => IsPageOf(cached[c], c)

ListStartsEmpty == cursor = Start => listed = <<>>

WalkInv ==
  PaginationTypeOK /\ PagesAreWhole /\ ListStartsEmpty /\ ListedInOrder /\ NoRowIsSkipped

LEMMA ReadIs ==
  ASSUME rows \subseteq Ids, NEW c \in 1..Start
  PROVE  Read(c) \in Entries /\ IsPageOf(Read(c), c) /\ Read(c).kept \subseteq rows
<1>1. Read(c) = [ids |-> FindMany(c), kept |-> rows, cut |-> Gone(c)]
  BY DEF Read
<1>2. FindMany(c) \subseteq Older(c) /\ Older(c) = {id \in rows : id < c}
  BY FindManyIs DEF Older
<1>3. Gone(c) \in BOOLEAN
  BY DEF Gone
<1>4. Read(c) \in Entries
  BY <1>1, <1>2, <1>3 DEF Entries
<1>5. IsPageOf(Read(c), c)
  BY <1>1, <1>2, FindManyIs DEF IsPageOf
<1> QED
  BY <1>1, <1>4, <1>5

LEMMA WalkInitial == WalkInit => WalkInv
<1> SUFFICES ASSUME WalkInit PROVE WalkInv
  OBVIOUS
<1>1. /\ rows \subseteq Ids /\ cached = [c \in 1..Start |-> NoPage] /\ cursor = Start
      /\ listed = <<>> /\ stayed = rows /\ cut = FALSE
  BY DEF WalkInit
<1>2. /\ cursor \in End..Start /\ listed \in Seq(Ids) /\ Len(listed) = 0
      /\ \A id \in Ids : ~(id >= Start)
  BY <1>1, PaginationAssumption DEF End, Start, Ids
<1>3. cached \in [1..Start -> Entries \cup {NoPage}]
  BY <1>1
<1>4. PaginationTypeOK
  BY <1>1, <1>2, <1>3 DEF PaginationTypeOK
<1>5. PagesAreWhole /\ ListStartsEmpty
  BY <1>1 DEF PagesAreWhole, ListStartsEmpty
<1>6. ListedInOrder
  BY <1>2 DEF ListedInOrder
<1>7. NoRowIsSkipped
  BY <1>1, <1>2 DEF NoRowIsSkipped
<1> QED
  BY <1>4, <1>5, <1>6, <1>7 DEF WalkInv

LEMMA ToSetAppended ==
  ASSUME NEW S, NEW s \in Seq(S), NEW t \in Seq(S)
  PROVE  ToSet(s \o t) = ToSet(s) \cup ToSet(t)
<1>1. /\ s \o t \in Seq(S) /\ Len(s \o t) = Len(s) + Len(t)
      /\ Len(s) \in Nat /\ Len(t) \in Nat
      /\ \A i \in 1..Len(s) : (s \o t)[i] = s[i]
      /\ \A i \in 1..Len(t) : (s \o t)[Len(s) + i] = t[i]
  OBVIOUS
<1>2. DOMAIN (s \o t) = 1..(Len(s) + Len(t)) /\ DOMAIN s = 1..Len(s) /\ DOMAIN t = 1..Len(t)
  BY <1>1
<1>3. \A i \in 1..(Len(s) + Len(t)) :
        i \in 1..Len(s) \/ (i - Len(s) \in 1..Len(t) /\ Len(s) + (i - Len(s)) = i)
  BY <1>1
<1>4. ASSUME NEW i \in 1..(Len(s) + Len(t))
      PROVE  (s \o t)[i] \in ToSet(s) \cup ToSet(t)
  <2>1. CASE i \in 1..Len(s)
    BY <1>1, <1>2, <2>1 DEF ToSet
  <2>2. CASE i - Len(s) \in 1..Len(t) /\ Len(s) + (i - Len(s)) = i
    <3>1. (s \o t)[i] = t[i - Len(s)]
      BY <1>1, <2>2
    <3> QED
      BY <1>2, <2>2, <3>1 DEF ToSet
  <2> QED
    BY <1>3, <2>1, <2>2
<1>5. ASSUME NEW i \in 1..Len(s) PROVE s[i] \in ToSet(s \o t)
  <2>1. i \in 1..(Len(s) + Len(t)) /\ (s \o t)[i] = s[i]
    BY <1>1
  <2> QED
    BY <1>2, <2>1 DEF ToSet
<1>6. ASSUME NEW i \in 1..Len(t) PROVE t[i] \in ToSet(s \o t)
  <2>1. Len(s) + i \in 1..(Len(s) + Len(t)) /\ (s \o t)[Len(s) + i] = t[i]
    BY <1>1
  <2> QED
    BY <1>2, <2>1 DEF ToSet
<1>7. ToSet(s \o t) \subseteq ToSet(s) \cup ToSet(t)
  BY <1>2, <1>4 DEF ToSet
<1>8. ToSet(s) \subseteq ToSet(s \o t) /\ ToSet(t) \subseteq ToSet(s \o t)
  BY <1>2, <1>5, <1>6 DEF ToSet
<1> QED
  BY <1>7, <1>8

\* A page goes on where the list has ended.
LEMMA ShowStep ==
  ASSUME WalkInv, cursor # End, NEW entry \in Entries, IsPageOf(entry, cursor),
         entry.kept \cap stayed \subseteq rows', Show(entry), rows' \subseteq Ids,
         cached' \in [1..Start -> Entries \cup {NoPage}], PagesAreWhole'
  PROVE  WalkInv'
<1> DEFINE ids == entry.ids
           shown == NewestFirst(entry.ids)
           n == Len(listed)
<1>1. /\ cursor \in 1..Start /\ listed \in Seq(Ids) /\ cut \in BOOLEAN
      /\ MaxId \in Nat /\ n \in Nat
      /\ \A id \in Ids : id \in 1..MaxId
      /\ Start = MaxId + 1 /\ End = 0
      /\ \A i \in 1..n : listed[i] \in Ids
  <2>1. listed \in Seq(Ids) /\ cursor \in End..Start /\ cut \in BOOLEAN
    BY DEF WalkInv, PaginationTypeOK
  <2> QED
    BY <2>1, PaginationAssumption DEF End, Start, Ids
<1>2. /\ ids \in SUBSET Ids /\ entry.kept \in SUBSET Ids /\ entry.cut \in BOOLEAN
  BY DEF Entries
<1>3. /\ cursor' = NextCursor(ids, cursor) /\ listed' = listed \o shown
      /\ stayed' = stayed \cap entry.kept /\ cut' = (cut \/ entry.cut)
  BY DEF Show
<1>4. /\ shown \in Seq(ids) /\ ToSet(shown) = ids
      /\ \A i, j \in 1..Len(shown) : i < j => shown[i] > shown[j]
  BY <1>2, NewestFirstIs
<1>5. /\ cursor' \in 0..MaxId /\ \A id \in ids : id >= cursor'
      /\ cursor' = End \/ cursor' \in ids
  BY <1>2, <1>3, NextCursorIs
<1>6. \A id \in ids : id < cursor
  BY DEF IsPageOf
<1> HIDE DEF shown
<1>7. \A i \in 1..n : listed[i] \in ToSet(listed)
  BY <1>1 DEF ToSet
<1>8. \A i \in 1..n : listed[i] >= cursor
  <2>1. CASE cursor = Start
    BY <2>1 DEF WalkInv, ListStartsEmpty
  <2>2. CASE cursor # Start
    BY <1>7, <2>2 DEF WalkInv, PaginationTypeOK
  <2> QED
    BY <2>1, <2>2
<1>9. shown \in Seq(Ids) /\ Len(shown) \in Nat /\ \A i \in 1..Len(shown) : shown[i] \in ids
  BY <1>2, <1>4
<1>10. /\ listed' \in Seq(Ids) /\ ToSet(listed') = ToSet(listed) \cup ids
       /\ Len(listed') = n + Len(shown)
       /\ \A i \in 1..n : listed'[i] = listed[i]
       /\ \A i \in 1..Len(shown) : listed'[n + i] = shown[i]
  <2>1. ToSet(listed') = ToSet(listed) \cup ids
    BY <1>1, <1>3, <1>4, <1>9, ToSetAppended
  <2> QED
    BY <1>1, <1>3, <1>9, <2>1
<1>11. \A id \in ToSet(listed) : id >= cursor /\ id \in Ids
  <2>1. \A id \in ToSet(listed) : \E i \in 1..n : id = listed[i]
    BY <1>1 DEF ToSet
  <2> QED
    BY <1>1, <1>8, <2>1
<1>12. \A id \in ToSet(listed') : id >= cursor'
  <2>1. ASSUME NEW id \in ToSet(listed) PROVE id >= cursor'
    <3>1. CASE cursor' = End
      BY <1>1, <1>11, <3>1
    <3>2. CASE cursor' \in ids
      BY <1>1, <1>2, <1>5, <1>6, <1>11, <3>2
    <3> QED
      BY <1>5, <3>1, <3>2
  <2> QED
    BY <1>5, <1>10, <2>1
<1>13. PaginationTypeOK'
  <2>1. cursor' \in End..Start /\ cut' \in BOOLEAN /\ stayed' \subseteq rows'
    BY <1>1, <1>2, <1>3, <1>5
  <2> QED
    BY <1>10, <1>12, <2>1 DEF PaginationTypeOK, Ids, Entries, Start, End
<1>14. ListStartsEmpty'
  BY <1>1, <1>5 DEF ListStartsEmpty, Start
<1>15. ListedInOrder'
  <2>1. ASSUME NEW i \in 1..(Len(listed') - 1)
        PROVE  listed'[i] > listed'[i + 1]
    <3>1. CASE i < n
      <4>1. listed[i] > listed[i + 1]
        BY <1>1, <3>1 DEF WalkInv, ListedInOrder
      <4>2. i \in 1..n /\ i + 1 \in 1..n
        BY <1>1, <3>1
      <4>3. listed'[i] = listed[i] /\ listed'[i + 1] = listed[i + 1]
        BY <1>10, <4>2
      <4> QED
        BY <4>1, <4>3
    <3>2. CASE i = n
      <4>1. listed'[i] = listed[n] /\ listed[n] >= cursor /\ listed[n] \in Ids
        BY <1>1, <1>8, <1>10, <3>2
      <4>2. listed'[i + 1] = shown[1] /\ shown[1] \in ids
        BY <1>1, <1>9, <1>10, <3>2
      <4>3. shown[1] < cursor /\ shown[1] \in Ids
        BY <1>2, <1>6, <4>2
      <4> QED
        BY <1>1, <4>1, <4>2, <4>3
    <3>3. CASE i > n
      <4>1. i - n \in 1..Len(shown) /\ (i - n) + 1 \in 1..Len(shown)
            /\ n + (i - n) = i /\ n + ((i - n) + 1) = i + 1
        BY <1>1, <1>9, <1>10, <3>3
      <4>2. shown[i - n] > shown[(i - n) + 1]
        BY <1>4, <4>1
      <4>3. listed'[n + (i - n)] = shown[i - n]
        BY <1>10, <4>1
      <4>4. listed'[n + ((i - n) + 1)] = shown[(i - n) + 1]
        BY <1>10, <4>1
      <4> QED
        BY <4>1, <4>2, <4>3, <4>4
    <3> QED
      BY <1>1, <3>1, <3>2, <3>3
  <2> QED
    BY <2>1 DEF ListedInOrder
<1>16. NoRowIsSkipped'
  <2>1. ASSUME ~cut', NEW id \in stayed', id >= cursor'
        PROVE  id \in ToSet(listed')
    <3>1. ~cut /\ ~entry.cut /\ id \in stayed /\ id \in entry.kept /\ id \in Ids
      BY <1>2, <1>3, <2>1
    <3>2. CASE id >= cursor
      BY <1>10, <3>1, <3>2 DEF WalkInv, NoRowIsSkipped
    <3>3. CASE id < cursor
      BY <1>3, <1>10, <2>1, <3>1, <3>3 DEF IsPageOf
    <3> QED
      BY <1>1, <3>1, <3>2, <3>3
  <2> QED
    BY <2>1 DEF NoRowIsSkipped
<1> QED
  BY <1>13, <1>14, <1>15, <1>16 DEF WalkInv

LEMMA StoredIs ==
  ASSUME WalkInv, NEW c \in 1..Start, Stored(c)
  PROVE  cached' \in [1..Start -> Entries \cup {NoPage}] /\ PagesAreWhole'
<1>1. /\ cached' = [cached EXCEPT ![c] = Read(c)]
      /\ cached \in [1..Start -> Entries \cup {NoPage}] /\ rows \subseteq Ids
  BY DEF WalkInv, PaginationTypeOK, Stored
<1>2. Read(c) \in Entries /\ IsPageOf(Read(c), c)
  BY <1>1, ReadIs
<1>3. cached' \in [1..Start -> Entries \cup {NoPage}]
  BY <1>1, <1>2
<1>4. ASSUME NEW d \in 1..Start, cached'[d] # NoPage
      PROVE  IsPageOf(cached'[d], d)
  <2>1. CASE d = c
    BY <1>1, <1>2, <2>1
  <2>2. CASE d # c
    <3>1. cached'[d] = cached[d]
      BY <1>1, <2>2
    <3> QED
      BY <1>4, <3>1 DEF WalkInv, PagesAreWhole
  <2> QED
    BY <2>1, <2>2
<1>5. PagesAreWhole'
  BY <1>4 DEF PagesAreWhole, IsPageOf, Start, NextCursor, End
<1> QED
  BY <1>3, <1>5

\* Who fills, drops or writes leaves the client's list alone.
LEMMA OthersWalk ==
  ASSUME WalkInv, UNCHANGED <<cursor, listed, cut>>, rows' \subseteq Ids,
         stayed' \subseteq stayed, stayed' \subseteq rows',
         cached' \in [1..Start -> Entries \cup {NoPage}], PagesAreWhole'
  PROVE  WalkInv'
<1>1. PaginationTypeOK'
  BY DEF WalkInv, PaginationTypeOK, Ids, Entries, Start, End
<1>2. ListStartsEmpty' /\ ListedInOrder'
  BY DEF WalkInv, ListStartsEmpty, ListedInOrder, Start
<1>3. NoRowIsSkipped'
  BY DEF WalkInv, NoRowIsSkipped
<1> QED
  BY <1>1, <1>2, <1>3 DEF WalkInv

LEMMA WalkStep == WalkInv /\ [WalkNext]_walkVars => WalkInv'
<1> SUFFICES ASSUME WalkInv, [WalkNext]_walkVars
             PROVE  WalkInv'
  OBVIOUS
<1>1. /\ rows \subseteq Ids /\ stayed \subseteq rows /\ PagesAreWhole
      /\ cached \in [1..Start -> Entries \cup {NoPage}] /\ cursor \in End..Start
      /\ MaxId \in Nat
  BY PaginationAssumption DEF WalkInv, PaginationTypeOK
<1>2. UNCHANGED cached =>
        cached' \in [1..Start -> Entries \cup {NoPage}] /\ PagesAreWhole'
  BY <1>1 DEF Start, Entries, Ids, PagesAreWhole, IsPageOf, NextCursor, End
<1>3. cursor # End => cursor \in 1..Start
  BY <1>1 DEF End, Start
<1>4. CASE Hit
  <2>1. /\ cursor \in 1..Start /\ cached[cursor] # NoPage /\ Show(cached[cursor])
        /\ UNCHANGED <<rows, cached>> /\ cursor # End
    BY <1>3, <1>4 DEF Hit
  <2>2. cached[cursor] \in Entries /\ IsPageOf(cached[cursor], cursor)
    BY <1>1, <2>1 DEF PagesAreWhole
  <2> QED
    BY <1>1, <1>2, <2>1, <2>2, ShowStep
<1>5. CASE Miss
  <2>1. /\ cursor \in 1..Start /\ cursor # End /\ Show(Read(cursor))
        /\ Stored(cursor) \/ UNCHANGED cached
        /\ UNCHANGED rows
    BY <1>3, <1>5 DEF Miss
  <2>2. /\ Read(cursor) \in Entries /\ IsPageOf(Read(cursor), cursor)
        /\ Read(cursor).kept \subseteq rows
    BY <1>1, <2>1, ReadIs
  <2>3. cached' \in [1..Start -> Entries \cup {NoPage}] /\ PagesAreWhole'
    BY <1>2, <2>1, StoredIs
  <2> QED
    BY <1>1, <2>1, <2>2, <2>3, ShowStep
<1>6. CASE Again
  <2>1. /\ cursor' = Start /\ listed' = <<>> /\ stayed' = rows /\ cut' = FALSE
        /\ UNCHANGED <<rows, cached>>
    BY <1>6 DEF Again
  <2>2. /\ cursor' \in End..Start /\ listed' \in Seq(Ids) /\ Len(listed') = 0
        /\ \A id \in Ids : ~(id >= Start)
    BY <1>1, <2>1 DEF End, Start, Ids
  <2>3. PaginationTypeOK'
    BY <1>1, <1>2, <2>1, <2>2 DEF PaginationTypeOK, Ids, Entries, Start, End
  <2>4. ListStartsEmpty' /\ ListedInOrder'
    BY <2>1, <2>2 DEF ListStartsEmpty, ListedInOrder
  <2>5. NoRowIsSkipped'
    BY <1>1, <2>1, <2>2 DEF NoRowIsSkipped
  <2> QED
    BY <1>2, <2>1, <2>3, <2>4, <2>5 DEF WalkInv
<1>7. ASSUME NEW c \in 1..Start, Fill(c)
      PROVE  WalkInv'
  <2>1. Stored(c) /\ UNCHANGED <<rows, cursor, listed, stayed, cut>>
    BY <1>7 DEF Fill
  <2>2. cached' \in [1..Start -> Entries \cup {NoPage}] /\ PagesAreWhole'
    BY <2>1, StoredIs
  <2> QED
    BY <1>1, <2>1, <2>2, OthersWalk
<1>8. ASSUME NEW c \in 1..Start, Drop(c)
      PROVE  WalkInv'
  <2>1. /\ cached' = [cached EXCEPT ![c] = NoPage]
        /\ UNCHANGED <<rows, cursor, listed, stayed, cut>>
    BY <1>8 DEF Drop
  <2>2. cached' \in [1..Start -> Entries \cup {NoPage}]
    BY <1>1, <2>1
  <2>3. \A d \in 1..Start : cached'[d] # NoPage => cached'[d] = cached[d]
    BY <1>1, <2>1
  <2>4. PagesAreWhole'
    BY <1>1, <2>3 DEF PagesAreWhole, IsPageOf, Start, NextCursor, End
  <2> QED
    BY <1>1, <2>1, <2>2, <2>4, OthersWalk
<1>9. ASSUME NEW id \in Ids, Create(id)
      PROVE  WalkInv'
  <2>1. rows' = rows \cup {id} /\ UNCHANGED <<cached, cursor, listed, stayed, cut>>
    BY <1>9 DEF Create
  <2> QED
    BY <1>1, <1>2, <2>1, OthersWalk
<1>10. ASSUME NEW id \in Ids, Delete(id)
       PROVE  WalkInv'
  <2>1. /\ rows' = rows \ {id} /\ stayed' = stayed \ {id}
        /\ UNCHANGED <<cursor, listed, cut>>
        /\ cached' = [c \in 1..Start |-> IF cached[c] = NoPage THEN NoPage
                                   ELSE [cached[c] EXCEPT !.kept = @ \ {id}]]
    BY <1>10 DEF Delete
  <2>2. ASSUME NEW c \in 1..Start, cached[c] # NoPage
        PROVE  /\ cached'[c] \in Entries
               /\ cached'[c].ids = cached[c].ids /\ cached'[c].cut = cached[c].cut
               /\ cached'[c].kept \subseteq cached[c].kept
    <3>1. cached[c] \in Entries
      BY <1>1, <2>2
    <3>2. cached'[c] = [cached[c] EXCEPT !.kept = @ \ {id}]
      BY <2>1, <2>2
    <3> QED
      BY <3>1, <3>2 DEF Entries
  <2>3. \A c \in 1..Start : cached[c] = NoPage => cached'[c] = NoPage
    BY <2>1
  <2>4. cached' \in [1..Start -> Entries \cup {NoPage}]
    <3>1. \A c \in 1..Start : cached'[c] \in Entries \cup {NoPage}
      BY <2>2, <2>3
    <3> QED
      BY <2>1, <3>1
  <2>5. ASSUME NEW c \in 1..Start, cached'[c] # NoPage
        PROVE  IsPageOf(cached'[c], c)
    <3>1. cached[c] # NoPage /\ IsPageOf(cached[c], c)
      BY <1>1, <2>3, <2>5 DEF PagesAreWhole
    <3> QED
      BY <2>2, <3>1 DEF IsPageOf
  <2>6. PagesAreWhole'
    BY <2>5 DEF PagesAreWhole, IsPageOf, Start, NextCursor, End
  <2> QED
    BY <1>1, <2>1, <2>4, <2>6, OthersWalk
<1>11. CASE UNCHANGED walkVars
  <2>1. UNCHANGED <<rows, cached, cursor, listed, stayed, cut>>
    BY <1>11 DEF walkVars
  <2> QED
    BY <1>1, <1>2, <2>1, OthersWalk
<1> QED
  BY <1>4, <1>5, <1>6, <1>7, <1>8, <1>9, <1>10, <1>11 DEF WalkNext

\* findPage and its cache: pages, cursors and the list stay well formed.
THEOREM PaginationTypeCorrect == WalkSpec => []PaginationTypeOK
<1>1. WalkInv => PaginationTypeOK
  BY DEF WalkInv
<1> QED
  BY WalkInitial, WalkStep, <1>1, PTL DEF WalkSpec

\* findPage: newest first and none twice across pages, whatever is written, expires
\* or is served from the cache between two of them.
THEOREM PagesAreInOrder == WalkSpec => []ListedInOrder
<1>1. WalkInv => ListedInOrder
  BY DEF WalkInv
<1> QED
  BY WalkInitial, WalkStep, <1>1, PTL DEF WalkSpec

\* findPage: a row that stays is listed by the walk that passes it, unless the row
\* of a cursor was deleted and cut the walk off.
THEOREM WalkSkipsNothing == WalkSpec => []NoRowIsSkipped
<1>1. WalkInv => NoRowIsSkipped
  BY DEF WalkInv
<1> QED
  BY WalkInitial, WalkStep, <1>1, PTL DEF WalkSpec

-----------------------------------------------------------------------------
(* The folder *)

FolderInv == FolderTypeOK /\ NothingIsPassedOver

LEMMA FolderInit == Init => FolderInv
BY FolderAssumption DEF Init, FolderInv, FolderTypeOK, NothingIsPassedOver, Ahead, Keys, None

\* Nobody but the call moves the listing, and what others add is not old.
LEMMA OthersStep ==
  ASSUME FolderInv, NEW k \in Keys, Upload(k) \/ DeleteFile(k)
  PROVE  FolderInv'
<1>1. FolderTypeOK'
  BY DEF FolderInv, FolderTypeOK, Upload, DeleteFile
<1>2. NothingIsPassedOver'
  BY DEF FolderInv, FolderTypeOK, NothingIsPassedOver, Ahead, After, Upload, DeleteFile
<1> QED
  BY <1>1, <1>2 DEF FolderInv

\* A listing leaves out only what comes after its token.
LEMMA ListStep ==
  ASSUME FolderInv, List
  PROVE  FolderInv'
<1>1. PICK p \in Listings(token), n \in None..MaxKey :
        /\ IsToken(n, token, p)
        /\ page' = p
        /\ next' = n
        /\ IF p = {} THEN Continue(n) ELSE step' = "delete" /\ UNCHANGED token
  BY DEF List
<1>2. step = "list" /\ UNCHANGED <<objects, old>>
  BY DEF List
<1>3. /\ p \subseteq After(token)
      /\ p = {} <=> After(token) = {}
      /\ \A k \in p, l \in After(token) \ p : k < l
  BY DEF Listings
<1>4. CASE p = {}
  <2>1. n = None /\ step' = "done" /\ token' = None
    BY <1>1, <1>3, <1>4 DEF IsToken, Continue
  <2>2. old = {}
    BY <1>2, <1>3, <1>4 DEF FolderInv, NothingIsPassedOver, Ahead
  <2> QED
    BY <1>1, <1>2, <1>4, <2>1, <2>2, FolderAssumption
    DEF FolderInv, FolderTypeOK, NothingIsPassedOver, Ahead, None
<1>5. CASE p # {}
  <2>1. step' = "delete" /\ token' = token
    BY <1>1, <1>5
  <2>2. n # None => n \in p /\ \A k \in p : k <= n
    BY <1>1 DEF IsToken
  <2>3. After(token) \subseteq p \cup (IF n = None THEN {} ELSE After(n))
    <3>1. CASE p = After(token)
      BY <3>1
    <3>2. CASE p # After(token)
      <4>1. n \in p /\ n \in Nat /\ n # None
        BY <1>1, <1>3, <3>2, FolderAssumption DEF IsToken, FolderInv, FolderTypeOK, After, Keys, None
      <4>2. \A l \in After(token) \ p : l \in Nat /\ l > n
        BY <1>3, <4>1, FolderAssumption DEF FolderInv, FolderTypeOK, After, Keys
      <4> QED
        BY <4>1, <4>2 DEF After
    <3> QED
      BY <3>1, <3>2
  <2>4. FolderTypeOK'
    BY <1>1, <1>2, <1>3, <2>1, <2>2 DEF FolderInv, FolderTypeOK, After, Keys, None
  <2>5. NothingIsPassedOver'
    BY <1>1, <1>2, <2>1, <2>3 DEF FolderInv, NothingIsPassedOver, Ahead, After
  <2> QED
    BY <2>4, <2>5 DEF FolderInv
<1> QED
  BY <1>4, <1>5

LEMMA DeletePageStep ==
  ASSUME FolderInv, DeletePage
  PROVE  FolderInv'
<1>1. FolderTypeOK'
  BY DEF FolderInv, FolderTypeOK, DeletePage, Continue, None
<1>2. NothingIsPassedOver'
  BY DEF FolderInv, FolderTypeOK, NothingIsPassedOver, Ahead, After, DeletePage, Continue
<1> QED
  BY <1>1, <1>2 DEF FolderInv

LEMMA FolderStep == FolderInv /\ [Next]_vars => FolderInv'
<1> SUFFICES ASSUME FolderInv, [Next]_vars
             PROVE  FolderInv'
  OBVIOUS
<1>1. CASE DeleteFolder
  BY <1>1, FolderAssumption
  DEF DeleteFolder, FolderInv, FolderTypeOK, NothingIsPassedOver, Ahead, After, Keys, None
<1>2. CASE DeleteFails
  BY <1>2 DEF DeleteFails, FolderInv, FolderTypeOK, NothingIsPassedOver, Ahead
<1>3. CASE ListFails
  BY <1>3 DEF ListFails, FolderInv, FolderTypeOK, NothingIsPassedOver, Ahead
<1>4. CASE Return
  BY <1>4, FolderAssumption
  DEF Return, FolderInv, FolderTypeOK, NothingIsPassedOver, Ahead, None
<1>5. CASE UNCHANGED vars
  BY <1>5 DEF vars, FolderInv, FolderTypeOK, NothingIsPassedOver, Ahead, After
<1> QED
  BY <1>1, <1>2, <1>3, <1>4, <1>5, OthersStep, ListStep, DeletePageStep
  DEF Next, DeleteStep

\* deleteFolder: the call's state is well formed, and each listing starts with
\* the token of the one before.
THEOREM FolderTypeCorrect == Spec => []FolderTypeOK
<1>1. FolderInv => FolderTypeOK
  BY DEF FolderInv
<1> QED
  BY FolderInit, FolderStep, <1>1, PTL DEF Spec

\* deleteFolder: an object that was there when the call began, and was not
\* written since, is gone when the call returns.
THEOREM FolderIsEmptied == Spec => []NothingIsPassedOver
<1>1. FolderInv => NothingIsPassedOver
  BY DEF FolderInv
<1> QED
  BY FolderInit, FolderStep, <1>1, PTL DEF Spec

-----------------------------------------------------------------------------
(* The ip ban *)

\* The last probe before those that the counter counts.
Earlier == Len(probes) - attempts

OldestFirst == \A i, j \in 1..Len(probes) : i <= j => probes[j] <= probes[i]

\* The counter counts the latest probes, and the first of them set its expiry.
CounterIsRecent ==
  attempts > 0 => attempts <= Len(probes) /\ probes[Earlier + 1] + window = Window

EnoughToBan == (\E r \in Requests : requests[r] = "ban") => Recent >= MaxAttempts

\* The probe was counted after the tick of the latest ban.
SinceBan(i) == probes[i] + ban < BanTtl

ThresholdBans ==
  attempts >= MaxAttempts => \E r \in Requests : requests[r] \in {"ban", "clear"}

ClearedAtOnce == (\E r \in Requests : requests[r] = "clear") => ban = BanTtl

\* Of the probes since the latest ban that a counter before has counted, the first
\* is gone, as are all when the counter after it is over.
OneCounterBefore ==
  \A i \in 1..Earlier : SinceBan(i) =>
    /\ (Earlier - i) + 3 <= MaxAttempts
    /\ IF attempts > 0 THEN probes[i] + window > Window ELSE probes[i] > 0

BanInv ==
  /\ IpBanTypeOK /\ OldestFirst /\ CounterIsRecent /\ EnoughToBan
  /\ ~failed => ThresholdBans /\ ClearedAtOnce /\ OneCounterBefore

LEMMA BanInitial == BanInit => BanInv
<1> SUFFICES ASSUME BanInit PROVE BanInv
  OBVIOUS
<1>1. /\ attempts = 0 /\ window = 0 /\ ban = 0 /\ probes = <<>> /\ failed = FALSE
      /\ requests = [r \in Requests |-> "idle"]
      /\ Len(probes) = 0 /\ probes \in Seq(Ages)
  BY DEF BanInit
<1>2. /\ attempts \in 0..MaxProbes /\ window \in 0..Window /\ ban \in 0..BanTtl
      /\ Len(probes) <= MaxProbes
  BY <1>1, IpBanAssumption
<1>3. requests \in [Requests -> {"idle", "count", "ban", "clear"}]
  BY <1>1
<1>4. IpBanTypeOK
  BY <1>1, <1>2, <1>3 DEF IpBanTypeOK
<1> QED
  BY <1>1, <1>4, IpBanAssumption DEF BanInv, OldestFirst, CounterIsRecent,
    EnoughToBan, ThresholdBans, ClearedAtOnce, OneCounterBefore, Recent, Earlier

LEMMA ProbesAre ==
  ASSUME IpBanTypeOK
  PROVE  /\ Len(probes) \in Nat /\ DOMAIN probes = 1..Len(probes)
         /\ \A i \in 1..Len(probes) : probes[i] \in Nat /\ probes[i] < Window
         /\ attempts \in Nat /\ window \in 0..Window /\ ban \in 0..BanTtl
         /\ MaxAttempts \in Nat \ {0} /\ Window \in Nat \ {0} /\ BanTtl \in Nat \ {0}
<1>1. probes \in Seq(Ages) /\ Window \in Nat \ {0}
  BY IpBanAssumption DEF IpBanTypeOK
<1>2. \A i \in 1..Len(probes) : probes[i] \in Ages
  BY <1>1
<1>3. attempts \in Nat
  BY IpBanAssumption DEF IpBanTypeOK
<1> QED
  BY <1>1, <1>2, <1>3, IpBanAssumption DEF Ages, IpBanTypeOK

\* The probes that leave the window are the first.
LEMMA AgedIs ==
  ASSUME IpBanTypeOK, OldestFirst
  PROVE  \E gone \in 0..Len(probes) :
           /\ Aged = [i \in 1..(Len(probes) - gone) |-> probes[gone + i] + 1]
           /\ \A i \in 1..gone : probes[i] + 1 = Window
           /\ \A i \in (gone + 1)..Len(probes) : probes[i] + 1 < Window
<1> DEFINE n == Len(probes)
           S == {i \in DOMAIN probes : probes[i] + 1 = Window}
           Stay == {i \in 1..(n + 1) : i \notin S}
<1>1. /\ n \in Nat /\ DOMAIN probes = 1..n /\ Window \in Nat
      /\ \A i \in 1..n : probes[i] \in Nat /\ probes[i] < Window
  BY ProbesAre
<1>2. PICK m \in Stay : \A k \in Stay : m <= k
  <2>1. n + 1 \in Stay /\ Stay \in SUBSET Nat
    BY <1>1
  <2> HIDE DEF Stay
  <2> QED
    BY <2>1, LeastOf
<1>3. m \in 1..(n + 1) /\ m \notin S
  OBVIOUS
<1>4. S = 1..(m - 1)
  <2>1. \A i \in S, j \in 1..n : j <= i => j \in S
    BY <1>1 DEF OldestFirst
  <2> QED
    BY <1>1, <1>2, <2>1
<1>5. Cardinality(S) = m - 1
  <2>1. 1 \in Int /\ m - 1 \in Int /\ m - 1 >= 0
    BY <1>1, <1>3
  <2>2. Cardinality(1..(m - 1)) = IF 1 > m - 1 THEN 0 ELSE (m - 1) - 1 + 1
    BY <2>1, FS_Interval
  <2> HIDE DEF S
  <2> QED
    BY <1>4, <2>1, <2>2
<1>6. Aged = [i \in 1..(n - (m - 1)) |-> probes[(m - 1) + i] + 1]
  BY <1>5 DEF Aged
<1>7. ASSUME NEW i \in m..n
      PROVE  probes[i] + 1 < Window
  <2>1. i \in 1..n /\ i \notin S
    BY <1>1, <1>3, <1>4
  <2> QED
    BY <1>1, <2>1
<1>8. \A i \in 1..(m - 1) : probes[i] + 1 = Window
  BY <1>4
<1>9. m - 1 \in 0..n /\ (m - 1) + 1 = m
  BY <1>1, <1>3
<1> HIDE DEF S, Stay
<1> QED
  BY <1>6, <1>7, <1>8, <1>9

\* The counter and the history of probes as they are.
LEMMA CounterUntouched ==
  ASSUME BanInv, UNCHANGED <<attempts, window, probes>>,
         requests' \in [Requests -> {"idle", "count", "ban", "clear"}],
         ban' \in 0..BanTtl, failed' \in BOOLEAN
  PROVE  IpBanTypeOK' /\ OldestFirst' /\ CounterIsRecent' /\ Recent' = Recent
<1>1. IpBanTypeOK'
  BY DEF BanInv, IpBanTypeOK, Ages
<1>2. OldestFirst' /\ CounterIsRecent'
  BY DEF BanInv, OldestFirst, CounterIsRecent, Earlier
<1> QED
  BY <1>1, <1>2 DEF Recent

\* A request moves and Redis stays as it is.
LEMMA OnlyMoves ==
  ASSUME BanInv, NEW r \in Requests, NEW to \in {"idle", "count"}, Goto(r, to),
         UNCHANGED <<attempts, window, ban, probes>>, failed' \in BOOLEAN,
         ~failed' => ~failed /\ requests[r] = "idle"
  PROVE  BanInv'
<1>1. /\ requests \in [Requests -> {"idle", "count", "ban", "clear"}]
      /\ ban \in 0..BanTtl
  BY DEF BanInv, IpBanTypeOK
<1>2. /\ requests' \in [Requests -> {"idle", "count", "ban", "clear"}]
      /\ requests'[r] = to
      /\ \A q \in Requests \ {r} : requests'[q] = requests[q]
  BY <1>1 DEF Goto
<1>3. IpBanTypeOK' /\ OldestFirst' /\ CounterIsRecent' /\ Recent' = Recent
  BY <1>1, <1>2, CounterUntouched
<1>4. EnoughToBan'
  BY <1>2, <1>3 DEF BanInv, EnoughToBan
<1>5. ASSUME ~failed'
      PROVE  (ThresholdBans /\ ClearedAtOnce /\ OneCounterBefore)'
  <2>1. ThresholdBans /\ ClearedAtOnce /\ OneCounterBefore
    BY <1>5 DEF BanInv
  <2>2. ThresholdBans'
    BY <1>2, <1>5, <2>1 DEF ThresholdBans
  <2>3. ClearedAtOnce'
    BY <1>2, <2>1 DEF ClearedAtOnce
  <2>4. OneCounterBefore'
    BY <2>1 DEF OneCounterBefore, SinceBan, Earlier
  <2> QED
    BY <2>2, <2>3, <2>4
<1> QED
  BY <1>3, <1>4, <1>5 DEF BanInv

\* One more probe, the youngest.
LEMMA Incremented ==
  ASSUME IpBanTypeOK, OldestFirst, CounterIsRecent, Increment
  PROVE  /\ attempts' = attempts + 1 /\ attempts' \in 0..MaxProbes
         /\ window' = (IF window = 0 THEN Window ELSE window)
         /\ probes' \in Seq(Ages) /\ Len(probes') = Len(probes) + 1
         /\ Len(probes') <= MaxProbes
         /\ \A i \in 1..Len(probes) : probes'[i] = probes[i]
         /\ probes'[Len(probes) + 1] = 0
         /\ Earlier' = Earlier
<1>1. /\ probes \in Seq(Ages) /\ Len(probes) \in Nat /\ Window \in Nat \ {0}
      /\ MaxProbes \in Nat /\ attempts \in 0..MaxProbes
  BY ProbesAre, IpBanAssumption DEF IpBanTypeOK
<1>2. /\ probes' = Append(probes, 0) /\ Len(probes) < MaxProbes
      /\ attempts' = attempts + 1
      /\ window' = (IF window = 0 THEN Window ELSE window)
  BY DEF Increment, Recent
<1>3. attempts <= Len(probes)
  BY <1>1 DEF CounterIsRecent
<1>4. 0 \in Ages
  BY <1>1 DEF Ages
<1>5. /\ probes' \in Seq(Ages) /\ Len(probes') = Len(probes) + 1
      /\ \A i \in 1..Len(probes) : probes'[i] = probes[i]
      /\ probes'[Len(probes) + 1] = 0
  BY <1>1, <1>2, <1>4
<1>6. attempts' \in 0..MaxProbes /\ Len(probes') <= MaxProbes
  BY <1>1, <1>2, <1>3, <1>5
<1>7. Earlier' = Earlier
  BY <1>1, <1>2, <1>5 DEF Earlier
<1> QED
  BY <1>2, <1>5, <1>6, <1>7

LEMMA IncrementedInv ==
  ASSUME BanInv, Increment, ban' = ban, failed' \in BOOLEAN,
         requests' \in [Requests -> {"idle", "count", "ban", "clear"}]
  PROVE  /\ IpBanTypeOK' /\ OldestFirst' /\ CounterIsRecent'
         /\ ~failed => OneCounterBefore'
<1> DEFINE n == Len(probes)
<1>1. /\ IpBanTypeOK /\ OldestFirst /\ CounterIsRecent
      /\ ~failed => OneCounterBefore
  BY DEF BanInv
<1>2. /\ n \in Nat /\ window \in 0..Window /\ ban \in 0..BanTtl
      /\ \A i \in 1..n : probes[i] \in Nat /\ probes[i] < Window
      /\ attempts \in Nat /\ Window \in Nat \ {0} /\ BanTtl \in Nat \ {0}
      /\ MaxAttempts \in Nat \ {0}
      /\ attempts = 0 <=> window = 0
  <2>1. IpBanTypeOK
    BY <1>1
  <2> QED
    BY <2>1, ProbesAre DEF IpBanTypeOK
<1>3. /\ attempts' = attempts + 1 /\ attempts' \in 0..MaxProbes
      /\ window' = (IF window = 0 THEN Window ELSE window)
      /\ probes' \in Seq(Ages) /\ Len(probes') = n + 1
      /\ Len(probes') <= MaxProbes
      /\ \A i \in 1..n : probes'[i] = probes[i]
      /\ probes'[n + 1] = 0
      /\ Earlier' = Earlier
  BY <1>1, Incremented
<1>4. IpBanTypeOK'
  <2>1. window' \in 0..Window /\ (attempts' = 0 <=> window' = 0)
    BY <1>2, <1>3
  <2>2. ban' \in 0..BanTtl
    BY <1>2
  <2> QED
    BY <1>3, <2>1, <2>2 DEF IpBanTypeOK, Ages
<1>5. OldestFirst'
  <2>1. ASSUME NEW i \in 1..(n + 1), NEW j \in 1..(n + 1), i <= j
        PROVE  probes'[j] <= probes'[i]
    <3>1. CASE j = n + 1
      BY <1>2, <1>3, <3>1
    <3>2. CASE j # n + 1
      <4>1. i \in 1..n /\ j \in 1..n
        BY <1>2, <2>1, <3>2
      <4> QED
        BY <1>1, <1>3, <2>1, <4>1 DEF OldestFirst
    <3> QED
      BY <3>1, <3>2
  <2> QED
    BY <1>3, <2>1 DEF OldestFirst
<1>6. CounterIsRecent'
  <2>1. CASE attempts = 0
    <3>1. Earlier' + 1 = n + 1 /\ window' = Window /\ attempts' = 1
      BY <1>2, <1>3, <2>1 DEF Earlier
    <3> QED
      BY <1>2, <1>3, <3>1 DEF CounterIsRecent
  <2>2. CASE attempts > 0
    <3>1. attempts <= n /\ probes[Earlier + 1] + window = Window
      BY <1>1, <2>2 DEF CounterIsRecent
    <3>2. Earlier + 1 \in 1..n
      BY <1>2, <2>2, <3>1 DEF Earlier
    <3>3. probes'[Earlier' + 1] = probes[Earlier + 1] /\ window' = window
      BY <1>2, <1>3, <2>2, <3>2
    <3> QED
      BY <1>2, <1>3, <3>1, <3>3 DEF CounterIsRecent
  <2> QED
    BY <1>2, <2>1, <2>2
<1>7. ASSUME ~failed
      PROVE  OneCounterBefore'
  <2>1. \A i \in 1..Earlier : probes[i] + ban < BanTtl =>
          /\ (Earlier - i) + 3 <= MaxAttempts
          /\ IF attempts > 0 THEN probes[i] + window > Window ELSE probes[i] > 0
    BY <1>1, <1>7 DEF OneCounterBefore, SinceBan
  <2>2. Earlier \in Int /\ Earlier <= n
    BY <1>2 DEF Earlier
  <2>3. ASSUME NEW i \in 1..Earlier, probes'[i] + ban' < BanTtl
        PROVE  /\ (Earlier - i) + 3 <= MaxAttempts
               /\ IF attempts' > 0 THEN probes'[i] + window' > Window
                                   ELSE probes'[i] > 0
    <3>1. probes'[i] = probes[i] /\ probes[i] \in Nat
      BY <1>2, <1>3, <2>2
    <3>2. /\ (Earlier - i) + 3 <= MaxAttempts
          /\ IF attempts > 0 THEN probes[i] + window > Window ELSE probes[i] > 0
      BY <2>1, <2>3, <3>1
    <3> QED
      BY <1>2, <1>3, <3>1, <3>2
  <2> QED
    BY <1>3, <2>3 DEF OneCounterBefore, SinceBan
<1> QED
  BY <1>4, <1>5, <1>6, <1>7
LEMMA CountStep ==
  ASSUME BanInv, NEW r \in Requests, Count(r)
  PROVE  BanInv'
<1>1. /\ requests[r] = "count" /\ Increment /\ UNCHANGED <<ban, failed>>
      /\ Goto(r, IF attempts' < MaxAttempts THEN "idle" ELSE "ban")
  BY DEF Count
<1>2. /\ requests \in [Requests -> {"idle", "count", "ban", "clear"}]
      /\ failed \in BOOLEAN
  BY DEF BanInv, IpBanTypeOK
<1>3. /\ requests' \in [Requests -> {"idle", "count", "ban", "clear"}]
      /\ requests'[r] = (IF attempts' < MaxAttempts THEN "idle" ELSE "ban")
      /\ \A q \in Requests \ {r} : requests'[q] = requests[q]
  BY <1>1, <1>2 DEF Goto
<1>4. /\ IpBanTypeOK' /\ OldestFirst' /\ CounterIsRecent'
      /\ ~failed => OneCounterBefore'
  BY <1>1, <1>2, <1>3, IncrementedInv
<1>5. /\ Len(probes') = Len(probes) + 1 /\ Len(probes) \in Nat
      /\ attempts' \in Nat /\ MaxAttempts \in Nat \ {0}
  <2>1. Len(probes') = Len(probes) + 1 /\ attempts' \in 0..MaxProbes
    BY <1>1, Incremented DEF BanInv
  <2> QED
    BY <2>1, ProbesAre, IpBanAssumption DEF BanInv
<1>6. EnoughToBan'
  <2>1. ASSUME NEW q \in Requests, requests'[q] = "ban"
        PROVE  Len(probes') >= MaxAttempts
    <3>1. CASE q = r
      <4>1. attempts' >= MaxAttempts /\ attempts' > 0
        BY <1>3, <1>5, <2>1, <3>1
      <4>2. attempts' <= Len(probes')
        BY <1>4, <4>1 DEF CounterIsRecent
      <4> QED
        BY <1>5, <4>1, <4>2
    <3>2. CASE q # r
      <4>1. requests[q] = "ban"
        BY <1>3, <2>1, <3>2
      <4>2. Len(probes) >= MaxAttempts
        BY <4>1 DEF BanInv, EnoughToBan, Recent
      <4> QED
        BY <1>5, <4>2
    <3> QED
      BY <3>1, <3>2
  <2> QED
    BY <2>1 DEF EnoughToBan, Recent
<1>7. ASSUME ~failed
      PROVE  ThresholdBans' /\ ClearedAtOnce'
  <2>1. ThresholdBans'
    BY <1>3, <1>5 DEF ThresholdBans
  <2>2. ClearedAtOnce'
    BY <1>1, <1>3, <1>7 DEF BanInv, ClearedAtOnce
  <2> QED
    BY <2>1, <2>2
<1> QED
  BY <1>1, <1>4, <1>6, <1>7 DEF BanInv

LEMMA CountFailsStep ==
  ASSUME BanInv, NEW r \in Requests, CountFails(r)
  PROVE  BanInv'
<1>1. /\ Increment \/ UNCHANGED <<attempts, window, probes>>
      /\ Goto(r, "idle") /\ failed' = TRUE /\ ban' = ban
  BY DEF CountFails
<1>2. CASE UNCHANGED <<attempts, window, probes>>
  BY <1>1, <1>2, OnlyMoves
<1>3. CASE Increment
  <2>1. requests \in [Requests -> {"idle", "count", "ban", "clear"}]
    BY DEF BanInv, IpBanTypeOK
  <2>2. /\ requests' \in [Requests -> {"idle", "count", "ban", "clear"}]
        /\ \A q \in Requests : requests'[q] = "ban" => requests[q] = "ban"
    BY <1>1, <2>1 DEF Goto
  <2>3. IpBanTypeOK' /\ OldestFirst' /\ CounterIsRecent'
    BY <1>1, <1>3, <2>2, IncrementedInv
  <2>4. Len(probes') = Len(probes) + 1
    BY <1>3, Incremented DEF BanInv
  <2>5. Len(probes) \in Nat /\ MaxAttempts \in Nat
    BY ProbesAre DEF BanInv
  <2>6. EnoughToBan'
    BY <2>2, <2>4, <2>5 DEF BanInv, EnoughToBan, Recent
  <2> QED
    BY <1>1, <2>3, <2>6 DEF BanInv
<1> QED
  BY <1>1, <1>2, <1>3

LEMMA BanStep ==
  ASSUME BanInv, NEW r \in Requests, Ban(r) \/ BanFails(r)
  PROVE  BanInv'
<1>1. /\ requests \in [Requests -> {"idle", "count", "ban", "clear"}]
      /\ ban \in 0..BanTtl /\ failed \in BOOLEAN
  BY DEF BanInv, IpBanTypeOK
<1>2. BanTtl \in Nat \ {0}
  BY IpBanAssumption
<1>3. UNCHANGED <<attempts, window, probes>> /\ ban' \in {ban, BanTtl}
  BY DEF Ban, BanFails
<1>4. \/ /\ Goto(r, "idle") /\ failed' = TRUE
      \/ /\ Goto(r, "clear") /\ ban' = BanTtl /\ UNCHANGED failed
  BY DEF Ban, BanFails
<1>5. /\ requests' \in [Requests -> {"idle", "count", "ban", "clear"}]
      /\ \A q \in Requests : requests'[q] = "ban" => requests[q] = "ban"
      /\ ~failed' => requests'[r] = "clear"
  BY <1>1, <1>4 DEF Goto
<1>6. IpBanTypeOK' /\ OldestFirst' /\ CounterIsRecent' /\ Recent' = Recent
  <2>1. ban' \in 0..BanTtl
    BY <1>1, <1>2, <1>3
  <2>2. failed' \in BOOLEAN
    BY <1>1, <1>4
  <2> QED
    BY <1>3, <1>5, <2>1, <2>2, CounterUntouched
<1>7. EnoughToBan'
  BY <1>5, <1>6 DEF BanInv, EnoughToBan
<1>8. ASSUME ~failed'
      PROVE  (ThresholdBans /\ ClearedAtOnce /\ OneCounterBefore)'
  <2>1. ban' = BanTtl /\ requests'[r] = "clear"
    BY <1>4, <1>5, <1>8
  <2>2. ThresholdBans' /\ ClearedAtOnce'
    BY <2>1 DEF ThresholdBans, ClearedAtOnce
  <2>3. \A i \in 1..Earlier' : probes'[i] \in Nat
    <3>1. IpBanTypeOK'
      BY <1>6
    <3>2. IpBanTypeOK
      BY DEF BanInv
    <3>3. Earlier' = Earlier /\ \A i \in 1..Earlier : i \in 1..Len(probes)
      BY <1>3, <3>2, ProbesAre DEF Earlier
    <3> QED
      BY <1>3, <3>2, <3>3, ProbesAre
  <2>4. OneCounterBefore'
    <3>1. \A i \in 1..Earlier' : ~(probes'[i] + ban' < BanTtl)
      BY <1>2, <2>1, <2>3
    <3> QED
      BY <3>1 DEF OneCounterBefore, SinceBan
  <2> QED
    BY <2>2, <2>4
<1> QED
  BY <1>6, <1>7, <1>8 DEF BanInv

\* Clearing ends a counter in the tick of the ban: no probe is since then.
LEMMA ClearStep ==
  ASSUME BanInv, NEW r \in Requests, Clear(r)
  PROVE  BanInv'
<1>1. /\ requests[r] = "clear" /\ attempts' = 0 /\ window' = 0 /\ Goto(r, "idle")
      /\ UNCHANGED <<ban, probes, failed>>
  BY DEF Clear
<1>2. /\ requests \in [Requests -> {"idle", "count", "ban", "clear"}]
      /\ IpBanTypeOK
  BY DEF BanInv, IpBanTypeOK
<1>3. /\ Len(probes) \in Nat /\ \A i \in 1..Len(probes) : probes[i] \in Nat
      /\ ban \in 0..BanTtl /\ BanTtl \in Nat \ {0} /\ MaxAttempts \in Nat \ {0}
  BY <1>2, ProbesAre
<1>4. /\ requests' \in [Requests -> {"idle", "count", "ban", "clear"}]
      /\ \A q \in Requests : requests'[q] = requests[q] \/ requests'[q] = "idle"
  BY <1>1, <1>2 DEF Goto
<1>5. IpBanTypeOK'
  <2>1. attempts' \in 0..MaxProbes /\ window' \in 0..Window
    BY <1>1, IpBanAssumption
  <2> QED
    BY <1>1, <1>2, <1>4, <2>1 DEF IpBanTypeOK, Ages
<1>6. OldestFirst' /\ CounterIsRecent'
  BY <1>1 DEF BanInv, OldestFirst, CounterIsRecent
<1>7. EnoughToBan'
  BY <1>1, <1>4 DEF BanInv, EnoughToBan, Recent
<1>8. ASSUME ~failed'
      PROVE  (ThresholdBans /\ ClearedAtOnce /\ OneCounterBefore)'
  <2>1. ThresholdBans'
    BY <1>1, <1>3 DEF ThresholdBans
  <2>2. ban = BanTtl
    BY <1>1, <1>8 DEF BanInv, ClearedAtOnce
  <2>3. ClearedAtOnce'
    BY <1>1, <2>2 DEF ClearedAtOnce
  <2>4. \A i \in 1..Len(probes) : ~(probes[i] + ban < BanTtl)
    BY <1>3, <2>2
  <2>5. Earlier' = Len(probes)
    BY <1>1, <1>3 DEF Earlier
  <2>6. OneCounterBefore'
    BY <1>1, <2>4, <2>5 DEF OneCounterBefore, SinceBan
  <2> QED
    BY <2>1, <2>3, <2>6
<1> QED
  BY <1>5, <1>6, <1>7, <1>8 DEF BanInv
\* A counter loses the probe that opened it in the tick it ends with.
LEMMA BanTickStep ==
  ASSUME BanInv, Tick
  PROVE  BanInv'
<1> DEFINE n == Len(probes)
<1>1. /\ IpBanTypeOK /\ OldestFirst /\ CounterIsRecent
      /\ ~failed => ThresholdBans /\ OneCounterBefore
  BY DEF BanInv
<1>2. /\ \A r \in Requests : requests[r] \notin {"ban", "clear"}
      /\ window' = (IF window > 0 THEN window - 1 ELSE 0)
      /\ attempts' = (IF window > 1 THEN attempts ELSE 0)
      /\ ban' = (IF ban > 0 THEN ban - 1 ELSE 0)
      /\ probes' = Aged /\ UNCHANGED <<requests, failed>>
  BY DEF Tick
<1>3. /\ n \in Nat /\ window \in 0..Window /\ ban \in 0..BanTtl
      /\ \A i \in 1..n : probes[i] \in Nat /\ probes[i] < Window
      /\ attempts \in Nat /\ Window \in Nat \ {0} /\ BanTtl \in Nat \ {0}
      /\ MaxAttempts \in Nat \ {0}
      /\ attempts = 0 <=> window = 0
      /\ attempts \in 0..MaxProbes /\ n <= MaxProbes /\ MaxProbes \in Nat
  <2>1. IpBanTypeOK
    BY <1>1
  <2> QED
    BY <2>1, ProbesAre, IpBanAssumption DEF IpBanTypeOK
<1>4. PICK g \in 0..n :
        /\ Aged = [i \in 1..(n - g) |-> probes[g + i] + 1]
        /\ \A i \in 1..g : probes[i] + 1 = Window
        /\ \A i \in (g + 1)..n : probes[i] + 1 < Window
  BY <1>1, AgedIs
<1>5. n - g \in Nat /\ \A i \in 1..(n - g) : g + i \in (g + 1)..n /\ g + i \in 1..n
  BY <1>3, <1>4
<1>6. /\ probes' \in Seq(Ages) /\ Len(probes') = n - g
      /\ \A i \in 1..(n - g) : probes'[i] = probes[g + i] + 1
  <2>1. \A i \in 1..(n - g) : probes[g + i] + 1 \in Ages
    BY <1>3, <1>4, <1>5 DEF Ages
  <2>2. probes' = [i \in 1..(n - g) |-> probes[g + i] + 1]
    BY <1>2, <1>4
  <2> QED
    BY <1>5, <2>1, <2>2
<1>7. IpBanTypeOK'
  <2>1. attempts' \in 0..MaxProbes /\ window' \in 0..Window /\ ban' \in 0..BanTtl
    BY <1>2, <1>3
  <2>2. attempts' = 0 <=> window' = 0
    BY <1>2, <1>3
  <2>3. /\ Len(probes') <= MaxProbes
        /\ requests' \in [Requests -> {"idle", "count", "ban", "clear"}]
        /\ failed' \in BOOLEAN
    BY <1>1, <1>2, <1>3, <1>6 DEF IpBanTypeOK
  <2> QED
    BY <1>6, <2>1, <2>2, <2>3 DEF IpBanTypeOK, Ages
<1>8. OldestFirst'
  <2>1. ASSUME NEW i \in 1..(n - g), NEW j \in 1..(n - g), i <= j
        PROVE  probes'[j] <= probes'[i]
    <3>1. g + i \in 1..n /\ g + j \in 1..n /\ g + i <= g + j
      BY <1>5, <2>1
    <3>2. probes[g + j] <= probes[g + i]
      BY <1>1, <3>1 DEF OldestFirst
    <3> QED
      BY <1>3, <1>6, <3>1, <3>2
  <2> QED
    BY <1>6, <2>1 DEF OldestFirst
<1>9. ASSUME window > 1
      PROVE  /\ attempts' = attempts /\ attempts > 0 /\ window' = window - 1
             /\ g <= Earlier /\ Earlier' = Earlier - g /\ Earlier < n
             /\ attempts <= n /\ probes[Earlier + 1] + window = Window
  <2>1. attempts > 0 /\ attempts' = attempts /\ window' = window - 1
    BY <1>2, <1>3, <1>9
  <2>2. attempts <= n /\ probes[Earlier + 1] + window = Window
    BY <1>1, <2>1 DEF CounterIsRecent
  <2>3. Earlier \in Int /\ Earlier + 1 \in 1..n
    BY <1>3, <2>1, <2>2 DEF Earlier
  <2>4. probes[Earlier + 1] + 1 < Window
    BY <1>3, <1>9, <2>2, <2>3
  <2>5. ~(Earlier + 1 \in 1..g)
    BY <1>3, <1>4, <2>3, <2>4
  <2>6. g <= Earlier
    BY <1>3, <1>4, <2>3, <2>5
  <2>7. Earlier' = Earlier - g
    BY <1>3, <1>4, <1>6, <2>1 DEF Earlier
  <2> QED
    BY <1>3, <2>1, <2>2, <2>3, <2>6, <2>7
<1>10. CounterIsRecent'
  <2> SUFFICES ASSUME attempts' > 0
               PROVE  attempts' <= Len(probes') /\ probes'[Earlier' + 1] + window' = Window
    BY DEF CounterIsRecent
  <2>1. window > 1
    BY <1>2, <1>3
  <2>2. Earlier \in Nat /\ (Earlier - g) + 1 \in 1..(n - g) /\ g + ((Earlier - g) + 1) = Earlier + 1
    BY <1>3, <1>4, <1>9, <2>1 DEF Earlier
  <2>3. probes'[(Earlier - g) + 1] = probes[Earlier + 1] + 1
    BY <1>6, <2>2
  <2>4. attempts <= n - g
    BY <1>3, <1>4, <1>9, <2>1 DEF Earlier
  <2>5. probes[Earlier + 1] \in Nat
    BY <1>3, <1>9, <2>1, <2>2
  <2> QED
    BY <1>3, <1>6, <1>9, <2>1, <2>2, <2>3, <2>4, <2>5
<1>11. EnoughToBan' /\ ClearedAtOnce'
  BY <1>2 DEF EnoughToBan, ClearedAtOnce
<1>12. ASSUME ~failed'
       PROVE  (ThresholdBans /\ OneCounterBefore)'
  <2>1. ThresholdBans /\ OneCounterBefore
    BY <1>1, <1>2, <1>12
  <2>2. attempts < MaxAttempts
    BY <1>2, <1>3, <2>1 DEF ThresholdBans
  <2>3. ThresholdBans'
    BY <1>2, <1>3, <2>2 DEF ThresholdBans
  <2>4. \A i \in 1..Earlier : probes[i] + ban < BanTtl =>
          /\ (Earlier - i) + 3 <= MaxAttempts
          /\ IF attempts > 0 THEN probes[i] + window > Window ELSE probes[i] > 0
    BY <2>1 DEF OneCounterBefore, SinceBan
  <2>5. ASSUME NEW i \in 1..Earlier', probes'[i] + ban' < BanTtl
        PROVE  /\ (Earlier' - i) + 3 <= MaxAttempts
               /\ IF attempts' > 0 THEN probes'[i] + window' > Window
                                   ELSE probes'[i] > 0
    <3>1. /\ Earlier' = n - g - attempts' /\ attempts' \in Nat /\ i \in 1..(n - g)
          /\ Earlier = n - attempts
      BY <1>2, <1>3, <1>4, <1>6 DEF Earlier
    <3>2. /\ probes'[i] = probes[g + i] + 1 /\ probes[g + i] \in Nat
          /\ g + i \in (g + 1)..n
      BY <1>3, <1>5, <1>6, <3>1
    <3>3. probes[g + i] + ban < BanTtl
      BY <1>2, <1>3, <2>5, <3>2
    <3>4. CASE window > 1
      <4>1. Earlier' = Earlier - g /\ attempts' = attempts /\ attempts > 0
            /\ window' = window - 1
        BY <1>9, <3>4
      <4>2. g + i \in 1..Earlier
        BY <1>3, <1>4, <3>1, <4>1
      <4>3. (Earlier - (g + i)) + 3 <= MaxAttempts /\ probes[g + i] + window > Window
        BY <2>4, <3>3, <4>1, <4>2
      <4> QED
        BY <1>3, <1>4, <3>1, <3>2, <4>1, <4>3
    <3>5. CASE window = 1
      <4>1. attempts > 0 /\ attempts' = 0
        BY <1>2, <1>3, <3>5
      <4>2. attempts <= n /\ probes[Earlier + 1] + 1 = Window
        BY <1>1, <3>5, <4>1 DEF CounterIsRecent
      <4>3. Earlier + 1 \in 1..n
        BY <1>3, <3>1, <4>1, <4>2
      <4>4. ~(Earlier + 1 \in (g + 1)..n)
        BY <1>3, <1>4, <4>2, <4>3
      <4>5. Earlier + 1 <= g
        BY <1>3, <1>4, <3>1, <4>3, <4>4
      <4>6. (Earlier' - i) + 3 <= MaxAttempts
        BY <1>3, <1>4, <2>2, <3>1, <4>1, <4>5
      <4> QED
        BY <3>2, <4>1, <4>6
    <3>6. CASE window = 0
      <4>1. attempts = 0 /\ attempts' = 0
        BY <1>2, <1>3, <3>6
      <4>2. g + i \in 1..Earlier
        BY <1>3, <1>4, <3>1, <4>1
      <4>3. (Earlier - (g + i)) + 3 <= MaxAttempts
        BY <2>4, <3>3, <4>2
      <4> QED
        BY <1>3, <1>4, <3>1, <3>2, <4>1, <4>3
    <3> QED
      BY <1>3, <3>4, <3>5, <3>6
  <2>6. OneCounterBefore'
    BY <2>5 DEF OneCounterBefore, SinceBan
  <2> QED
    BY <2>3, <2>6
<1> QED
  BY <1>2, <1>7, <1>8, <1>10, <1>11, <1>12 DEF BanInv

LEMMA BanInvStep == BanInv /\ [BanNext]_banVars => BanInv'
<1> SUFFICES ASSUME BanInv, [BanNext]_banVars
             PROVE  BanInv'
  OBVIOUS
<1>1. failed \in BOOLEAN
  BY DEF BanInv, IpBanTypeOK
<1>2. ASSUME NEW r \in Requests, Refuse(r) \/ NotFound(r) \/ RegisterStep(r) \/ Crash(r)
      PROVE  BanInv'
  <2>1. CASE NotFound(r)
    <3>1. /\ requests[r] = "idle" /\ Goto(r, "count")
          /\ UNCHANGED <<attempts, window, ban, probes>>
          /\ failed' = failed \/ failed' = TRUE
      BY <2>1 DEF NotFound
    <3>2. CASE failed' = failed
      BY <1>1, <3>1, <3>2, OnlyMoves
    <3>3. CASE failed' = TRUE
      BY <3>1, <3>3, OnlyMoves
    <3> QED
      BY <3>1, <3>2, <3>3
  <2>2. CASE ClearFails(r) \/ Crash(r)
    <3>1. /\ Goto(r, "idle") /\ failed' = TRUE
          /\ UNCHANGED <<attempts, window, ban, probes>>
      BY <2>2 DEF ClearFails, Crash
    <3> QED
      BY <3>1, OnlyMoves
  <2>3. CASE Refuse(r)
    <3>1. UNCHANGED <<attempts, window, ban, requests, probes, failed>>
      BY <2>3 DEF Refuse, banVars
    <3> QED
      BY <3>1 DEF BanInv, IpBanTypeOK, Ages, OldestFirst, CounterIsRecent, EnoughToBan,
        ThresholdBans, ClearedAtOnce, OneCounterBefore, SinceBan, Recent, Earlier
  <2> QED
    BY <1>2, <2>1, <2>2, <2>3, CountStep, CountFailsStep, BanStep, ClearStep
    DEF RegisterStep
<1>3. CASE UNCHANGED banVars
  <2>1. UNCHANGED <<attempts, window, ban, requests, probes, failed>>
    BY <1>3 DEF banVars
  <2> QED
    BY <2>1 DEF BanInv, IpBanTypeOK, Ages, OldestFirst, CounterIsRecent, EnoughToBan,
      ThresholdBans, ClearedAtOnce, OneCounterBefore, SinceBan, Recent, Earlier
<1> QED
  BY <1>2, <1>3, BanTickStep DEF BanNext

\* The ip ban: no counter lives without an expiry, and the state is well formed.
THEOREM BanTypeCorrect == BanSpec => []IpBanTypeOK
<1>1. BanInv => IpBanTypeOK
  BY DEF BanInv
<1> QED
  BY BanInitial, BanInvStep, <1>1, PTL DEF BanSpec

\* countBan: a ban is only ever set or prolonged with as many probes in the
\* window as the threshold asks for.
THEOREM BansAreEarned == BanSpec => BanIsEarned
<1>1. BanInv /\ [BanNext]_banVars => [ban' > ban => Recent >= MaxAttempts]_banVars
  <2> SUFFICES ASSUME BanInv, BanNext, ban' > ban
               PROVE  Recent >= MaxAttempts
    BY DEF banVars
  <2>1. ban \in Nat
    BY IpBanAssumption DEF BanInv, IpBanTypeOK
  <2>2. ~(ban' = ban)
    BY <2>1
  <2>3. ~Tick
    BY <2>1 DEF Tick
  <2>4. PICK r \in Requests : Ban(r) \/ BanFails(r)
    BY <2>2, <2>3 DEF BanNext, RegisterStep, Refuse, NotFound, Count, CountFails,
      Clear, ClearFails, Crash, banVars
  <2>5. requests[r] = "ban"
    BY <2>4 DEF Ban, BanFails
  <2> QED
    BY <2>5 DEF BanInv, EnoughToBan
<1> QED
  BY BanInitial, BanInvStep, <1>1, PTL DEF BanSpec, BanIsEarned

\* Who is not banned has nearly twice the threshold's probes in a window, at most,
\* with a ban that is at least as long as the window.
LEMMA TwoWindowsFill ==
  ASSUME BanInv, Window <= BanTtl
  PROVE  TwoWindowsAtMost
<1> DEFINE n == Len(probes)
<1> SUFFICES ASSUME ban = 0, ~failed, \A r \in Requests : requests[r] # "ban", n # 0
             PROVE  n + 3 <= 2 * MaxAttempts
  BY DEF TwoWindowsAtMost, Recent
<1>1. /\ IpBanTypeOK /\ CounterIsRecent
      /\ ThresholdBans /\ ClearedAtOnce /\ OneCounterBefore
  BY DEF BanInv
<1>2. /\ n \in Nat /\ Window \in Nat \ {0} /\ BanTtl \in Nat \ {0}
      /\ \A i \in 1..n : probes[i] \in Nat /\ probes[i] < Window
      /\ attempts \in Nat /\ MaxAttempts \in Nat \ {0} /\ window \in 0..Window
  BY <1>1, ProbesAre
<1>3. \A r \in Requests : requests[r] # "clear"
  BY <1>1, <1>2 DEF ClearedAtOnce
<1>4. attempts < MaxAttempts
  BY <1>1, <1>2, <1>3 DEF ThresholdBans
<1>5. Earlier = n - attempts /\ Earlier \in 0..n
  <2>1. attempts <= n
    BY <1>1, <1>2 DEF CounterIsRecent
  <2> QED
    BY <1>2, <2>1 DEF Earlier
<1>6. CASE Earlier = 0
  BY <1>2, <1>4, <1>5, <1>6
<1>7. CASE Earlier > 0
  <2>1. 1 \in 1..Earlier /\ probes[1] + ban < BanTtl
    BY <1>2, <1>5, <1>7
  <2>2. (Earlier - 1) + 3 <= MaxAttempts
    BY <1>1, <2>1 DEF OneCounterBefore, SinceBan
  <2> QED
    BY <1>2, <1>4, <1>5, <2>2
<1> QED
  BY <1>5, <1>6, <1>7

\* countBan: the fixed window lets an address make nearly twice the threshold's
\* probes, and no more, if bans last at least as long as the window.
THEOREM TwoWindowsSuffice ==
  ASSUME Window <= BanTtl
  PROVE  BanSpec => []TwoWindowsAtMost
<1>1. BanInv => TwoWindowsAtMost
  BY TwoWindowsFill
<1> QED
  BY BanInitial, BanInvStep, <1>1, PTL DEF BanSpec

-----------------------------------------------------------------------------
(* Cache keys: what FlattenSeq makes of texts *)

\* What the recursive function inside FlattenSeq has to satisfy.
Flattens(f, texts) ==
  f = [i \in 1..Len(texts) |-> IF i = 1 THEN texts[i] ELSE f[i - 1] \o texts[i]]

LEMMA FlatteningOf ==
  ASSUME NEW texts \in Seq(Texts), NEW f, Flattens(f, texts)
  PROVE  f \in [1..Len(texts) -> Texts]
<1> DEFINE S == {n \in Nat : \A i \in 1..Len(texts) : i <= n => f[i] \in Texts}
<1>1. 0 \in S
  OBVIOUS
<1>2. ASSUME NEW n \in Nat, n \in S PROVE n + 1 \in S
  <2> SUFFICES ASSUME NEW i \in 1..Len(texts), i <= n + 1 PROVE f[i] \in Texts
    OBVIOUS
  <2>1. CASE i <= n
    BY <1>2, <2>1
  <2>2. CASE i = 1
    <3>1. f[i] = texts[i]
      BY <2>2 DEF Flattens
    <3> QED
      BY <3>1
  <2>3. CASE i = n + 1 /\ i # 1
    <3>1. i - 1 \in 1..Len(texts) /\ i - 1 <= n
      BY <2>3
    <3>2. f[i - 1] \in Texts
      BY <1>2, <3>1
    <3>3. f[i] = f[i - 1] \o texts[i]
      BY <2>3 DEF Flattens
    <3> QED
      BY <3>2, <3>3, ConcatProperties DEF Texts
  <2> QED
    BY <2>1, <2>2, <2>3
<1> HIDE DEF S
<1>3. Nat \subseteq S
  BY <1>1, <1>2, SetInduction
<1>4. ASSUME NEW i \in 1..Len(texts) PROVE f[i] \in Texts
  <2>1. i \in S
    BY <1>3
  <2> QED
    BY <2>1 DEF S
<1>5. f = [i \in 1..Len(texts) |-> f[i]]
  BY DEF Flattens
<1> QED
  BY <1>4, <1>5

LEMMA FlatteningsAgree ==
  ASSUME NEW texts \in Seq(Texts), NEW more \in Seq(Texts), NEW f, NEW g,
         Flattens(f, texts), Flattens(g, more), Len(texts) <= Len(more),
         \A i \in 1..Len(texts) : texts[i] = more[i]
  PROVE  \A i \in 1..Len(texts) : f[i] = g[i]
<1> DEFINE S == {n \in Nat : \A i \in 1..Len(texts) : i <= n => f[i] = g[i]}
<1>1. 0 \in S
  OBVIOUS
<1>2. ASSUME NEW n \in Nat, n \in S PROVE n + 1 \in S
  <2> SUFFICES ASSUME NEW i \in 1..Len(texts), i <= n + 1 PROVE f[i] = g[i]
    OBVIOUS
  <2>0. i \in 1..Len(more)
    OBVIOUS
  <2>1. CASE i <= n
    BY <1>2, <2>1
  <2>2. CASE i = 1
    BY <2>0, <2>2 DEF Flattens
  <2>3. CASE i = n + 1 /\ i # 1
    <3>1. i - 1 \in 1..Len(texts) /\ i - 1 <= n
      BY <2>3
    <3>2. f[i - 1] = g[i - 1]
      BY <1>2, <3>1
    <3>3. f[i] = f[i - 1] \o texts[i] /\ g[i] = g[i - 1] \o more[i]
      BY <2>0, <2>3 DEF Flattens
    <3> QED
      BY <3>2, <3>3
  <2> QED
    BY <2>1, <2>2, <2>3
<1> HIDE DEF S
<1>3. Nat \subseteq S
  BY <1>1, <1>2, SetInduction
<1>4. ASSUME NEW i \in 1..Len(texts) PROVE f[i] = g[i]
  <2>1. i \in S
    BY <1>3
  <2> QED
    BY <2>1 DEF S
<1> QED
  BY <1>4

\* Such a function exists, for every number of texts.
LEMMA FlatteningExists ==
  ASSUME NEW texts \in Seq(Texts)
  PROVE  \E f : Flattens(f, texts)
<1> DEFINE upTo(m) == [i \in 1..m |-> texts[i]]
           S == {m \in Nat : m <= Len(texts) => \E f : Flattens(f, upTo(m))}
<1>1. ASSUME NEW m \in Nat, m <= Len(texts)
      PROVE  upTo(m) \in Seq(Texts) /\ Len(upTo(m)) = m
  <2>1. \A i \in 1..m : texts[i] \in Texts
    BY <1>1
  <2> QED
    BY <2>1, IsASeq
<1>2. 0 \in S
  <2> SUFFICES \E f : Flattens(f, upTo(0))
    OBVIOUS
  <2>1. Len(upTo(0)) = 0
    BY <1>1
  <2> HIDE DEF upTo
  <2>2. Flattens([i \in 1..0 |-> <<>>], upTo(0))
    <3>1. \A i \in 1..Len(upTo(0)) : FALSE
      BY <2>1
    <3> QED
      BY <2>1, <3>1 DEF Flattens
  <2> QED
    BY <2>2
<1>3. ASSUME NEW m \in Nat, m \in S PROVE m + 1 \in S
  <2> SUFFICES ASSUME m + 1 <= Len(texts) PROVE \E f : Flattens(f, upTo(m + 1))
    <3> HIDE DEF upTo
    <3> QED
      OBVIOUS
  <2>1. PICK f : Flattens(f, upTo(m))
    BY <1>3
  <2> DEFINE t == upTo(m + 1)
             g == [i \in 1..(m + 1) |->
                     IF i <= m THEN f[i] ELSE IF i = 1 THEN t[i] ELSE f[i - 1] \o t[i]]
  <2>2. Len(t) = m + 1 /\ Len(upTo(m)) = m
    BY <1>1
  <2>3. \A i \in 1..m : t[i] = upTo(m)[i]
    OBVIOUS
  <2>4. ASSUME NEW i \in 1..(m + 1)
        PROVE  g[i] = IF i = 1 THEN t[i] ELSE g[i - 1] \o t[i]
    <3> HIDE DEF t, upTo
    <3>1. CASE i <= m
      <4>1. g[i] = f[i] /\ i \in 1..m
        BY <3>1
      <4>2. f[i] = IF i = 1 THEN upTo(m)[i] ELSE f[i - 1] \o upTo(m)[i]
        BY <2>1, <2>2, <4>1 DEF Flattens
      <4>3. i # 1 => g[i - 1] = f[i - 1]
        BY <3>1
      <4> QED
        BY <2>3, <4>1, <4>2, <4>3
    <3>2. CASE i = m + 1
      <4>1. i # 1 => g[i - 1] = f[i - 1]
        BY <3>2
      <4>2. g[i] = IF i = 1 THEN t[i] ELSE f[i - 1] \o t[i]
        BY <3>2
      <4> QED
        BY <4>1, <4>2
    <3> QED
      BY <3>1, <3>2
  <2>5. Flattens(g, t)
    <3> HIDE DEF t, upTo
    <3>1. g = [i \in 1..(m + 1) |-> g[i]]
      OBVIOUS
    <3> HIDE DEF g
    <3> QED
      BY <2>2, <2>4, <3>1 DEF Flattens
  <2> QED
    BY <2>5
<1>4. texts = upTo(Len(texts))
  OBVIOUS
<1> HIDE DEF S
<1>5. Nat \subseteq S
  BY <1>2, <1>3, SetInduction
<1>6. Len(texts) \in S
  BY <1>5
<1> QED
  BY <1>4, <1>6 DEF S

LEMMA FlattenSeqIs ==
  ASSUME NEW texts \in Seq(Texts), texts # <<>>
  PROVE  \E f : Flattens(f, texts) /\ FlattenSeq(texts) = f[Len(texts)]
<1> DEFINE f == CHOOSE f : Flattens(f, texts)
<1>1. Flattens(f, texts)
  BY FlatteningExists
<1>2. FlattenSeq(texts) = f[Len(texts)]
  BY EmptySeq DEF FlattenSeq, Flattens
<1> QED
  BY <1>1, <1>2

LEMMA FlattenEmpty == FlattenSeq(<<>>) = <<>>
BY DEF FlattenSeq

\* The first n of some texts, one after the other.
First(texts, n) == FlattenSeq([i \in 1..n |-> texts[i]])

LEMMA UpToIs ==
  ASSUME NEW n \in Nat, NEW texts, \A i \in 1..n : texts[i] \in Texts
  PROVE  /\ [i \in 1..n |-> texts[i]] \in Seq(Texts)
         /\ Len([i \in 1..n |-> texts[i]]) = n
BY IsASeq

LEMMA FirstIsText ==
  ASSUME NEW n \in Nat, NEW texts, \A i \in 1..n : texts[i] \in Texts
  PROVE  First(texts, n) \in Texts
<1> DEFINE s == [i \in 1..n |-> texts[i]]
<1>1. s \in Seq(Texts) /\ Len(s) = n
  BY UpToIs
<1>2. First(texts, n) = FlattenSeq(s)
  BY DEF First
<1> HIDE DEF s
<1>3. CASE s = <<>>
  <2>1. <<>> \in Texts
    BY DEF Texts
  <2> QED
    BY <1>2, <1>3, <2>1, FlattenEmpty
<1>4. CASE s # <<>>
  <2>1. PICK f : Flattens(f, s) /\ FlattenSeq(s) = f[Len(s)]
    BY <1>1, <1>4, FlattenSeqIs
  <2>2. f \in [1..n -> Texts]
    BY <1>1, <2>1, FlatteningOf
  <2>3. n \in 1..n
    BY <1>1, <1>4, EmptySeq
  <2> QED
    BY <1>1, <1>2, <2>1, <2>2, <2>3
<1> QED
  BY <1>3, <1>4

LEMMA FirstOfNone ==
  ASSUME NEW texts
  PROVE  First(texts, 0) = <<>>
<1>1. [i \in 1..0 |-> texts[i]] = <<>>
  OBVIOUS
<1> QED
  BY <1>1, FlattenEmpty DEF First

LEMMA FirstAndNext ==
  ASSUME NEW n \in Nat, NEW texts, \A i \in 1..(n + 1) : texts[i] \in Texts
  PROVE  First(texts, n + 1) = First(texts, n) \o texts[n + 1]
<1> DEFINE s == [i \in 1..n |-> texts[i]]
           t == [i \in 1..(n + 1) |-> texts[i]]
<1>1. s \in Seq(Texts) /\ Len(s) = n
  BY UpToIs
<1>2. t \in Seq(Texts) /\ Len(t) = n + 1
  BY UpToIs
<1>3. First(texts, n) = FlattenSeq(s) /\ First(texts, n + 1) = FlattenSeq(t)
  BY DEF First
<1>4. t[n + 1] = texts[n + 1] /\ \A i \in 1..n : t[i] = s[i]
  OBVIOUS
<1>a. texts[n + 1] \in Texts
  OBVIOUS
<1> HIDE DEF s, t
<1>5. t # <<>>
  BY <1>2
<1>6. PICK g : Flattens(g, t) /\ FlattenSeq(t) = g[n + 1]
  BY <1>2, <1>5, FlattenSeqIs
<1>7. CASE n = 0
  <2>1. s = <<>>
    BY <1>1, <1>7, EmptySeq
  <2>2. g[n + 1] = t[n + 1]
    BY <1>2, <1>6, <1>7 DEF Flattens
  <2>3. <<>> \o texts[n + 1] = texts[n + 1]
    BY <1>a, ConcatEmptySeq DEF Texts
  <2> QED
    BY <1>3, <1>4, <1>6, <2>1, <2>2, <2>3, FlattenEmpty
<1>8. CASE n # 0
  <2>1. s # <<>>
    BY <1>1, <1>8
  <2>2. PICK f : Flattens(f, s) /\ FlattenSeq(s) = f[n]
    BY <1>1, <2>1, FlattenSeqIs
  <2>3. \A i \in 1..n : f[i] = g[i]
    <3>1. \A i \in 1..Len(s) : s[i] = t[i]
      BY <1>1, <1>4
    <3>2. \A i \in 1..Len(s) : f[i] = g[i]
      BY <1>1, <1>2, <1>6, <2>2, <3>1, FlatteningsAgree
    <3> QED
      BY <1>1, <3>2
  <2>4. g[n + 1] = g[n] \o t[n + 1]
    <3>1. n + 1 \in 1..Len(t) /\ n + 1 # 1 /\ (n + 1) - 1 = n
      BY <1>2, <1>8
    <3>2. g[n + 1] = g[(n + 1) - 1] \o t[n + 1]
      BY <1>6, <3>1 DEF Flattens
    <3> QED
      BY <3>1, <3>2
  <2>5. n \in 1..n
    BY <1>8
  <2> QED
    BY <1>3, <1>4, <1>6, <2>2, <2>3, <2>4, <2>5
<1> QED
  BY <1>7, <1>8

-----------------------------------------------------------------------------
(* Cache keys: texts and where they may be cut *)

a ++ b == a \o b

One(t) == <<t>>

LEMMA Catenated ==
  ASSUME NEW a \in Texts, NEW b \in Texts
  PROVE  /\ a ++ b \in Texts
         /\ Len(a) \in Nat /\ Len(b) \in Nat /\ Len(a ++ b) = Len(a) + Len(b)
<1>1. a \o b \in Texts /\ Len(a) \in Nat /\ Len(b) \in Nat /\ Len(a \o b) = Len(a) + Len(b)
  BY ConcatProperties DEF Texts
<1> QED
  BY <1>1 DEF ++

LEMMA InFront ==
  ASSUME NEW a \in Texts, NEW b \in Texts, NEW i \in 1..Len(a)
  PROVE  a[i] \in Tokens /\ (a ++ b)[i] = a[i]
BY ConcatProperties, ElementOfSeq DEF Texts, ++

LEMMA InBack ==
  ASSUME NEW a \in Texts, NEW b \in Texts, NEW i \in 1..Len(b)
  PROVE  (a ++ b)[Len(a) + i] = b[i]
<1>1. Len(a) \in Nat /\ Len(b) \in Nat
  BY Catenated
<1>2. Len(a) + i \in 1..(Len(a) + Len(b)) /\ ~(Len(a) + i <= Len(a))
  BY <1>1
<1>3. (Len(a) + i) - Len(a) = i
  BY <1>1
<1>4. (a \o b)[Len(a) + i] = b[i]
  BY <1>1, <1>2, <1>3, ConcatProperties DEF Texts
<1> QED
  BY <1>4 DEF ++

LEMMA Associative ==
  ASSUME NEW a \in Texts, NEW b \in Texts, NEW c \in Texts
  PROVE  (a ++ b) ++ c = a ++ (b ++ c)
<1>1. (a \o b) \o c = a \o (b \o c)
  BY ConcatAssociative DEF Texts
<1> QED
  BY <1>1 DEF ++

LEMMA OneToken ==
  ASSUME NEW t \in Tokens
  PROVE  One(t) \in Texts /\ Len(One(t)) = 1 /\ One(t)[1] = t
BY DEF Texts, One

LEMMA NoToken ==
  ASSUME NEW a \in Texts
  PROVE  <<>> \in Texts /\ <<>> ++ a = a /\ a ++ <<>> = a
<1>1. <<>> \in Texts /\ <<>> \o a = a /\ a \o <<>> = a
  BY ConcatEmptySeq DEF Texts
<1> QED
  BY <1>1 DEF ++

LEMMA SameTexts ==
  ASSUME NEW a \in Texts, NEW b \in Texts, Len(a) = Len(b),
         \A i \in 1..Len(a) : a[i] = b[i]
  PROVE  a = b
BY SeqEqual DEF Texts

LEMMA TwoTokens ==
  ASSUME NEW t \in Tokens, NEW u \in Tokens
  PROVE  <<t, u>> = One(t) ++ One(u)
<1> DEFINE a == One(t)
           b == One(u)
           c == <<t, u>>
<1>1. a \in Texts /\ Len(a) = 1 /\ a[1] = t /\ b \in Texts /\ Len(b) = 1 /\ b[1] = u
  BY OneToken
<1>2. c \in Texts /\ Len(c) = 2 /\ c[1] = t /\ c[2] = u
  BY DEF Texts
<1> HIDE DEF a, b, c
<1>3. a ++ b \in Texts /\ Len(a ++ b) = 2
  <2>1. a ++ b \in Texts /\ Len(a ++ b) = Len(a) + Len(b)
    BY <1>1, Catenated
  <2> QED
    BY <1>1, <2>1
<1>4. (a ++ b)[1] = t
  <2>1. 1 \in 1..Len(a)
    BY <1>1
  <2> QED
    BY <1>1, <2>1, InFront
<1>5. (a ++ b)[2] = u
  <2>1. 1 \in 1..Len(b) /\ Len(a) + 1 = 2
    BY <1>1
  <2> QED
    BY <1>1, <2>1, InBack
<1>6. \A i \in 1..Len(c) : i = 1 \/ i = 2
  BY <1>2
<1>7. \A i \in 1..Len(c) : c[i] = (a ++ b)[i]
  BY <1>2, <1>4, <1>5, <1>6
<1>8. c = a ++ b
  BY <1>2, <1>3, <1>7, SameTexts
<1> QED
  BY <1>8 DEF a, b, c

\* Texts may be parted where their parts have one length.
LEMMA PartedAfter ==
  ASSUME NEW a \in Texts, NEW b \in Texts, NEW x \in Texts, NEW y \in Texts,
         a ++ x = b ++ y, Len(a) = Len(b)
  PROVE  a = b /\ x = y
<1>1. /\ Len(a) \in Nat /\ Len(b) \in Nat /\ Len(x) \in Nat /\ Len(y) \in Nat
      /\ Len(a) + Len(x) = Len(b) + Len(y)
  <2>1. Len(a) \in Nat /\ Len(b) \in Nat /\ Len(x) \in Nat /\ Len(y) \in Nat
    BY Catenated
  <2>2. Len(a ++ x) = Len(a) + Len(x)
    BY Catenated
  <2>3. Len(b ++ y) = Len(b) + Len(y)
    BY Catenated
  <2> QED
    BY <2>1, <2>2, <2>3
<1>2. Len(x) = Len(y)
  BY <1>1
<1>3. \A i \in 1..Len(a) : a[i] = b[i]
  BY InFront
<1>4. ASSUME NEW i \in 1..Len(x) PROVE x[i] = y[i]
  <2>1. (a ++ x)[Len(a) + i] = x[i]
    BY InBack
  <2>2. (b ++ y)[Len(b) + i] = y[i]
    BY <1>2, InBack
  <2> QED
    BY <2>1, <2>2
<1>5. a = b
  BY <1>3, SameTexts
<1>6. x = y
  BY <1>2, <1>4, SameTexts
<1> QED
  BY <1>5, <1>6

LEMMA PartedBefore ==
  ASSUME NEW a \in Texts, NEW b \in Texts, NEW x \in Texts, NEW y \in Texts,
         a ++ x = b ++ y, Len(x) = Len(y)
  PROVE  a = b /\ x = y
<1>1. /\ Len(a) \in Nat /\ Len(b) \in Nat /\ Len(x) \in Nat /\ Len(y) \in Nat
      /\ Len(a) + Len(x) = Len(b) + Len(y)
  <2>1. Len(a) \in Nat /\ Len(b) \in Nat /\ Len(x) \in Nat /\ Len(y) \in Nat
    BY Catenated
  <2>2. Len(a ++ x) = Len(a) + Len(x)
    BY Catenated
  <2>3. Len(b ++ y) = Len(b) + Len(y)
    BY Catenated
  <2> QED
    BY <2>1, <2>2, <2>3
<1>2. Len(a) = Len(b)
  BY <1>1
<1> QED
  BY <1>2, PartedAfter

LacksToken(a, t) == \A i \in 1..Len(a) : a[i] # t

LEMMA NotLater ==
  ASSUME NEW t \in Tokens, NEW a \in Texts, NEW b \in Texts, NEW x \in Texts, NEW y \in Texts,
         a ++ (One(t) ++ x) = b ++ (One(t) ++ y), LacksToken(b, t)
  PROVE  Len(b) <= Len(a)
<1> SUFFICES ASSUME Len(a) < Len(b) PROVE FALSE
  BY Catenated
<1> DEFINE p == One(t) ++ x
           q == One(t) ++ y
<1>1. /\ One(t) \in Texts /\ p \in Texts /\ q \in Texts /\ Len(p) = 1 + Len(x)
      /\ Len(x) \in Nat /\ Len(a) \in Nat /\ Len(b) \in Nat
  <2>1. One(t) \in Texts /\ Len(One(t)) = 1
    BY OneToken
  <2>2. p \in Texts /\ Len(p) = 1 + Len(x) /\ Len(x) \in Nat
    BY <2>1, Catenated
  <2>3. q \in Texts
    BY <2>1, Catenated
  <2>4. Len(a) \in Nat /\ Len(b) \in Nat
    BY Catenated
  <2> QED
    BY <2>1, <2>2, <2>3, <2>4
<1>2. p[1] = t
  BY OneToken, InFront
<1>3. Len(a) + 1 \in 1..Len(b) /\ 1 \in 1..Len(p)
  BY <1>1
<1> HIDE DEF p, q
<1>4. (a ++ p)[Len(a) + 1] = t
  BY <1>1, <1>2, <1>3, InBack
<1>5. (b ++ q)[Len(a) + 1] = b[Len(a) + 1]
  BY <1>1, <1>3, InFront
<1> QED
  BY <1>3, <1>4, <1>5 DEF LacksToken, p, q

\* What stands before the first of a token may be told from what stands after it.
LEMMA CutFirst ==
  ASSUME NEW t \in Tokens, NEW a \in Texts, NEW b \in Texts, NEW x \in Texts, NEW y \in Texts,
         a ++ (One(t) ++ x) = b ++ (One(t) ++ y), LacksToken(a, t), LacksToken(b, t)
  PROVE  a = b /\ x = y
<1>1. Len(a) <= Len(b) /\ Len(b) <= Len(a)
  BY NotLater
<1>2. Len(a) = Len(b)
  BY <1>1, Catenated
<1>3. One(t) \in Texts /\ One(t) ++ x \in Texts /\ One(t) ++ y \in Texts
  BY OneToken, Catenated
<1>4. a = b /\ One(t) ++ x = One(t) ++ y
  BY <1>2, <1>3, PartedAfter
<1>5. x = y
  BY <1>3, <1>4, PartedAfter
<1> QED
  BY <1>4, <1>5

LEMMA NotEarlier ==
  ASSUME NEW t \in Tokens, NEW a \in Texts, NEW b \in Texts, NEW x \in Texts, NEW y \in Texts,
         (a ++ One(t)) ++ x = (b ++ One(t)) ++ y, LacksToken(y, t)
  PROVE  Len(y) <= Len(x)
<1> DEFINE p == a ++ One(t)
           q == b ++ One(t)
<1> SUFFICES ASSUME Len(x) < Len(y) PROVE FALSE
  BY Catenated
<1>1. Len(x) \in Nat /\ Len(y) \in Nat /\ Len(a) \in Nat /\ Len(b) \in Nat
  BY Catenated
<1>2. p \in Texts /\ Len(p) = Len(a) + 1 /\ q \in Texts /\ Len(q) = Len(b) + 1
  <2>1. One(t) \in Texts /\ Len(One(t)) = 1
    BY OneToken
  <2>2. p \in Texts /\ Len(p) = Len(a) + Len(One(t))
    BY <2>1, Catenated
  <2>3. q \in Texts /\ Len(q) = Len(b) + Len(One(t))
    BY <2>1, Catenated
  <2> QED
    BY <2>1, <2>2, <2>3
<1>3. p[Len(a) + 1] = t
  BY OneToken, InBack
<1>4. p ++ x = q ++ y
  OBVIOUS
<1> HIDE DEF p, q
<1>5. (Len(a) + 1) + Len(x) = (Len(b) + 1) + Len(y)
  <2>1. Len(p ++ x) = Len(p) + Len(x)
    BY <1>2, Catenated
  <2>2. Len(q ++ y) = Len(q) + Len(y)
    BY <1>2, Catenated
  <2> QED
    BY <1>2, <1>4, <2>1, <2>2
<1> DEFINE k == Len(a) - Len(b)
<1>6. k \in 1..Len(y) /\ Len(a) + 1 = Len(q) + k /\ Len(a) + 1 \in 1..Len(p)
  BY <1>1, <1>2, <1>5
<1> HIDE DEF k
<1>7. (p ++ x)[Len(a) + 1] = t
  BY <1>2, <1>3, <1>6, InFront
<1>8. (q ++ y)[Len(q) + k] = y[k]
  BY <1>2, <1>6, InBack
<1>9. y[k] = t
  BY <1>4, <1>6, <1>7, <1>8
<1> QED
  BY <1>6, <1>9 DEF LacksToken

\* The same for the last of a token.
LEMMA CutLast ==
  ASSUME NEW t \in Tokens, NEW a \in Texts, NEW b \in Texts, NEW x \in Texts, NEW y \in Texts,
         (a ++ One(t)) ++ x = (b ++ One(t)) ++ y, LacksToken(x, t), LacksToken(y, t)
  PROVE  a = b /\ x = y
<1>1. Len(x) <= Len(y)
  BY NotEarlier
<1>2. Len(y) <= Len(x)
  BY NotEarlier
<1>3. Len(x) = Len(y)
  BY <1>1, <1>2, Catenated
<1>4. One(t) \in Texts /\ a ++ One(t) \in Texts /\ b ++ One(t) \in Texts
  BY OneToken, Catenated
<1>5. a ++ One(t) = b ++ One(t) /\ x = y
  BY <1>3, <1>4, PartedBefore
<1>6. a = b
  BY <1>4, <1>5, PartedBefore
<1> QED
  BY <1>5, <1>6

-----------------------------------------------------------------------------
(* Cache keys: values, read from their right end *)

Equals == "="

LEMMA TokensAre ==
  /\ Separator \in Tokens /\ Quote \in Tokens /\ Backslash \in Tokens /\ Equals \in Tokens
  /\ Quote # Backslash /\ Quote # Equals /\ Backslash # Equals /\ Separator # Equals
BY CacheKeyAssumption DEF Separator, Quote, Backslash, Equals

LEMMA LastToken ==
  ASSUME NEW t \in Tokens, NEW a \in Texts, NEW b \in Texts, NEW x \in Texts,
         x # <<>>, a ++ x = b ++ One(t)
  PROVE  Len(x) \in 1..Len(x) /\ x[Len(x)] = t
<1>1. Len(x) \in Nat /\ Len(a) \in Nat /\ Len(b) \in Nat /\ Len(x) # 0
  <2>1. Len(x) # 0
    BY EmptySeq DEF Texts
  <2> QED
    BY <2>1, Catenated
<1>2. Len(x) \in 1..Len(x)
  BY <1>1
<1>3. One(t) \in Texts /\ Len(One(t)) = 1 /\ One(t)[1] = t
  BY OneToken
<1>4. Len(a) + Len(x) = Len(b) + 1
  <2>1. Len(a ++ x) = Len(a) + Len(x)
    BY Catenated
  <2>2. Len(b ++ One(t)) = Len(b) + Len(One(t))
    BY <1>3, Catenated
  <2> QED
    BY <1>3, <2>1, <2>2
<1>5. (a ++ x)[Len(a) + Len(x)] = x[Len(x)]
  BY <1>2, InBack
<1>6. (b ++ One(t))[Len(b) + 1] = t
  <2>1. 1 \in 1..Len(One(t))
    BY <1>3
  <2> QED
    BY <1>3, <2>1, InBack
<1> QED
  BY <1>2, <1>4, <1>5, <1>6

\* What Escape writes ends in the token itself.
Before(t) == IF t \in {Quote, Backslash} THEN One(Backslash) ELSE <<>>

LEMMA EscapeIs ==
  ASSUME NEW t \in Tokens
  PROVE  Escape(t) \in Texts /\ Before(t) \in Texts /\ Escape(t) = Before(t) ++ One(t)
<1>1. One(t) \in Texts /\ One(Backslash) \in Texts
  BY OneToken, TokensAre
<1>2. CASE t \in {Quote, Backslash}
  <2>1. Escape(t) = One(Backslash) ++ One(t)
    <3>1. <<Backslash, t>> = <<Backslash>> \o <<t>>
      OBVIOUS
    <3> QED
      BY <1>2, <3>1 DEF Escape, ++, One
  <2>2. Before(t) = One(Backslash)
    BY <1>2 DEF Before
  <2> QED
    BY <1>1, <2>1, <2>2, Catenated
<1>3. CASE t \notin {Quote, Backslash}
  <2>1. Escape(t) = One(t) /\ Before(t) = <<>>
    BY <1>3 DEF Escape, Before, One
  <2> QED
    BY <1>1, <2>1, NoToken
<1> QED
  BY <1>2, <1>3

\* The first n tokens of a text, escaped.
EscapedTo(v, n) == First([i \in DOMAIN v |-> Escape(v[i])], n)

LEMMA EscapedIs ==
  ASSUME NEW v \in Texts
  PROVE  Escaped(v) = EscapedTo(v, Len(v))
<1>1. DOMAIN v = 1..Len(v)
  BY DEF Texts
<1>2. [i \in 1..Len(v) |-> [j \in DOMAIN v |-> Escape(v[j])][i]] = [i \in DOMAIN v |-> Escape(v[i])]
  BY <1>1
<1> QED
  BY <1>2 DEF Escaped, EscapedTo, First

LEMMA EscapedToIs ==
  ASSUME NEW v \in Texts
  PROVE  /\ EscapedTo(v, 0) = <<>>
         /\ \A n \in 0..Len(v) : EscapedTo(v, n) \in Texts
         /\ \A n \in Nat : n + 1 \in 1..Len(v) =>
              /\ v[n + 1] \in Tokens
              /\ EscapedTo(v, n + 1) = EscapedTo(v, n) ++ Escape(v[n + 1])
<1> DEFINE texts == [i \in DOMAIN v |-> Escape(v[i])]
<1>1. Len(v) \in Nat /\ DOMAIN v = 1..Len(v) /\ \A i \in 1..Len(v) : v[i] \in Tokens
  BY ElementOfSeq DEF Texts
<1>2. \A i \in 1..Len(v) : texts[i] = Escape(v[i]) /\ texts[i] \in Texts
  BY <1>1, EscapeIs
<1>3. \A n : EscapedTo(v, n) = First(texts, n)
  BY DEF EscapedTo
<1> HIDE DEF texts
<1>4. EscapedTo(v, 0) = <<>>
  BY <1>3, FirstOfNone
<1>5. ASSUME NEW n \in 0..Len(v) PROVE EscapedTo(v, n) \in Texts
  <2>1. n \in Nat /\ \A i \in 1..n : texts[i] \in Texts
    BY <1>1, <1>2
  <2> QED
    BY <1>3, <2>1, FirstIsText
<1>6. ASSUME NEW n \in Nat, n + 1 \in 1..Len(v)
      PROVE  /\ v[n + 1] \in Tokens
             /\ EscapedTo(v, n + 1) = EscapedTo(v, n) ++ Escape(v[n + 1])
  <2>1. \A i \in 1..(n + 1) : texts[i] \in Texts
    BY <1>1, <1>2, <1>6
  <2>2. First(texts, n + 1) = First(texts, n) \o texts[n + 1]
    BY <2>1, FirstAndNext
  <2> QED
    BY <1>1, <1>2, <1>3, <1>6, <2>2 DEF ++
<1> QED
  BY <1>4, <1>5, <1>6

LEMMA EscapedIsText ==
  ASSUME NEW v \in Texts
  PROVE  Escaped(v) \in Texts
<1>1. Len(v) \in 0..Len(v)
  BY Catenated
<1> QED
  BY <1>1, EscapedIs, EscapedToIs

\* What is escaped may be told apart.
LEMMA EscapedToReads ==
  ASSUME NEW v \in Texts, NEW w \in Texts, NEW n \in 0..Len(v), NEW m \in 0..Len(w),
         EscapedTo(v, n) = EscapedTo(w, m)
  PROVE  n = m /\ \A i \in 1..n : v[i] = w[i]
<1> DEFINE Reads(p) ==
             p <= Len(v) =>
               \A q \in 0..Len(w) :
                 EscapedTo(v, p) = EscapedTo(w, q) => p = q /\ \A i \in 1..p : v[i] = w[i]
           S == {p \in Nat : Reads(p)}
<1>1. Len(v) \in Nat /\ Len(w) \in Nat
  BY Catenated
<1>2. ASSUME NEW u \in Texts, NEW p \in Nat, p + 1 \in 1..Len(u)
      PROVE  /\ EscapedTo(u, p) \in Texts /\ u[p + 1] \in Tokens
             /\ Before(u[p + 1]) \in Texts /\ One(u[p + 1]) \in Texts
             /\ EscapedTo(u, p) ++ Before(u[p + 1]) \in Texts
             /\ EscapedTo(u, p + 1) =
                  (EscapedTo(u, p) ++ Before(u[p + 1])) ++ One(u[p + 1])
             /\ EscapedTo(u, p + 1) # <<>>
  <2> DEFINE e == EscapedTo(u, p)
             t == u[p + 1]
  <2>1. p \in 0..Len(u) /\ Len(u) \in Nat
    BY <1>2, Catenated
  <2>2. e \in Texts /\ t \in Tokens /\ EscapedTo(u, p + 1) = e ++ Escape(t)
    BY <1>2, <2>1, EscapedToIs
  <2> HIDE DEF e, t
  <2>3. Before(t) \in Texts /\ One(t) \in Texts /\ Len(One(t)) = 1 /\ Escape(t) = Before(t) ++ One(t)
    BY <2>2, EscapeIs, OneToken
  <2>4. e ++ Before(t) \in Texts
    BY <2>2, <2>3, Catenated
  <2>5. EscapedTo(u, p + 1) = (e ++ Before(t)) ++ One(t)
    BY <2>2, <2>3, Associative
  <2>6. EscapedTo(u, p + 1) # <<>>
    <3>1. Len((e ++ Before(t)) ++ One(t)) = Len(e ++ Before(t)) + 1 /\ Len(e ++ Before(t)) \in Nat
      BY <2>3, <2>4, Catenated
    <3>2. Len(<<>>) = 0
      OBVIOUS
    <3> QED
      BY <2>5, <3>1, <3>2
  <2> QED
    BY <2>2, <2>3, <2>4, <2>5, <2>6 DEF e, t
<1>3. 0 \in S
  <2> SUFFICES ASSUME NEW q \in 0..Len(w), EscapedTo(v, 0) = EscapedTo(w, q), q # 0
               PROVE  FALSE
    OBVIOUS
  <2>1. q - 1 \in Nat /\ (q - 1) + 1 = q /\ q \in 1..Len(w)
    BY <1>1
  <2>2. EscapedTo(w, q) # <<>>
    BY <1>2, <2>1
  <2> QED
    BY <2>2, EscapedToIs
<1>4. ASSUME NEW p \in Nat, p \in S PROVE p + 1 \in S
  <2> SUFFICES ASSUME p + 1 <= Len(v), NEW q \in 0..Len(w),
                      EscapedTo(v, p + 1) = EscapedTo(w, q)
               PROVE  p + 1 = q /\ \A i \in 1..(p + 1) : v[i] = w[i]
    OBVIOUS
  <2> DEFINE t == v[p + 1]
             e == EscapedTo(v, p)
  <2>1. p + 1 \in 1..Len(v) /\ p <= Len(v)
    BY <1>1
  <2>2. /\ e \in Texts /\ t \in Tokens /\ Before(t) \in Texts /\ One(t) \in Texts
        /\ e ++ Before(t) \in Texts
        /\ EscapedTo(v, p + 1) = (e ++ Before(t)) ++ One(t) /\ EscapedTo(v, p + 1) # <<>>
    BY <1>2, <2>1
  <2>3. q # 0
    BY <2>2, EscapedToIs
  <2> DEFINE k == q - 1
             s == w[q]
             d == EscapedTo(w, k)
  <2>4. k \in Nat /\ k + 1 = q /\ q \in 1..Len(w) /\ k \in 0..Len(w)
    BY <1>1, <2>3
  <2>5. /\ d \in Texts /\ s \in Tokens /\ Before(s) \in Texts /\ One(s) \in Texts
        /\ d ++ Before(s) \in Texts
        /\ EscapedTo(w, q) = (d ++ Before(s)) ++ One(s)
    <3> HIDE DEF k
    <3>1. w[k + 1] = s
      BY <2>4
    <3> QED
      BY <1>2, <2>4, <3>1
  <2> HIDE DEF t, e, k, s, d
  <2>6. Len(One(t)) = 1 /\ One(t)[1] = t /\ Len(One(s)) = 1 /\ One(s)[1] = s
    BY <2>2, <2>5, OneToken
  <2>7. One(t) = One(s) /\ e ++ Before(t) = d ++ Before(s)
    BY <2>2, <2>5, <2>6, PartedBefore
  <2>8. t = s
    BY <2>6, <2>7
  <2>9. e = d
    BY <2>2, <2>5, <2>7, <2>8, PartedBefore
  <2>10. p = k /\ \A i \in 1..p : v[i] = w[i]
    BY <1>4, <2>1, <2>4, <2>9 DEF e, d
  <2>11. \A i \in 1..(p + 1) : i \in 1..p \/ i = p + 1
    OBVIOUS
  <2> QED
    BY <2>4, <2>8, <2>10, <2>11 DEF t, s
<1> HIDE DEF S
<1>5. Nat \subseteq S
  BY <1>3, <1>4, SetInduction
<1>6. n \in Nat /\ n <= Len(v)
  BY <1>1
<1> QED
  BY <1>5, <1>6 DEF S

LEMMA EscapedReads ==
  ASSUME NEW v \in Texts, NEW w \in Texts, Escaped(v) = Escaped(w)
  PROVE  v = w
<1>1. Len(v) \in 0..Len(v) /\ Len(w) \in 0..Len(w)
  BY Catenated
<1>2. EscapedTo(v, Len(v)) = EscapedTo(w, Len(w))
  BY EscapedIs
<1>3. Len(v) = Len(w) /\ \A i \in 1..Len(v) : v[i] = w[i]
  BY <1>1, <1>2, EscapedToReads
<1> QED
  BY <1>3, SameTexts

\* A quote inside what is escaped follows a backslash.
QuotesAreEscaped(e) ==
  \A k \in 1..Len(e) : e[k] = Quote => k > 1 /\ e[k - 1] = Backslash

LEMMA OneTokenMore ==
  ASSUME NEW e \in Texts, NEW t \in Tokens, QuotesAreEscaped(e)
  PROVE  QuotesAreEscaped(e ++ Escape(t))
<1> DEFINE s == e ++ Escape(t)
<1> SUFFICES ASSUME NEW k \in 1..Len(s), s[k] = Quote
             PROVE  k > 1 /\ s[k - 1] = Backslash
  BY DEF QuotesAreEscaped
<1>1. Escape(t) \in Texts /\ Len(e) \in Nat /\ Len(Escape(t)) \in Nat
  BY EscapeIs, Catenated
<1>2. Len(s) = Len(e) + Len(Escape(t))
  BY <1>1, Catenated
<1>3. CASE k <= Len(e)
  <2>1. k \in 1..Len(e)
    BY <1>1, <1>3
  <2>2. s[k] = e[k]
    BY <1>1, <2>1, InFront
  <2>3. k > 1 /\ e[k - 1] = Backslash
    BY <2>1, <2>2 DEF QuotesAreEscaped
  <2>4. k - 1 \in 1..Len(e)
    BY <1>1, <2>1, <2>3
  <2>5. s[k - 1] = e[k - 1]
    BY <1>1, <2>4, InFront
  <2> QED
    BY <2>3, <2>5
<1>4. CASE k > Len(e)
  <2> DEFINE i == k - Len(e)
  <2>1. i \in 1..Len(Escape(t)) /\ Len(e) + i = k
    BY <1>1, <1>2, <1>4
  <2> HIDE DEF i
  <2>2. Escape(t)[i] = Quote
    <3>1. s[Len(e) + i] = Escape(t)[i]
      BY <1>1, <2>1, InBack
    <3> QED
      BY <2>1, <3>1
  <2>3. CASE t \in {Quote, Backslash}
    <3>1. Escape(t) = <<Backslash, t>>
      BY <2>3 DEF Escape
    <3>2. Len(<<Backslash, t>>) = 2 /\ <<Backslash, t>>[1] = Backslash
      OBVIOUS
    <3>3. i = 2
      BY <2>1, <2>2, <3>1, <3>2, TokensAre
    <3>4. 1 \in 1..Len(Escape(t)) /\ Escape(t)[1] = Backslash
      BY <3>1, <3>2
    <3>5. s[Len(e) + 1] = Backslash
      BY <1>1, <3>4, InBack
    <3> QED
      BY <1>1, <2>1, <3>3, <3>5
  <2>4. CASE t \notin {Quote, Backslash}
    <3>1. Escape(t) = <<t>>
      BY <2>4 DEF Escape
    <3>2. Len(<<t>>) = 1 /\ <<t>>[1] = t
      OBVIOUS
    <3>3. i = 1
      BY <2>1, <3>1, <3>2
    <3> QED
      BY <2>2, <2>4, <3>1, <3>2, <3>3
  <2> QED
    BY <2>3, <2>4
<1> QED
  BY <1>1, <1>3, <1>4

LEMMA EscapedQuotes ==
  ASSUME NEW v \in Texts
  PROVE  QuotesAreEscaped(Escaped(v))
<1> DEFINE S == {n \in Nat : n <= Len(v) => QuotesAreEscaped(EscapedTo(v, n))}
<1>1. Len(v) \in Nat
  BY Catenated
<1>2. 0 \in S
  <2>1. EscapedTo(v, 0) = <<>> /\ Len(<<>>) = 0
    BY EscapedToIs
  <2> QED
    BY <2>1 DEF QuotesAreEscaped
<1>3. ASSUME NEW n \in Nat, n \in S PROVE n + 1 \in S
  <2> SUFFICES ASSUME n + 1 <= Len(v) PROVE QuotesAreEscaped(EscapedTo(v, n + 1))
    OBVIOUS
  <2>1. n + 1 \in 1..Len(v) /\ n \in 0..Len(v)
    BY <1>1
  <2>2. /\ EscapedTo(v, n) \in Texts /\ v[n + 1] \in Tokens
        /\ EscapedTo(v, n + 1) = EscapedTo(v, n) ++ Escape(v[n + 1])
    BY <2>1, EscapedToIs
  <2>3. QuotesAreEscaped(EscapedTo(v, n))
    BY <1>1, <1>3, <2>1
  <2> QED
    BY <2>2, <2>3, OneTokenMore
<1> HIDE DEF S
<1>4. Nat \subseteq S
  BY <1>2, <1>3, SetInduction
<1>5. QuotesAreEscaped(EscapedTo(v, Len(v)))
  BY <1>1, <1>4 DEF S
<1> QED
  BY <1>5, EscapedIs

\* A quote behind `=' is not inside what is escaped.
LEMMA NotInside ==
  ASSUME NEW a \in Texts, NEW b \in Texts, NEW x \in Texts, NEW y \in Texts,
         ((a ++ One(Equals)) ++ One(Quote)) ++ x = ((b ++ One(Equals)) ++ One(Quote)) ++ y,
         QuotesAreEscaped(y)
  PROVE  Len(y) <= Len(x)
<1> SUFFICES ASSUME Len(x) < Len(y) PROVE FALSE
  BY Catenated
<1> DEFINE c == a ++ One(Equals)
           d == b ++ One(Equals)
           p == c ++ One(Quote)
           q == d ++ One(Quote)
<1>1. /\ One(Equals) \in Texts /\ Len(One(Equals)) = 1 /\ One(Equals)[1] = Equals
      /\ One(Quote) \in Texts /\ Len(One(Quote)) = 1 /\ One(Quote)[1] = Quote
  BY OneToken, TokensAre
<1>2. /\ Len(a) \in Nat /\ Len(b) \in Nat /\ Len(x) \in Nat /\ Len(y) \in Nat
  BY Catenated
<1>3. c \in Texts /\ Len(c) = Len(a) + Len(One(Equals))
  BY <1>1, Catenated
<1>4. d \in Texts /\ Len(d) = Len(b) + Len(One(Equals))
  BY <1>1, Catenated
<1>5. c[Len(a) + 1] = Equals
  <2>1. 1 \in 1..Len(One(Equals))
    BY <1>1
  <2> QED
    BY <1>1, <2>1, InBack
<1> HIDE DEF c, d
<1>6. p \in Texts /\ Len(p) = Len(c) + Len(One(Quote))
  BY <1>1, <1>3, Catenated
<1>7. q \in Texts /\ Len(q) = Len(d) + Len(One(Quote))
  BY <1>1, <1>4, Catenated
<1>8. p[Len(c) + 1] = Quote
  <2>1. 1 \in 1..Len(One(Quote))
    BY <1>1
  <2> QED
    BY <1>1, <1>3, <2>1, InBack
<1>9. Len(c) \in 1..Len(c) /\ p[Len(c)] = Equals
  <2>1. Len(c) \in 1..Len(c) /\ Len(c) = Len(a) + 1
    BY <1>1, <1>2, <1>3
  <2> QED
    BY <1>1, <1>3, <1>5, <2>1, InFront
<1>10. p ++ x = q ++ y
  BY DEF c, d
<1> HIDE DEF p, q
<1>11. Len(p) = Len(c) + 1 /\ Len(p) + Len(x) = Len(q) + Len(y) /\ Len(q) \in Nat
  <2>1. Len(p ++ x) = Len(p) + Len(x)
    BY <1>6, Catenated
  <2>2. Len(q ++ y) = Len(q) + Len(y)
    BY <1>7, Catenated
  <2>3. Len(q) \in Nat
    BY <1>7, Catenated
  <2> QED
    BY <1>1, <1>6, <1>10, <2>1, <2>2, <2>3
<1> DEFINE k == Len(p) - Len(q)
<1>12. k \in 1..Len(y) /\ Len(p) = Len(q) + k
  BY <1>2, <1>9, <1>11
<1>13. y[k] = Quote
  <2>1. Len(p) \in 1..Len(p)
    BY <1>9, <1>11
  <2>2. (p ++ x)[Len(p)] = Quote
    BY <1>6, <1>8, <1>11, <2>1, InFront
  <2> HIDE DEF k
  <2>3. (q ++ y)[Len(q) + k] = y[k]
    BY <1>7, <1>12, InBack
  <2> QED
    BY <1>10, <1>12, <2>2, <2>3
<1>14. k > 1 /\ y[k - 1] = Backslash
  <2> HIDE DEF k
  <2> QED
    BY <1>12, <1>13 DEF QuotesAreEscaped
<1>15. y[k - 1] = Equals
  <2>1. Len(c) \in 1..Len(p) /\ k - 1 \in 1..Len(y) /\ Len(c) = Len(q) + (k - 1)
    BY <1>2, <1>9, <1>11, <1>12, <1>14
  <2>2. (p ++ x)[Len(c)] = Equals
    BY <1>6, <1>9, <2>1, InFront
  <2> DEFINE j == k - 1
  <2> HIDE DEF j, k
  <2>3. j \in 1..Len(y) /\ Len(c) = Len(q) + j
    BY <2>1 DEF j
  <2>4. (q ++ y)[Len(q) + j] = y[j]
    BY <1>7, <2>3, InBack
  <2> QED
    BY <1>10, <2>2, <2>3, <2>4 DEF j
<1> QED
  BY <1>14, <1>15, TokensAre

LEMMA StringifyIs ==
  ASSUME NEW v \in Values
  PROVE  /\ Stringify(v) \in Texts /\ v.text \in Texts /\ v = [is |-> v.is, text |-> v.text]
         /\ v.is = "number" =>
              /\ Stringify(v) = v.text
              /\ LacksToken(v.text, Quote) /\ LacksToken(v.text, Equals)
         /\ v.is # "number" =>
              /\ v.is = "string"
              /\ Escaped(v.text) \in Texts
              /\ Stringify(v) = (One(Quote) ++ Escaped(v.text)) ++ One(Quote)
<1>1. CASE v \in [is : {"number"}, text : Seq(Tokens \ {Quote, Equals})]
  <2>1. v.is = "number" /\ v.text \in Seq(Tokens \ {Quote, Equals})
    BY <1>1
  <2>2. v = [is |-> v.is, text |-> v.text]
    BY <1>1
  <2>3. v.text \in Texts
    BY <2>1, SeqMonotonic DEF Texts
  <2>4. \A i \in 1..Len(v.text) : v.text[i] \in Tokens \ {Quote, Equals}
    BY <2>1, ElementOfSeq
  <2>5. LacksToken(v.text, Quote) /\ LacksToken(v.text, Equals)
    BY <2>4 DEF LacksToken
  <2> QED
    BY <2>1, <2>2, <2>3, <2>5 DEF Stringify
<1>2. CASE v \in [is : {"string"}, text : Texts]
  <2>1. v.is = "string" /\ v.text \in Texts
    BY <1>2
  <2>2. v = [is |-> v.is, text |-> v.text]
    BY <1>2
  <2>3. Escaped(v.text) \in Texts /\ One(Quote) \in Texts
    BY <2>1, EscapedIsText, OneToken, TokensAre
  <2>4. One(Quote) ++ Escaped(v.text) \in Texts
    BY <2>3, Catenated
  <2>5. (One(Quote) ++ Escaped(v.text)) ++ One(Quote) \in Texts
    BY <2>3, <2>4, Catenated
  <2>6. Stringify(v) = <<Quote>> \o Escaped(v.text) \o <<Quote>>
    BY <2>1 DEF Stringify
  <2>7. Stringify(v) = (One(Quote) ++ Escaped(v.text)) ++ One(Quote)
    BY <2>6 DEF ++, One
  <2> QED
    BY <2>1, <2>2, <2>3, <2>5, <2>7
<1> QED
  BY <1>1, <1>2 DEF Values, Equals

\* A name and its value, behind what stands before them.
Named(a, n, v) == ((a ++ One(n)) ++ One(Equals)) ++ Stringify(v)

LEMMA NamedIs ==
  ASSUME NEW a \in Texts, NEW n \in Tokens, NEW v \in Values
  PROVE  /\ One(n) \in Texts /\ a ++ One(n) \in Texts /\ (a ++ One(n)) ++ One(Equals) \in Texts
         /\ Named(a, n, v) \in Texts /\ Named(a, n, v) # <<>>
<1>1. One(n) \in Texts /\ One(Equals) \in Texts /\ Len(One(Equals)) = 1
  BY OneToken, TokensAre
<1>2. a ++ One(n) \in Texts
  BY <1>1, Catenated
<1>3. (a ++ One(n)) ++ One(Equals) \in Texts
  BY <1>1, <1>2, Catenated
<1>4. Stringify(v) \in Texts
  BY StringifyIs
<1> DEFINE h == a ++ One(n)
           e == h ++ One(Equals)
<1>5. Len(e) = Len(h) + Len(One(Equals)) /\ Len(h) \in Nat
  BY <1>1, <1>2, Catenated
<1>6. e ++ Stringify(v) \in Texts
  BY <1>3, <1>4, Catenated
<1>7. Len(e ++ Stringify(v)) = Len(e) + Len(Stringify(v)) /\ Len(Stringify(v)) \in Nat
  BY <1>3, <1>4, Catenated
<1>8. e ++ Stringify(v) # <<>>
  <2>1. Len(<<>>) = 0
    OBVIOUS
  <2> HIDE DEF e, h
  <2> QED
    BY <1>1, <1>5, <1>7, <2>1
<1> QED
  BY <1>1, <1>2, <1>3, <1>6, <1>8 DEF Named

LEMMA SameHead ==
  ASSUME NEW a \in Texts, NEW b \in Texts, NEW n \in Tokens, NEW m \in Tokens,
         a ++ One(n) = b ++ One(m)
  PROVE  a = b /\ n = m
<1>1. /\ One(n) \in Texts /\ Len(One(n)) = 1 /\ One(n)[1] = n
      /\ One(m) \in Texts /\ Len(One(m)) = 1 /\ One(m)[1] = m
  BY OneToken
<1>2. a = b /\ One(n) = One(m)
  BY <1>1, PartedBefore
<1> QED
  BY <1>1, <1>2

\* What ends in a quote is not what ends in a number.
LEMMA NumberIsNoString ==
  ASSUME NEW a \in Texts, NEW n \in Tokens, NEW v \in Values,
         NEW b \in Texts, NEW m \in Tokens, NEW w \in Values,
         v.is = "number", w.is # "number"
  PROVE  Named(a, n, v) # Named(b, m, w)
<1> SUFFICES ASSUME Named(a, n, v) = Named(b, m, w) PROVE FALSE
  OBVIOUS
<1> DEFINE h == a ++ One(n)
           e == (b ++ One(m)) ++ One(Equals)
           x == One(Equals) ++ v.text
           y == One(Quote) ++ Escaped(w.text)
<1>1. h \in Texts /\ e \in Texts
  BY NamedIs
<1>2. /\ One(Equals) \in Texts /\ Len(One(Equals)) = 1 /\ One(Equals)[1] = Equals
      /\ One(Quote) \in Texts
  BY OneToken, TokensAre
<1>3. /\ v.text \in Texts /\ Stringify(v) = v.text /\ LacksToken(v.text, Quote)
      /\ Escaped(w.text) \in Texts
      /\ Stringify(w) = y ++ One(Quote)
  BY StringifyIs
<1>4. x \in Texts /\ Len(x) = Len(One(Equals)) + Len(v.text) /\ Len(v.text) \in Nat
  BY <1>2, <1>3, Catenated
<1>5. y \in Texts
  BY <1>2, <1>3, Catenated
<1>6. h ++ x = (e ++ y) ++ One(Quote)
  <2>1. (h ++ One(Equals)) ++ v.text = h ++ x
    BY <1>1, <1>2, <1>3, Associative
  <2>2. (e ++ y) ++ One(Quote) = e ++ (y ++ One(Quote))
    BY <1>1, <1>2, <1>5, Associative
  <2> QED
    BY <1>3, <2>1, <2>2 DEF Named
<1>7. LacksToken(x, Quote)
  <2> SUFFICES ASSUME NEW i \in 1..Len(x) PROVE x[i] # Quote
    BY DEF LacksToken
  <2>1. CASE i = 1
    <3>1. 1 \in 1..Len(One(Equals))
      BY <1>2
    <3>2. x[1] = Equals
      BY <1>2, <1>3, <3>1, InFront
    <3> QED
      BY <2>1, <3>2, TokensAre
  <2>2. CASE i # 1
    <3> DEFINE j == i - 1
    <3>1. j \in 1..Len(v.text) /\ 1 + j = i
      BY <1>2, <1>4, <2>2
    <3> HIDE DEF j
    <3>2. x[Len(One(Equals)) + j] = v.text[j]
      BY <1>2, <1>3, <3>1, InBack
    <3> QED
      BY <1>2, <1>3, <3>1, <3>2 DEF LacksToken
  <2> QED
    BY <2>1, <2>2
<1>8. x # <<>>
  <2>1. Len(<<>>) = 0
    OBVIOUS
  <2> HIDE DEF x
  <2> QED
    BY <1>2, <1>4, <2>1
<1>9. e ++ y \in Texts
  BY <1>1, <1>5, Catenated
<1> HIDE DEF h, e, x, y
<1>10. Len(x) \in 1..Len(x) /\ x[Len(x)] = Quote
  BY <1>1, <1>4, <1>6, <1>8, <1>9, TokensAre, LastToken
<1> QED
  BY <1>7, <1>10 DEF LacksToken

\* The last value of a text is read, its name, and what is left of them.
LEMMA NamedReads ==
  ASSUME NEW a \in Texts, NEW n \in Tokens, NEW v \in Values,
         NEW b \in Texts, NEW m \in Tokens, NEW w \in Values,
         Named(a, n, v) = Named(b, m, w)
  PROVE  a = b /\ n = m /\ v = w
<1> DEFINE h == a ++ One(n)
           g == b ++ One(m)
<1>1. /\ One(n) \in Texts /\ h \in Texts /\ h ++ One(Equals) \in Texts
      /\ One(m) \in Texts /\ g \in Texts /\ g ++ One(Equals) \in Texts
  BY NamedIs
<1>2. (h ++ One(Equals)) ++ Stringify(v) = (g ++ One(Equals)) ++ Stringify(w)
  BY DEF Named
<1>3. v.is = "number" <=> w.is = "number"
  BY NumberIsNoString
<1>4. h = g /\ v = w
  <2> HIDE DEF h, g
  <2>1. CASE v.is = "number"
    <3>1. /\ v.text \in Texts /\ Stringify(v) = v.text /\ LacksToken(v.text, Equals)
          /\ v = [is |-> v.is, text |-> v.text]
      BY <2>1, StringifyIs
    <3>2. /\ w.text \in Texts /\ Stringify(w) = w.text /\ LacksToken(w.text, Equals)
          /\ w = [is |-> w.is, text |-> w.text]
      BY <1>3, <2>1, StringifyIs
    <3> DEFINE p == v.text
               q == w.text
    <3>3. /\ p \in Texts /\ LacksToken(p, Equals) /\ q \in Texts /\ LacksToken(q, Equals)
          /\ (h ++ One(Equals)) ++ p = (g ++ One(Equals)) ++ q
      BY <1>2, <3>1, <3>2
    <3> HIDE DEF p, q
    <3>4. h = g /\ p = q
      BY <1>1, <3>3, TokensAre, CutLast
    <3> QED
      BY <1>3, <2>1, <3>1, <3>2, <3>4 DEF p, q
  <2>2. CASE v.is # "number"
    <3> DEFINE x == Escaped(v.text)
               y == Escaped(w.text)
               c == h ++ One(Equals)
               d == g ++ One(Equals)
    <3>1. /\ v.text \in Texts /\ Stringify(v) = (One(Quote) ++ x) ++ One(Quote)
          /\ v = [is |-> v.is, text |-> v.text] /\ v.is = "string" /\ x \in Texts
      BY <2>2, StringifyIs
    <3>2. /\ w.text \in Texts /\ Stringify(w) = (One(Quote) ++ y) ++ One(Quote)
          /\ w = [is |-> w.is, text |-> w.text] /\ w.is = "string" /\ y \in Texts
      BY <1>3, <2>2, StringifyIs
    <3>3. QuotesAreEscaped(x) /\ QuotesAreEscaped(y)
      BY <3>1, <3>2, EscapedQuotes
    <3>4. One(Quote) \in Texts
      BY OneToken, TokensAre
    <3>5. c \in Texts /\ d \in Texts
      BY <1>1
    <3>6. c ++ ((One(Quote) ++ x) ++ One(Quote)) = d ++ ((One(Quote) ++ y) ++ One(Quote))
      BY <1>2, <3>1, <3>2
    <3>x. v = w <=> v.text = w.text
      BY <3>1, <3>2
    <3>y. x = y => v.text = w.text
      BY <3>1, <3>2, EscapedReads
    <3> HIDE DEF x, y, c, d
    <3>7. One(Quote) ++ x \in Texts /\ One(Quote) ++ y \in Texts
      BY <3>1, <3>2, <3>4, Catenated
    <3>8. c ++ (One(Quote) ++ x) \in Texts /\ d ++ (One(Quote) ++ y) \in Texts
      BY <3>5, <3>7, Catenated
    <3>9. (c ++ (One(Quote) ++ x)) ++ One(Quote) = (d ++ (One(Quote) ++ y)) ++ One(Quote)
      BY <3>4, <3>5, <3>6, <3>7, Associative
    <3>10. c ++ (One(Quote) ++ x) = d ++ (One(Quote) ++ y)
      BY <3>4, <3>8, <3>9, PartedBefore
    <3>11. (c ++ One(Quote)) ++ x = (d ++ One(Quote)) ++ y
      BY <3>1, <3>2, <3>4, <3>5, <3>10, Associative
    <3>12. Len(x) <= Len(y)
      BY <1>1, <3>1, <3>2, <3>3, <3>11, NotInside DEF c, d
    <3>13. Len(y) <= Len(x)
      BY <1>1, <3>1, <3>2, <3>3, <3>11, NotInside DEF c, d
    <3>14. Len(x) = Len(y)
      BY <3>1, <3>2, <3>12, <3>13, Catenated
    <3>15. c ++ One(Quote) \in Texts /\ d ++ One(Quote) \in Texts
      BY <3>4, <3>5, Catenated
    <3>16. x = y /\ c ++ One(Quote) = d ++ One(Quote)
      BY <3>1, <3>2, <3>11, <3>14, <3>15, PartedBefore
    <3>17. c = d
      BY <3>5, <3>16, TokensAre, SameHead
    <3>18. h = g
      BY <1>1, <3>17, TokensAre, SameHead DEF c, d
    <3> QED
      BY <3>x, <3>y, <3>16, <3>18
  <2> QED
    BY <2>1, <2>2
<1>5. a = b /\ n = m
  BY <1>4, SameHead
<1> QED
  BY <1>4, <1>5

-----------------------------------------------------------------------------
(* Cache keys: the query *)

Queries == [ToSet(QueryNames) -> Values \cup {Absent}]

Value(q, i) == q[QueryNames[i]]

Given(q, i) == Value(q, i) # Absent

Sep(q, i) == IF \E j \in 1..(i - 1) : Given(q, j) THEN One(Separator) ELSE <<>>

LEMMA NamesAre ==
  /\ Len(QueryNames) \in Nat /\ DOMAIN QueryNames = 1..Len(QueryNames)
  /\ \A i \in 1..Len(QueryNames) : QueryNames[i] \in Tokens /\ QueryNames[i] \in ToSet(QueryNames)
  /\ \A i, j \in 1..Len(QueryNames) : QueryNames[i] = QueryNames[j] => i = j
  /\ \A t \in ToSet(QueryNames) : \E i \in 1..Len(QueryNames) : t = QueryNames[i]
<1>1. QueryNames \in Seq(Tokens)
  BY CacheKeyAssumption DEF Texts
<1>2. Len(QueryNames) \in Nat /\ DOMAIN QueryNames = 1..Len(QueryNames)
  BY <1>1
<1>3. \A i \in 1..Len(QueryNames) : QueryNames[i] \in Tokens
  BY <1>1, ElementOfSeq
<1> QED
  BY <1>2, <1>3, CacheKeyAssumption DEF ToSet

LEMMA ValueIs ==
  ASSUME NEW q \in Queries, NEW i \in 1..Len(QueryNames), Given(q, i)
  PROVE  Value(q, i) \in Values
BY NamesAre DEF Queries, Given, Value

LEMMA EntryIs ==
  ASSUME NEW q \in Queries, NEW i \in 1..Len(QueryNames)
  PROVE  /\ Sep(q, i) \in Texts
         /\ Entry(q, i) \in Texts
         /\ Given(q, i) => Entry(q, i) = Named(Sep(q, i), QueryNames[i], Value(q, i))
         /\ ~ Given(q, i) => Entry(q, i) = <<>>
<1>1. Sep(q, i) \in Texts
  BY OneToken, TokensAre, NoToken, CacheKeyAssumption DEF Sep
<1>2. CASE Given(q, i)
  <2> DEFINE n == QueryNames[i]
             b == Sep(q, i)
             v == Value(q, i)
  <2>1. b = IF \E j \in 1..(i - 1) : q[QueryNames[j]] # Absent THEN <<Separator>> ELSE <<>>
    BY DEF Sep, Given, Value, One
  <2>2. Entry(q, i) = (b \o <<n, "=">>) \o Stringify(v)
    <3> HIDE DEF b
    <3> QED
      BY <1>2, <2>1 DEF Entry, Given, Value
  <2>3. n \in Tokens /\ v \in Values /\ One(n) \in Texts /\ One(Equals) \in Texts
    BY <1>2, NamesAre, ValueIs, OneToken, TokensAre
  <2>4. Named(b, n, v) \in Texts
    BY <1>1, <2>3, NamedIs
  <2>5. <<n, "=">> = One(n) ++ One(Equals)
    BY <2>3, TwoTokens, TokensAre DEF Equals
  <2>6. Entry(q, i) = (b ++ (One(n) ++ One(Equals))) ++ Stringify(v)
    BY <2>2, <2>5 DEF ++
  <2> HIDE DEF b, n, v
  <2>7. Entry(q, i) = ((b ++ One(n)) ++ One(Equals)) ++ Stringify(v)
    BY <1>1, <2>3, <2>6, Associative DEF b
  <2>8. Entry(q, i) = Named(b, n, v)
    BY <2>7 DEF Named
  <2> QED
    BY <1>1, <1>2, <2>4, <2>8 DEF b, n, v
<1>3. CASE ~ Given(q, i)
  <2>1. Entry(q, i) = <<>>
    BY <1>3 DEF Entry, Given, Value
  <2> QED
    BY <1>1, <1>3, <2>1, NoToken
<1> QED
  BY <1>2, <1>3

\* The first n names with their values.
QueryTo(q, n) == First([i \in DOMAIN QueryNames |-> Entry(q, i)], n)

LEMMA SerializeQueryIs ==
  ASSUME NEW q \in Queries
  PROVE  SerializeQuery(q) = QueryTo(q, Len(QueryNames))
<1>1. [i \in 1..Len(QueryNames) |-> [j \in DOMAIN QueryNames |-> Entry(q, j)][i]]
        = [i \in DOMAIN QueryNames |-> Entry(q, i)]
  BY NamesAre
<1> QED
  BY <1>1 DEF SerializeQuery, QueryTo, First

LEMMA QueryToIs ==
  ASSUME NEW q \in Queries
  PROVE  /\ QueryTo(q, 0) = <<>>
         /\ \A n \in 0..Len(QueryNames) : QueryTo(q, n) \in Texts
         /\ \A n \in Nat : n + 1 \in 1..Len(QueryNames) =>
              QueryTo(q, n + 1) = QueryTo(q, n) ++ Entry(q, n + 1)
<1> DEFINE texts == [i \in DOMAIN QueryNames |-> Entry(q, i)]
<1>1. \A i \in 1..Len(QueryNames) : texts[i] = Entry(q, i) /\ texts[i] \in Texts
  BY NamesAre, EntryIs
<1>2. \A n : QueryTo(q, n) = First(texts, n)
  BY DEF QueryTo
<1> HIDE DEF texts
<1>3. QueryTo(q, 0) = <<>>
  BY <1>2, FirstOfNone
<1>4. ASSUME NEW n \in 0..Len(QueryNames) PROVE QueryTo(q, n) \in Texts
  <2>1. n \in Nat /\ \A i \in 1..n : texts[i] \in Texts
    BY <1>1, NamesAre
  <2> QED
    BY <1>2, <2>1, FirstIsText
<1>5. ASSUME NEW n \in Nat, n + 1 \in 1..Len(QueryNames)
      PROVE  QueryTo(q, n + 1) = QueryTo(q, n) ++ Entry(q, n + 1)
  <2>1. \A i \in 1..(n + 1) : texts[i] \in Texts
    BY <1>1, <1>5, NamesAre
  <2>2. First(texts, n + 1) = First(texts, n) \o texts[n + 1]
    BY <2>1, FirstAndNext
  <2> QED
    BY <1>1, <1>2, <1>5, <2>2 DEF ++
<1> QED
  BY <1>3, <1>4, <1>5

LEMMA QueryGrows ==
  ASSUME NEW q \in Queries, NEW n \in Nat, n + 1 \in 1..Len(QueryNames)
  PROVE  /\ QueryTo(q, n) \in Texts /\ QueryTo(q, n) ++ Sep(q, n + 1) \in Texts
         /\ Given(q, n + 1) =>
              QueryTo(q, n + 1) =
                Named(QueryTo(q, n) ++ Sep(q, n + 1), QueryNames[n + 1], Value(q, n + 1))
         /\ ~ Given(q, n + 1) => QueryTo(q, n + 1) = QueryTo(q, n)
<1> DEFINE p == QueryTo(q, n)
           b == Sep(q, n + 1)
           e == Entry(q, n + 1)
           m == QueryNames[n + 1]
           v == Value(q, n + 1)
<1>1. p \in Texts /\ QueryTo(q, n + 1) = p ++ e
  <2>1. n \in 0..Len(QueryNames)
    BY NamesAre
  <2> QED
    BY <2>1, QueryToIs
<1>2. /\ b \in Texts /\ e \in Texts /\ m \in Tokens
      /\ Given(q, n + 1) => v \in Values /\ e = Named(b, m, v)
      /\ ~ Given(q, n + 1) => e = <<>>
  BY NamesAre, ValueIs, EntryIs
<1> HIDE DEF p, b, e, m, v
<1>3. p ++ b \in Texts
  BY <1>1, <1>2, Catenated
<1>4. ASSUME Given(q, n + 1) PROVE p ++ e = Named(p ++ b, m, v)
  <2> DEFINE h == b ++ One(m)
             s == Stringify(v)
  <2>1. One(m) \in Texts /\ One(Equals) \in Texts /\ h \in Texts /\ h ++ One(Equals) \in Texts
    BY <1>2, <1>4, NamedIs, OneToken, TokensAre
  <2>2. s \in Texts /\ e = (h ++ One(Equals)) ++ s
    BY <1>2, <1>4, StringifyIs DEF Named
  <2>3. (p ++ b) ++ One(m) = p ++ h
    BY <1>1, <1>2, <2>1, Associative
  <2>4. Named(p ++ b, m, v) = ((p ++ h) ++ One(Equals)) ++ s
    BY <2>3 DEF Named
  <2> HIDE DEF h, s
  <2>5. (p ++ h) ++ One(Equals) = p ++ (h ++ One(Equals))
    BY <1>1, <2>1, Associative
  <2>6. (p ++ (h ++ One(Equals))) ++ s = p ++ ((h ++ One(Equals)) ++ s)
    BY <1>1, <2>1, <2>2, Associative
  <2> QED
    BY <2>2, <2>4, <2>5, <2>6
<1>5. ~ Given(q, n + 1) => p ++ e = p
  BY <1>1, <1>2, NoToken
<1> QED
  BY <1>1, <1>3, <1>4, <1>5 DEF p, b, e, m, v

\* A query ends in the last of its values, if it has any.
LEMMA QueryEnds ==
  ASSUME NEW q \in Queries, NEW n \in 0..Len(QueryNames)
  PROVE  \/ QueryTo(q, n) = <<>> /\ \A j \in 1..n : ~ Given(q, j)
         \/ \E j \in 1..n : \E x \in Texts :
              Given(q, j) /\ QueryTo(q, n) = Named(x, QueryNames[j], Value(q, j))
<1> DEFINE Ends(p) ==
             \/ QueryTo(q, p) = <<>> /\ \A j \in 1..p : ~ Given(q, j)
             \/ \E j \in 1..p : \E x \in Texts :
                  Given(q, j) /\ QueryTo(q, p) = Named(x, QueryNames[j], Value(q, j))
           S == {p \in Nat : p <= Len(QueryNames) => Ends(p)}
<1>1. 0 \in S
  BY QueryToIs
<1>2. ASSUME NEW p \in Nat, p \in S PROVE p + 1 \in S
  <2> SUFFICES ASSUME p + 1 <= Len(QueryNames) PROVE Ends(p + 1)
    OBVIOUS
  <2>1. p + 1 \in 1..Len(QueryNames) /\ p <= Len(QueryNames)
    BY NamesAre
  <2>2. Ends(p)
    BY <1>2, <2>1
  <2>3. CASE Given(q, p + 1)
    <3>1. /\ QueryTo(q, p) ++ Sep(q, p + 1) \in Texts
          /\ QueryTo(q, p + 1) =
               Named(QueryTo(q, p) ++ Sep(q, p + 1), QueryNames[p + 1], Value(q, p + 1))
      BY <2>1, <2>3, QueryGrows
    <3>2. p + 1 \in 1..(p + 1)
      OBVIOUS
    <3> QED
      BY <2>3, <3>1, <3>2
  <2>4. CASE ~ Given(q, p + 1)
    <3>1. QueryTo(q, p + 1) = QueryTo(q, p)
      BY <2>1, <2>4, QueryGrows
    <3>2. 1..p \subseteq 1..(p + 1) /\ \A j \in 1..(p + 1) : j \in 1..p \/ j = p + 1
      OBVIOUS
    <3> QED
      BY <2>2, <2>4, <3>1, <3>2
  <2> QED
    BY <2>3, <2>4
<1> HIDE DEF S
<1>3. Nat \subseteq S
  BY <1>1, <1>2, SetInduction
<1>4. n \in Nat /\ n <= Len(QueryNames)
  BY NamesAre
<1> QED
  BY <1>3, <1>4 DEF S

LEMMA SameQueryBefore ==
  ASSUME NEW q \in Queries, NEW r \in Queries, NEW n \in Nat, n + 1 \in 1..Len(QueryNames),
         QueryTo(q, n) ++ Sep(q, n + 1) = QueryTo(r, n) ++ Sep(r, n + 1)
  PROVE  QueryTo(q, n) = QueryTo(r, n)
<1>1. n \in 0..Len(QueryNames) /\ (n + 1) - 1 = n
  BY NamesAre
<1>2. ASSUME NEW p \in Queries, NEW o \in Queries,
             QueryTo(p, n) ++ Sep(p, n + 1) = QueryTo(o, n) ++ Sep(o, n + 1),
             Sep(p, n + 1) = <<>>
      PROVE  QueryTo(p, n) = QueryTo(o, n)
  <2>1. One(Separator) \in Texts /\ Len(One(Separator)) = 1 /\ Len(<<>>) = 0 /\ <<>> \in Texts
    BY OneToken, TokensAre, NoToken
  <2>2. QueryTo(p, n) \in Texts /\ QueryTo(o, n) \in Texts
    BY <1>1, QueryToIs
  <2>3. \A j \in 1..n : ~ Given(p, j)
    <3>1. One(Separator) # <<>>
      BY <2>1
    <3>2. ~ \E j \in 1..((n + 1) - 1) : Given(p, j)
      BY <1>2, <3>1 DEF Sep
    <3> QED
      BY <1>1, <3>2
  <2>4. QueryTo(p, n) = <<>>
    BY <1>1, <2>3, QueryEnds
  <2>5. QueryTo(o, n) ++ Sep(o, n + 1) = <<>>
    BY <1>2, <2>1, <2>4, NoToken
  <2>6. Sep(o, n + 1) \in Texts
    BY <2>1 DEF Sep
  <2>7. Len(QueryTo(o, n)) + Len(Sep(o, n + 1)) = 0 /\ Len(QueryTo(o, n)) \in Nat
        /\ Len(Sep(o, n + 1)) \in Nat
    BY <2>1, <2>2, <2>5, <2>6, Catenated
  <2>8. Len(QueryTo(o, n)) = 0
    BY <2>7
  <2>9. QueryTo(o, n) = <<>>
    BY <2>2, <2>8, EmptySeq DEF Texts
  <2> QED
    BY <2>4, <2>9
<1>3. CASE Sep(q, n + 1) = <<>>
  BY <1>2, <1>3
<1>4. CASE Sep(r, n + 1) = <<>>
  BY <1>2, <1>4
<1>5. CASE Sep(q, n + 1) # <<>> /\ Sep(r, n + 1) # <<>>
  <2>1. Sep(q, n + 1) = One(Separator) /\ Sep(r, n + 1) = One(Separator)
    BY <1>5 DEF Sep
  <2>2. QueryTo(q, n) \in Texts /\ QueryTo(r, n) \in Texts
    BY <1>1, QueryToIs
  <2>3. QueryTo(q, n) ++ One(Separator) = QueryTo(r, n) ++ One(Separator)
    BY <2>1
  <2> QED
    BY <2>2, <2>3, TokensAre, SameHead
<1> QED
  BY <1>3, <1>4, <1>5

LEMMA GivenToBoth ==
  ASSUME NEW q \in Queries, NEW r \in Queries, NEW n \in Nat, n + 1 \in 1..Len(QueryNames),
         Given(q, n + 1), ~ Given(r, n + 1)
  PROVE  QueryTo(q, n + 1) # QueryTo(r, n + 1)
<1> SUFFICES ASSUME QueryTo(q, n + 1) = QueryTo(r, n + 1) PROVE FALSE
  OBVIOUS
<1> DEFINE m == QueryNames[n + 1]
           v == Value(q, n + 1)
           a == QueryTo(q, n) ++ Sep(q, n + 1)
<1>1. n \in 0..Len(QueryNames)
  BY NamesAre
<1>2. a \in Texts /\ m \in Tokens /\ v \in Values
  BY NamesAre, ValueIs, QueryGrows
<1>3. QueryTo(r, n) = Named(a, m, v)
  <2>1. QueryTo(q, n + 1) = Named(a, m, v)
    BY QueryGrows
  <2>2. QueryTo(r, n + 1) = QueryTo(r, n)
    BY QueryGrows
  <2> QED
    BY <2>1, <2>2
<1>4. QueryTo(r, n) # <<>>
  BY <1>2, <1>3, NamedIs
<1>5. PICK j \in 1..n, x \in Texts :
        Given(r, j) /\ QueryTo(r, n) = Named(x, QueryNames[j], Value(r, j))
  BY <1>1, <1>4, QueryEnds
<1>6. j \in 1..Len(QueryNames) /\ j # n + 1
  BY <1>1, NamesAre
<1>7. QueryNames[j] \in Tokens /\ Value(r, j) \in Values
  BY <1>5, <1>6, NamesAre, ValueIs
<1>8. m = QueryNames[j]
  <2> DEFINE o == QueryNames[j]
             w == Value(r, j)
  <2>1. o \in Tokens /\ w \in Values /\ Named(a, m, v) = Named(x, o, w)
    BY <1>3, <1>5, <1>7
  <2> HIDE DEF a, m, v, o, w
  <2>2. m = o
    BY <1>2, <2>1, NamedReads
  <2> QED
    BY <2>2 DEF o
<1> QED
  BY <1>6, <1>8, NamesAre

LEMMA QueryToReads ==
  ASSUME NEW q \in Queries, NEW r \in Queries, NEW n \in 0..Len(QueryNames),
         QueryTo(q, n) = QueryTo(r, n)
  PROVE  \A i \in 1..n : Value(q, i) = Value(r, i)
<1> DEFINE S == {p \in Nat : p <= Len(QueryNames) /\ QueryTo(q, p) = QueryTo(r, p) =>
                               \A i \in 1..p : Value(q, i) = Value(r, i)}
<1>1. 0 \in S
  OBVIOUS
<1>2. ASSUME NEW p \in Nat, p \in S PROVE p + 1 \in S
  <2> SUFFICES ASSUME p + 1 <= Len(QueryNames), QueryTo(q, p + 1) = QueryTo(r, p + 1)
               PROVE  \A i \in 1..(p + 1) : Value(q, i) = Value(r, i)
    OBVIOUS
  <2>1. p + 1 \in 1..Len(QueryNames) /\ p <= Len(QueryNames)
    BY NamesAre
  <2>2. Given(q, p + 1) <=> Given(r, p + 1)
    BY <2>1, GivenToBoth
  <2>3. QueryTo(q, p) = QueryTo(r, p) /\ Value(q, p + 1) = Value(r, p + 1)
    <3>1. CASE Given(q, p + 1)
      <4> DEFINE m == QueryNames[p + 1]
                 v == Value(q, p + 1)
                 w == Value(r, p + 1)
                 a == QueryTo(q, p) ++ Sep(q, p + 1)
                 b == QueryTo(r, p) ++ Sep(r, p + 1)
      <4>1. m \in Tokens /\ v \in Values /\ a \in Texts /\ QueryTo(q, p + 1) = Named(a, m, v)
        BY <2>1, <3>1, NamesAre, ValueIs, QueryGrows
      <4>2. w \in Values /\ b \in Texts /\ QueryTo(r, p + 1) = Named(b, m, w)
        BY <2>1, <2>2, <3>1, ValueIs, QueryGrows
      <4> HIDE DEF m, v, w, a, b
      <4>3. a = b /\ v = w
        BY <4>1, <4>2, NamedReads
      <4>4. QueryTo(q, p) = QueryTo(r, p)
        BY <2>1, <4>3, SameQueryBefore DEF a, b
      <4> QED
        BY <4>3, <4>4 DEF v, w
    <3>2. CASE ~ Given(q, p + 1)
      <4>1. QueryTo(q, p + 1) = QueryTo(q, p)
        BY <2>1, <3>2, QueryGrows
      <4>2. QueryTo(r, p + 1) = QueryTo(r, p)
        BY <2>1, <2>2, <3>2, QueryGrows
      <4> QED
        BY <2>2, <3>2, <4>1, <4>2 DEF Given
    <3> QED
      BY <3>1, <3>2
  <2>4. \A i \in 1..(p + 1) : i \in 1..p \/ i = p + 1
    OBVIOUS
  <2> QED
    BY <1>2, <2>1, <2>3, <2>4
<1> HIDE DEF S
<1>3. Nat \subseteq S
  BY <1>1, <1>2, SetInduction
<1>4. n \in Nat /\ n <= Len(QueryNames)
  BY NamesAre
<1> QED
  BY <1>3, <1>4 DEF S

LEMMA QueryReads ==
  ASSUME NEW q \in Queries, NEW r \in Queries, SerializeQuery(q) = SerializeQuery(r)
  PROVE  q = r
<1>1. Len(QueryNames) \in 0..Len(QueryNames)
  BY NamesAre
<1>2. \A i \in 1..Len(QueryNames) : Value(q, i) = Value(r, i)
  BY <1>1, SerializeQueryIs, QueryToReads
<1>3. \A t \in ToSet(QueryNames) : q[t] = r[t]
  BY <1>2, NamesAre DEF Value
<1> QED
  BY <1>3 DEF Queries

-----------------------------------------------------------------------------
(* Cache keys: joined texts *)

JoinedTo(texts, n) ==
  First([i \in DOMAIN texts |-> IF i = 1 THEN texts[i] ELSE <<Separator>> \o texts[i]], n)

LEMMA JoinedIs ==
  ASSUME NEW texts \in Seq(Texts)
  PROVE  Joined(texts) = JoinedTo(texts, Len(texts))
<1> DEFINE s == [i \in DOMAIN texts |-> IF i = 1 THEN texts[i] ELSE <<Separator>> \o texts[i]]
<1>1. DOMAIN texts = 1..Len(texts)
  OBVIOUS
<1>2. [i \in 1..Len(texts) |-> s[i]] = s
  BY <1>1
<1>3. Joined(texts) = FlattenSeq(s)
  BY DEF Joined
<1> HIDE DEF s
<1>4. Joined(texts) = First(s, Len(texts))
  BY <1>2, <1>3 DEF First
<1> QED
  BY <1>4 DEF JoinedTo, s

LEMMA JoinedToIs ==
  ASSUME NEW texts \in Seq(Texts)
  PROVE  /\ JoinedTo(texts, 0) = <<>>
         /\ \A n \in 0..Len(texts) : JoinedTo(texts, n) \in Texts
         /\ Len(texts) # 0 => JoinedTo(texts, 1) = texts[1]
         /\ \A n \in Nat \ {0} : n + 1 \in 1..Len(texts) =>
              JoinedTo(texts, n + 1) = (JoinedTo(texts, n) ++ One(Separator)) ++ texts[n + 1]
<1> DEFINE s == [i \in DOMAIN texts |-> IF i = 1 THEN texts[i] ELSE <<Separator>> \o texts[i]]
<1>1. Len(texts) \in Nat /\ DOMAIN texts = 1..Len(texts) /\ \A i \in 1..Len(texts) : texts[i] \in Texts
  BY ElementOfSeq
<1>2. One(Separator) \in Texts
  BY OneToken, TokensAre
<1>3. ASSUME NEW i \in 1..Len(texts)
      PROVE  /\ s[i] \in Texts
             /\ i = 1 => s[i] = texts[i]
             /\ i # 1 => s[i] = One(Separator) ++ texts[i]
  <2>1. i # 1 => s[i] = One(Separator) ++ texts[i]
    BY <1>1 DEF ++, One
  <2>2. i = 1 => s[i] = texts[i]
    BY <1>1
  <2>3. One(Separator) ++ texts[i] \in Texts
    BY <1>1, <1>2, Catenated
  <2> HIDE DEF s
  <2> QED
    BY <1>1, <2>1, <2>2, <2>3
<1>4. \A n : JoinedTo(texts, n) = First(s, n)
  BY DEF JoinedTo
<1> HIDE DEF s
<1>5. JoinedTo(texts, 0) = <<>>
  BY <1>4, FirstOfNone
<1>6. ASSUME NEW n \in 0..Len(texts) PROVE JoinedTo(texts, n) \in Texts
  <2>1. n \in Nat /\ \A i \in 1..n : s[i] \in Texts
    BY <1>1, <1>3
  <2> QED
    BY <1>4, <2>1, FirstIsText
<1>7. ASSUME NEW n \in Nat, n + 1 \in 1..Len(texts)
      PROVE  JoinedTo(texts, n + 1) = JoinedTo(texts, n) ++ s[n + 1]
  <2>1. \A i \in 1..(n + 1) : s[i] \in Texts
    BY <1>1, <1>3, <1>7
  <2>2. First(s, n + 1) = First(s, n) \o s[n + 1]
    BY <2>1, FirstAndNext
  <2> QED
    BY <1>4, <2>2 DEF ++
<1>8. Len(texts) # 0 => JoinedTo(texts, 1) = texts[1]
  <2> SUFFICES ASSUME Len(texts) # 0 PROVE JoinedTo(texts, 1) = texts[1]
    OBVIOUS
  <2>1. 1 \in 1..Len(texts) /\ 0 + 1 = 1
    BY <1>1
  <2>2. JoinedTo(texts, 0 + 1) = JoinedTo(texts, 0) ++ s[0 + 1]
    BY <1>7, <2>1
  <2> QED
    BY <1>1, <1>3, <1>5, <2>1, <2>2, NoToken
<1>9. ASSUME NEW n \in Nat \ {0}, n + 1 \in 1..Len(texts)
      PROVE  JoinedTo(texts, n + 1) = (JoinedTo(texts, n) ++ One(Separator)) ++ texts[n + 1]
  <2>1. JoinedTo(texts, n + 1) = JoinedTo(texts, n) ++ (One(Separator) ++ texts[n + 1])
    BY <1>3, <1>7, <1>9
  <2>2. JoinedTo(texts, n) \in Texts /\ texts[n + 1] \in Texts
    BY <1>1, <1>6, <1>9
  <2> QED
    BY <1>2, <2>1, <2>2, Associative
<1> QED
  BY <1>5, <1>6, <1>8, <1>9

\* Texts without a separator are read from what joins them.
LEMMA JoinedReads ==
  ASSUME NEW s \in Seq(Texts), NEW t \in Seq(Texts), Len(s) = Len(t),
         \A i \in 1..Len(s) : LacksToken(s[i], Separator) /\ LacksToken(t[i], Separator),
         NEW x \in Texts, NEW y \in Texts,
         (x ++ One(Separator)) ++ Joined(s) = (y ++ One(Separator)) ++ Joined(t)
  PROVE  x = y /\ s = t
<1> DEFINE Behind(n) == (x ++ One(Separator)) ++ JoinedTo(s, n) =
                          (y ++ One(Separator)) ++ JoinedTo(t, n)
           S == {n \in Nat : n <= Len(s) /\ Behind(n) =>
                               x = y /\ \A i \in 1..n : s[i] = t[i]}
<1>1. /\ Len(s) \in Nat
      /\ \A i \in 1..Len(s) : s[i] \in Texts /\ t[i] \in Texts
  BY ElementOfSeq
<1>2. One(Separator) \in Texts
  BY OneToken, TokensAre
<1>3. x ++ One(Separator) \in Texts /\ y ++ One(Separator) \in Texts
  BY <1>2, Catenated
<1>4. 0 \in S
  <2> SUFFICES ASSUME Behind(0) PROVE x = y
    OBVIOUS
  <2>1. JoinedTo(s, 0) = <<>> /\ JoinedTo(t, 0) = <<>>
    BY JoinedToIs
  <2>2. x ++ One(Separator) = y ++ One(Separator)
    BY <1>3, <2>1, NoToken
  <2> QED
    BY <2>2, TokensAre, SameHead
<1>5. ASSUME NEW n \in Nat, n \in S PROVE n + 1 \in S
  <2> SUFFICES ASSUME n + 1 <= Len(s), Behind(n + 1)
               PROVE  x = y /\ \A i \in 1..(n + 1) : s[i] = t[i]
    OBVIOUS
  <2> DEFINE a == s[n + 1]
             b == t[n + 1]
             p == x ++ One(Separator)
             q == y ++ One(Separator)
  <2>1. n + 1 \in 1..Len(s) /\ n <= Len(s) /\ n \in 0..Len(s)
    BY <1>1
  <2>2. /\ a \in Texts /\ LacksToken(a, Separator)
        /\ b \in Texts /\ LacksToken(b, Separator)
    BY <1>1, <2>1
  <2>3. CASE n = 0
    <3>1. JoinedTo(s, 1) = s[1] /\ JoinedTo(t, 1) = t[1]
      BY <1>1, <2>1, JoinedToIs
    <3>2. p ++ a = q ++ b
      BY <2>3, <3>1
    <3> HIDE DEF a, b
    <3>3. x = y /\ a = b
      BY <2>2, <3>2, TokensAre, CutLast
    <3> QED
      BY <2>3, <3>3 DEF a, b
  <2>4. CASE n # 0
    <3> DEFINE j == JoinedTo(s, n)
               k == JoinedTo(t, n)
    <3>1. j \in Texts /\ JoinedTo(s, n + 1) = (j ++ One(Separator)) ++ a
      BY <2>1, <2>4, JoinedToIs
    <3>2. k \in Texts /\ JoinedTo(t, n + 1) = (k ++ One(Separator)) ++ b
      BY <2>1, <2>4, JoinedToIs
    <3>3. p ++ ((j ++ One(Separator)) ++ a) = q ++ ((k ++ One(Separator)) ++ b)
      BY <3>1, <3>2
    <3>p. p \in Texts /\ q \in Texts
      BY <1>3
    <3>q. p ++ j = q ++ k => Behind(n)
      OBVIOUS
    <3> HIDE DEF a, b, j, k, p, q, Behind
    <3>4. j ++ One(Separator) \in Texts /\ p ++ j \in Texts
      BY <1>2, <3>1, <3>p, Catenated
    <3>5. k ++ One(Separator) \in Texts /\ q ++ k \in Texts
      BY <1>2, <3>2, <3>p, Catenated
    <3>6. p ++ ((j ++ One(Separator)) ++ a) = ((p ++ j) ++ One(Separator)) ++ a
      <4>1. p ++ ((j ++ One(Separator)) ++ a) = (p ++ (j ++ One(Separator))) ++ a
        BY <2>2, <3>p, <3>4, Associative
      <4>2. p ++ (j ++ One(Separator)) = (p ++ j) ++ One(Separator)
        BY <1>2, <3>1, <3>p, Associative
      <4> QED
        BY <4>1, <4>2
    <3>7. q ++ ((k ++ One(Separator)) ++ b) = ((q ++ k) ++ One(Separator)) ++ b
      <4>1. q ++ ((k ++ One(Separator)) ++ b) = (q ++ (k ++ One(Separator))) ++ b
        BY <2>2, <3>p, <3>5, Associative
      <4>2. q ++ (k ++ One(Separator)) = (q ++ k) ++ One(Separator)
        BY <1>2, <3>2, <3>p, Associative
      <4> QED
        BY <4>1, <4>2
    <3> DEFINE c == p ++ j
               d == q ++ k
    <3>8. c \in Texts /\ d \in Texts /\ (c ++ One(Separator)) ++ a = (d ++ One(Separator)) ++ b
      BY <3>3, <3>4, <3>5, <3>6, <3>7
    <3> HIDE DEF c, d
    <3>9. c = d /\ a = b
      BY <2>2, <3>8, TokensAre, CutLast
    <3>10. Behind(n)
      BY <3>q, <3>9 DEF c, d
    <3>11. x = y /\ \A i \in 1..n : s[i] = t[i]
      BY <1>5, <2>1, <3>10
    <3>12. \A i \in 1..(n + 1) : i \in 1..n \/ i = n + 1
      OBVIOUS
    <3> QED
      BY <3>9, <3>11, <3>12 DEF a, b
  <2> QED
    BY <2>3, <2>4
<1>6. Behind(Len(s))
  BY JoinedIs
<1> HIDE DEF S, Behind
<1>7. Nat \subseteq S
  BY <1>4, <1>5, SetInduction
<1>8. x = y /\ \A i \in 1..Len(s) : s[i] = t[i]
  BY <1>1, <1>6, <1>7 DEF S
<1> QED
  BY <1>8, SeqEqual

-----------------------------------------------------------------------------
(* Cache keys: the headers *)

\* One header with its name.
Line(h) == <<h.name, "=">> \o h.text

LEMMA LineIs ==
  ASSUME NEW h \in [name : Tokens \ {Separator}, text : Texts]
  PROVE  /\ Line(h) \in Texts /\ Line(h) = (One(h.name) ++ One(Equals)) ++ h.text
         /\ One(h.name) ++ One(Equals) \in Texts
         /\ LacksToken(h.text, Separator) => LacksToken(Line(h), Separator)
<1> DEFINE n == h.name
           t == h.text
           p == One(n) ++ One(Equals)
<1>1. n \in Tokens /\ n # Separator /\ t \in Texts
  OBVIOUS
<1>2. p = <<n, "=">>
  BY <1>1, TwoTokens, TokensAre DEF Equals
<1>3. Line(h) = p ++ t
  BY <1>2 DEF Line, ++
<1>4. p \in Texts
  BY <1>1, OneToken, TokensAre, Catenated
<1>5. Line(h) \in Texts
  BY <1>1, <1>3, <1>4, Catenated
<1>6. Len(p) = 2 /\ p[1] = n /\ p[2] = Equals
  BY <1>2 DEF Equals
<1>7. ASSUME LacksToken(t, Separator) PROVE LacksToken(p ++ t, Separator)
  <2> HIDE DEF p, t, n
  <2> SUFFICES ASSUME NEW i \in 1..Len(p ++ t) PROVE (p ++ t)[i] # Separator
    BY DEF LacksToken
  <2>1. Len(p ++ t) = Len(p) + Len(t) /\ Len(t) \in Nat
    BY <1>1, <1>4, Catenated
  <2>2. CASE i \in 1..Len(p)
    <3>1. (p ++ t)[i] = p[i]
      BY <1>1, <1>4, <2>2, InFront
    <3>2. i = 1 \/ i = 2
      BY <1>6, <2>2
    <3> QED
      BY <1>1, <1>6, <3>1, <3>2, TokensAre
  <2>3. CASE i \notin 1..Len(p)
    <3> DEFINE j == i - Len(p)
    <3>1. j \in 1..Len(t) /\ Len(p) + j = i
      BY <1>6, <2>1, <2>3
    <3> HIDE DEF j
    <3>2. (p ++ t)[Len(p) + j] = t[j]
      BY <1>1, <1>4, <3>1, InBack
    <3> QED
      BY <1>7, <3>1, <3>2 DEF LacksToken
  <2> QED
    BY <2>2, <2>3
<1> QED
  BY <1>3, <1>4, <1>5, <1>7

Lines(r) == [i \in DOMAIN r.headers |-> <<r.headers[i].name, "=">> \o r.headers[i].text]

LEMMA LinesAre ==
  ASSUME NEW r \in RouteRequests
  PROVE  /\ r.headers \in Seq([name : Tokens \ {Separator}, text : Texts])
         /\ Lines(r) \in Seq(Texts) /\ Len(Lines(r)) = Len(r.headers)
         /\ \A i \in 1..Len(r.headers) : Lines(r)[i] = Line(r.headers[i])
         /\ Headers(r) = Joined(Lines(r)) /\ Headers(r) \in Texts
<1>1. r.headers \in Seq([name : Tokens \ {Separator}, text : Texts])
  BY CacheKeyAssumption
<1>2. DOMAIN r.headers = 1..Len(r.headers) /\ Len(r.headers) \in Nat
  BY <1>1
<1>3. \A i \in 1..Len(r.headers) : Lines(r)[i] = Line(r.headers[i])
  BY <1>2 DEF Lines, Line
<1>4. \A i \in 1..Len(r.headers) : Line(r.headers[i]) \in Texts
  <2> TAKE i \in 1..Len(r.headers)
  <2>1. r.headers[i] \in [name : Tokens \ {Separator}, text : Texts]
    BY <1>1, ElementOfSeq
  <2> QED
    BY <2>1, LineIs
<1>5. Lines(r) = [i \in 1..Len(r.headers) |-> Line(r.headers[i])]
  BY <1>2 DEF Lines, Line
<1>6. Lines(r) \in Seq(Texts) /\ Len(Lines(r)) = Len(r.headers)
  <2> DEFINE f == [i \in 1..Len(r.headers) |-> Line(r.headers[i])]
  <2>1. f \in [1..Len(r.headers) -> Texts]
    BY <1>4
  <2>2. f \in Seq(Texts) /\ Len(f) = Len(r.headers)
    <3>1. \A i \in 1..Len(r.headers) : f[i] \in Texts
      BY <1>4
    <3> QED
      BY <1>2, <2>1, <3>1
  <2> QED
    BY <1>5, <2>2
<1>7. Headers(r) = Joined(Lines(r))
  BY DEF Headers, Lines
<1>8. Headers(r) \in Texts
  <2>1. Len(Lines(r)) \in 0..Len(Lines(r))
    BY <1>2, <1>6
  <2> QED
    BY <1>6, <1>7, <2>1, JoinedIs, JoinedToIs
<1> QED
  BY <1>1, <1>3, <1>6, <1>7, <1>8

LEMMA HeadersRead ==
  ASSUME NEW r \in RouteRequests, NEW s \in RouteRequests, NEW x \in Texts, NEW y \in Texts,
         \A i \in 1..Len(r.headers) : LacksToken(r.headers[i].text, Separator),
         \A i \in 1..Len(s.headers) : LacksToken(s.headers[i].text, Separator),
         (x ++ One(Separator)) ++ Headers(r) = (y ++ One(Separator)) ++ Headers(s)
  PROVE  x = y /\ r.headers = s.headers
<1> DEFINE Header == [name : Tokens \ {Separator}, text : Texts]
           g == r.headers
           h == s.headers
<1>1. Len(g) = Len(h) /\ \A i \in 1..Len(g) : g[i].name = h[i].name
  <2>1. r.headers \in Seq(Header)
    BY LinesAre
  <2>2. DOMAIN r.headers = 1..Len(r.headers)
    BY <2>1
  <2> QED
    BY <2>2, CacheKeyAssumption
<1>2. /\ g \in Seq(Header) /\ Lines(r) \in Seq(Texts) /\ Len(Lines(r)) = Len(g)
      /\ \A i \in 1..Len(g) : Lines(r)[i] = Line(g[i])
      /\ Headers(r) = Joined(Lines(r))
  BY LinesAre
<1>3. /\ h \in Seq(Header) /\ Lines(s) \in Seq(Texts) /\ Len(Lines(s)) = Len(h)
      /\ \A i \in 1..Len(h) : Lines(s)[i] = Line(h[i])
      /\ Headers(s) = Joined(Lines(s))
  BY LinesAre
<1>4. \A i \in 1..Len(g) : g[i] \in Header /\ h[i] \in Header
  BY <1>1, <1>2, <1>3, ElementOfSeq
<1>5. \A i \in 1..Len(g) : LacksToken(g[i].text, Separator) /\ LacksToken(h[i].text, Separator)
  BY <1>1
<1> HIDE DEF g, h
<1>6. \A i \in 1..Len(Lines(r)) :
        LacksToken(Lines(r)[i], Separator) /\ LacksToken(Lines(s)[i], Separator)
  <2> TAKE i \in 1..Len(Lines(r))
  <2>1. i \in 1..Len(g) /\ i \in 1..Len(h)
    BY <1>1, <1>2
  <2>2. LacksToken(Line(g[i]), Separator) /\ LacksToken(Line(h[i]), Separator)
    BY <1>4, <1>5, <2>1, LineIs
  <2> QED
    BY <1>2, <1>3, <2>1, <2>2
<1>7. x = y /\ Lines(r) = Lines(s)
  <2> DEFINE a == Lines(r)
             b == Lines(s)
  <2>1. /\ a \in Seq(Texts) /\ b \in Seq(Texts) /\ Len(a) = Len(b)
        /\ \A i \in 1..Len(a) : LacksToken(a[i], Separator) /\ LacksToken(b[i], Separator)
        /\ (x ++ One(Separator)) ++ Joined(a) = (y ++ One(Separator)) ++ Joined(b)
    BY <1>1, <1>2, <1>3, <1>6
  <2> HIDE DEF a, b
  <2>2. x = y /\ a = b
    BY <2>1, JoinedReads
  <2> QED
    BY <2>2 DEF a, b
<1>8. ASSUME NEW i \in 1..Len(g) PROVE g[i] = h[i]
  <2> DEFINE c == g[i]
             d == h[i]
  <2>1. c \in Header /\ d \in Header /\ c.name = d.name /\ Line(c) = Line(d)
    BY <1>1, <1>2, <1>3, <1>4, <1>7
  <2> HIDE DEF c, d
  <2> DEFINE p == One(c.name) ++ One(Equals)
             t == c.text
             u == d.text
  <2>2. p \in Texts /\ Line(c) = p ++ t /\ Line(d) = p ++ u
    BY <2>1, LineIs
  <2>3. t \in Texts /\ u \in Texts
    BY <2>1
  <2>4. c = [name |-> c.name, text |-> t] /\ d = [name |-> d.name, text |-> u]
    BY <2>1
  <2> HIDE DEF p, t, u
  <2>5. t = u
    BY <2>1, <2>2, <2>3, PartedAfter
  <2> QED
    BY <2>1, <2>4, <2>5 DEF c, d
<1>9. g = h
  BY <1>1, <1>2, <1>3, <1>8, SeqEqual
<1> QED
  BY <1>7, <1>9 DEF g, h

-----------------------------------------------------------------------------
(* Cache keys: the whole key *)

LEMMA RequestIs ==
  ASSUME NEW r \in RouteRequests
  PROVE  /\ One(r.method) \in Texts /\ Len(One(r.method)) = 1 /\ One(r.method)[1] = r.method
         /\ r.path \in Texts /\ r.query \in Queries /\ r.varyBy \in Texts
         /\ SerializeQuery(r.query) \in Texts /\ Headers(r) \in Texts
         /\ r = [method |-> r.method, path |-> r.path, query |-> r.query,
                 headers |-> r.headers, varyBy |-> r.varyBy]
<1>1. /\ r.method \in Tokens /\ r.path \in Texts /\ r.query \in Queries /\ r.varyBy \in Texts
      /\ r = [method |-> r.method, path |-> r.path, query |-> r.query,
              headers |-> r.headers, varyBy |-> r.varyBy]
  BY CacheKeyAssumption DEF Queries
<1>2. SerializeQuery(r.query) \in Texts
  <2>1. Len(QueryNames) \in 0..Len(QueryNames)
    BY NamesAre
  <2> QED
    BY <1>1, <2>1, SerializeQueryIs, QueryToIs
<1> QED
  BY <1>1, <1>2, LinesAre, OneToken

\* The parts of a key, the last of them first.
LEMMA RouteKeyIs ==
  ASSUME NEW r \in RouteRequests
  PROVE  RouteKey(r) =
           ((((((((One(r.method) ++ One(Separator)) ++ r.path) ++ One(Separator))
              ++ SerializeQuery(r.query)) ++ One(Separator)) ++ Headers(r))
              ++ One(Separator)) ++ r.varyBy)
<1> DEFINE q == SerializeQuery(r.query)
           h == Headers(r)
           p == r.path
           m == One(r.method)
           v == r.varyBy
           texts == <<m, p, q, h, v>>
<1>1. m \in Texts /\ p \in Texts /\ q \in Texts /\ h \in Texts /\ v \in Texts
  BY RequestIs
<1>2. RouteKey(r) = Joined(texts)
  BY DEF RouteKey, One
<1> HIDE DEF m, p, q, h, v
<1>3. /\ texts \in Seq(Texts) /\ Len(texts) = 5
      /\ texts[1] = m /\ texts[2] = p /\ texts[3] = q /\ texts[4] = h /\ texts[5] = v
  BY <1>1
<1> HIDE DEF texts
<1> DEFINE J(n) == JoinedTo(texts, n)
<1>4. J(1) = m
  BY <1>3, JoinedToIs
<1>5. \A n \in 1..4 : J(n + 1) = (J(n) ++ One(Separator)) ++ texts[n + 1]
  <2> TAKE n \in 1..4
  <2>1. n \in Nat \ {0} /\ n + 1 \in 1..Len(texts)
    BY <1>3
  <2> QED
    BY <1>3, <2>1, JoinedToIs
<1>6. RouteKey(r) = J(5)
  BY <1>2, <1>3, JoinedIs
<1> HIDE DEF J
<1>7. J(2) = (m ++ One(Separator)) ++ p
  <2>1. 1 \in 1..4 /\ 1 + 1 = 2
    OBVIOUS
  <2> QED
    BY <1>3, <1>4, <1>5, <2>1
<1>8. J(3) = (J(2) ++ One(Separator)) ++ q
  <2>1. 2 \in 1..4 /\ 2 + 1 = 3
    OBVIOUS
  <2> QED
    BY <1>3, <1>5, <2>1
<1>9. J(4) = (J(3) ++ One(Separator)) ++ h
  <2>1. 3 \in 1..4 /\ 3 + 1 = 4
    OBVIOUS
  <2> QED
    BY <1>3, <1>5, <2>1
<1>10. J(5) = (J(4) ++ One(Separator)) ++ v
  <2>1. 4 \in 1..4 /\ 4 + 1 = 5
    OBVIOUS
  <2> QED
    BY <1>3, <1>5, <2>1
<1> QED
  BY <1>6, <1>7, <1>8, <1>9, <1>10 DEF m, p, q, h, v

LEMMA BareIs ==
  ASSUME NEW r \in RouteRequests, Separator \notin Bare(r)
  PROVE  /\ LacksToken(r.path, Separator) /\ LacksToken(r.varyBy, Separator)
         /\ \A i \in 1..Len(r.headers) : LacksToken(r.headers[i].text, Separator)
<1>1. ASSUME NEW a \in Texts, Separator \notin ToSet(a) PROVE LacksToken(a, Separator)
  <2>1. DOMAIN a = 1..Len(a)
    BY DEF Texts
  <2> QED
    BY <1>1, <2>1 DEF ToSet, LacksToken
<1>2. LacksToken(r.path, Separator) /\ LacksToken(r.varyBy, Separator)
  BY <1>1, RequestIs DEF Bare
<1>3. ASSUME NEW i \in 1..Len(r.headers) PROVE LacksToken(r.headers[i].text, Separator)
  <2>1. r.headers \in Seq([name : Tokens \ {Separator}, text : Texts])
    BY LinesAre
  <2>2. i \in DOMAIN r.headers /\ r.headers[i].text \in Texts
    <3> DEFINE h == r.headers
               H == [name : Tokens \ {Separator}, text : Texts]
    <3>1. h \in Seq(H) /\ i \in 1..Len(h)
      BY <2>1
    <3> HIDE DEF h, H
    <3>2. i \in DOMAIN h /\ h[i] \in H
      BY <3>1, ElementOfSeq
    <3> QED
      BY <3>2 DEF h, H
  <2>3. ToSet(r.headers[i].text) \subseteq Bare(r)
    BY <2>2 DEF Bare
  <2> QED
    BY <1>1, <2>2, <2>3
<1> QED
  BY <1>2, <1>3

\* What stands before the headers.
KeyFront(m, p, q) == (((m ++ One(Separator)) ++ p) ++ One(Separator)) ++ q

LEMMA FrontReads ==
  ASSUME NEW m \in Texts, NEW p \in Texts, NEW q \in Texts,
         NEW n \in Texts, NEW o \in Texts, NEW r \in Texts,
         Len(m) = Len(n), LacksToken(p, Separator), LacksToken(o, Separator),
         KeyFront(m, p, q) = KeyFront(n, o, r)
  PROVE  m = n /\ p = o /\ q = r
<1> DEFINE S == One(Separator)
           a == m ++ S
           b == n ++ S
<1>1. S \in Texts
  BY OneToken, TokensAre
<1>2. a \in Texts /\ Len(a) = Len(m) + Len(S)
  BY <1>1, Catenated
<1>3. b \in Texts /\ Len(b) = Len(n) + Len(S)
  BY <1>1, Catenated
<1>4. ((a ++ p) ++ S) ++ q = ((b ++ o) ++ S) ++ r
  BY DEF KeyFront
<1>5. ASSUME NEW c \in Texts, NEW d \in Texts, NEW e \in Texts
      PROVE  ((c ++ d) ++ S) ++ e = c ++ (d ++ (S ++ e)) /\ S ++ e \in Texts /\ d ++ (S ++ e) \in Texts
  <2> HIDE DEF S
  <2>1. S ++ e \in Texts /\ c ++ d \in Texts
    BY <1>1, Catenated
  <2>2. d ++ (S ++ e) \in Texts
    BY <2>1, Catenated
  <2>3. ((c ++ d) ++ S) ++ e = (c ++ d) ++ (S ++ e)
    BY <1>1, <2>1, Associative
  <2>4. (c ++ d) ++ (S ++ e) = c ++ (d ++ (S ++ e))
    BY <2>1, Associative
  <2> QED
    BY <2>1, <2>2, <2>3, <2>4
<1> HIDE DEF S, a, b
<1>6. /\ ((a ++ p) ++ S) ++ q = a ++ (p ++ (S ++ q)) /\ p ++ (S ++ q) \in Texts
      /\ ((b ++ o) ++ S) ++ r = b ++ (o ++ (S ++ r)) /\ o ++ (S ++ r) \in Texts
  BY <1>2, <1>3, <1>5
<1>7. a = b /\ p ++ (S ++ q) = o ++ (S ++ r)
  <2> DEFINE x == p ++ (S ++ q)
             y == o ++ (S ++ r)
  <2>1. x \in Texts /\ y \in Texts /\ a ++ x = b ++ y /\ Len(a) = Len(b)
    BY <1>2, <1>3, <1>4, <1>6
  <2> HIDE DEF x, y
  <2>2. a = b /\ x = y
    BY <1>2, <1>3, <2>1, PartedAfter
  <2> QED
    BY <2>2 DEF x, y
<1>8. p = o /\ q = r
  BY <1>7, TokensAre, CutFirst DEF S
<1>9. m = n
  BY <1>7, TokensAre, SameHead DEF a, b, S
<1> QED
  BY <1>8, <1>9

\* Requests with one key are one, as far as the key goes.
LEMMA KeyReads ==
  ASSUME NEW r \in RouteRequests, NEW s \in RouteRequests,
         Separator \notin Bare(r) \cup Bare(s), RouteKey(r) = RouteKey(s)
  PROVE  r = s
<1> DEFINE S == One(Separator)
           m == One(r.method)
           n == One(s.method)
           p == r.path
           o == s.path
           q == SerializeQuery(r.query)
           k == SerializeQuery(s.query)
           g == Headers(r)
           h == Headers(s)
           v == r.varyBy
           w == s.varyBy
           x == (((m ++ S) ++ p) ++ S) ++ q
           y == (((n ++ S) ++ o) ++ S) ++ k
           a == (x ++ S) ++ g
           b == (y ++ S) ++ h
<1>1. S \in Texts
  BY OneToken, TokensAre
<1>2. /\ m \in Texts /\ Len(m) = 1 /\ m[1] = r.method /\ p \in Texts /\ q \in Texts
      /\ g \in Texts /\ v \in Texts
  BY RequestIs
<1>3. /\ n \in Texts /\ Len(n) = 1 /\ n[1] = s.method /\ o \in Texts /\ k \in Texts
      /\ h \in Texts /\ w \in Texts
  BY RequestIs
<1>4. /\ LacksToken(p, Separator) /\ LacksToken(v, Separator)
      /\ \A i \in 1..Len(r.headers) : LacksToken(r.headers[i].text, Separator)
  BY BareIs
<1>5. /\ LacksToken(o, Separator) /\ LacksToken(w, Separator)
      /\ \A i \in 1..Len(s.headers) : LacksToken(s.headers[i].text, Separator)
  BY BareIs
<1>6. (a ++ S) ++ v = (b ++ S) ++ w
  BY RouteKeyIs
<1>7. q = k => r.query = s.query
  BY RequestIs, QueryReads
<1>8. \A c, d \in Texts : (c ++ S) ++ g = (d ++ S) ++ h => c = d /\ r.headers = s.headers
  BY <1>4, <1>5, HeadersRead
<1>9. m = n /\ p = o /\ v = w /\ q = k /\ r.headers = s.headers => r = s
  <2> SUFFICES ASSUME m = n, p = o, v = w, q = k, r.headers = s.headers PROVE r = s
    OBVIOUS
  <2>1. r.method = s.method
    BY <1>2, <1>3
  <2>2. r.path = s.path /\ r.varyBy = s.varyBy /\ r.query = s.query
    BY <1>7
  <2>3. r = [method |-> r.method, path |-> r.path, query |-> r.query,
             headers |-> r.headers, varyBy |-> r.varyBy]
    BY RequestIs
  <2>4. s = [method |-> s.method, path |-> s.path, query |-> s.query,
             headers |-> s.headers, varyBy |-> s.varyBy]
    BY RequestIs
  <2> QED
    BY <2>1, <2>2, <2>3, <2>4
<1> HIDE DEF m, n, p, o, q, k, g, h, v, w
<1>10. x \in Texts /\ y \in Texts
  <2>1. ASSUME NEW c \in Texts, NEW d \in Texts, NEW e \in Texts
        PROVE  (((c ++ S) ++ d) ++ S) ++ e \in Texts
    <3> HIDE DEF S
    <3>1. c ++ S \in Texts
      BY <1>1, Catenated
    <3>2. (c ++ S) ++ d \in Texts
      BY <3>1, Catenated
    <3>3. ((c ++ S) ++ d) ++ S \in Texts
      BY <1>1, <3>2, Catenated
    <3> QED
      BY <3>3, Catenated
  <2> QED
    BY <1>2, <1>3, <2>1
<1>11. x = y => m = n /\ p = o /\ q = k
  <2> SUFFICES ASSUME x = y PROVE m = n /\ p = o /\ q = k
    OBVIOUS
  <2>1. KeyFront(m, p, q) = KeyFront(n, o, k)
    BY DEF KeyFront
  <2> HIDE DEF x, y, S
  <2>2. m \in Texts /\ p \in Texts /\ q \in Texts
    BY <1>2
  <2>3. n \in Texts /\ o \in Texts /\ k \in Texts
    BY <1>3
  <2>4. Len(m) = Len(n) /\ LacksToken(p, Separator) /\ LacksToken(o, Separator)
    BY <1>2, <1>3, <1>4, <1>5
  <2> QED
    BY <2>1, <2>2, <2>3, <2>4, FrontReads
<1> HIDE DEF x, y
<1>12. a \in Texts /\ b \in Texts
  <2> HIDE DEF S
  <2>1. x ++ S \in Texts /\ y ++ S \in Texts
    BY <1>1, <1>10, Catenated
  <2> QED
    BY <1>2, <1>3, <2>1, Catenated
<1>13. a = b => x = y /\ r.headers = s.headers
  BY <1>8, <1>10
<1> HIDE DEF a, b
<1>14. a = b /\ v = w
  BY <1>2, <1>3, <1>4, <1>5, <1>6, <1>12, TokensAre, CutLast
<1> QED
  BY <1>9, <1>11, <1>13, <1>14

\* What is stored is the response to a request with the key.
StoredByKey ==
  \A key \in DOMAIN responses :
    responses[key] \in RouteRequests /\ RouteKey(responses[key]) = key

LEMMA StoredByKeyInductive == CacheKeySpec => []StoredByKey
<1>1. CacheKeyInit => StoredByKey
  BY DEF CacheKeyInit, Empty, StoredByKey
<1>2. StoredByKey /\ [CacheKeyNext]_responses => StoredByKey'
  <2> SUFFICES ASSUME StoredByKey, [CacheKeyNext]_responses PROVE StoredByKey'
    OBVIOUS
  <2>1. CASE Expires
    BY <2>1 DEF Expires, Empty, StoredByKey
  <2>2. ASSUME NEW r \in RouteRequests, MissStores(r) PROVE StoredByKey'
    <3> DEFINE k == RouteKey(r)
    <3>1. responses' = [key \in {k} |-> r] /\ RouteKey(r) = k
      BY <2>2 DEF MissStores
    <3> HIDE DEF k
    <3> QED
      BY <3>1 DEF StoredByKey
  <2>3. CASE UNCHANGED responses
    BY <2>3 DEF StoredByKey
  <2> QED
    BY <2>1, <2>2, <2>3 DEF CacheKeyNext
<1> QED
  BY <1>1, <1>2, PTL DEF CacheKeySpec

\* Whoever is answered from the cache gets the response to his own request,
\* whatever the values of the query hold, and whatever the other parts hold but
\* the separator: the key of a request can be read back from its right end.
THEOREM RequestsAreAnsweredAlike == CacheKeySpec => []AnsweredAlike
<1>1. StoredByKey => AnsweredAlike
  <2> SUFFICES ASSUME StoredByKey, NEW key \in DOMAIN responses, NEW r \in RouteRequests,
                      Separator \notin Bare(r) \cup Bare(responses[key]), RouteKey(r) = key
               PROVE  responses[key] = r
    BY DEF AnsweredAlike
  <2> DEFINE s == responses[key]
  <2>1. s \in RouteRequests /\ RouteKey(s) = key
    BY DEF StoredByKey
  <2> HIDE DEF s
  <2>2. r = s
    BY <2>1, KeyReads DEF s
  <2> QED
    BY <2>2 DEF s
<1> QED
  BY <1>1, StoredByKeyInductive, PTL

-----------------------------------------------------------------------------
(* All of them, one of which moves *)

AllInv == WalkInv /\ FolderInv /\ BanInv

LEMMA RestInitial == WalkAtRest => WalkInv
<1> SUFFICES ASSUME WalkAtRest PROVE WalkInv
  OBVIOUS
<1>1. /\ rows = {} /\ stayed = {} /\ cached = [c \in 1..Start |-> NoPage]
      /\ cursor = End /\ listed = <<>> /\ cut = FALSE
  BY DEF WalkAtRest
<1>2. /\ cursor \in End..Start /\ listed \in Seq(Ids) /\ Len(listed) = 0
      /\ ToSet(listed) = {} /\ cursor # Start
  <2>1. End \in End..Start /\ End # Start
    BY PaginationAssumption DEF End, Start
  <2> QED
    BY <1>1, <2>1 DEF ToSet
<1>3. PaginationTypeOK
  BY <1>1, <1>2 DEF PaginationTypeOK
<1>4. PagesAreWhole /\ ListStartsEmpty /\ NoRowIsSkipped
  BY <1>1 DEF PagesAreWhole, ListStartsEmpty, NoRowIsSkipped
<1>5. ListedInOrder
  BY <1>2 DEF ListedInOrder
<1> QED
  BY <1>3, <1>4, <1>5 DEF WalkInv

\* Every component of the run is type correct, at rest as well.
THEOREM StandaloneTypeCorrect == StandaloneSpec => []StandaloneTypeOK
<1>1. StandaloneInit => AllInv
  BY WalkInitial, RestInitial, FolderInit, BanInitial DEF StandaloneInit, AllInv
<1>2. AllInv /\ [StandaloneNext]_allVars => AllInv'
  <2> SUFFICES ASSUME AllInv, [StandaloneNext]_allVars
               PROVE  AllInv'
    OBVIOUS
  <2>1. [WalkNext]_walkVars /\ [Next]_vars /\ [BanNext]_banVars
    BY DEF StandaloneNext, allVars
  <2> QED
    BY <2>1, WalkStep, FolderStep, BanInvStep DEF AllInv
<1>3. AllInv => StandaloneTypeOK
  BY DEF AllInv, WalkInv, FolderInv, BanInv, StandaloneTypeOK
<1> QED
  BY <1>1, <1>2, <1>3, PTL DEF StandaloneSpec
=============================================================================
