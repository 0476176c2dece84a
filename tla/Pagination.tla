----------------------------- MODULE Pagination -----------------------------
(***************************************************************************)
(* A client walks GET /messages from page to page while messages come and  *)
(* go and pages are served from the response cache.  Ids are naturals in   *)
(* the order of the uuids; a create may take any id, as clients may choose *)
(* theirs.                                                                 *)
(***************************************************************************)
EXTENDS Naturals, FiniteSetsExt, SequencesExt

CONSTANTS MaxId,     \* ids are 1..MaxId
          Limit,     \* the page size the client asks for
          MaxCached, \* entries in the cache at a time (bounds the model)
          NoPage     \* "nothing under the key"

ASSUME PaginationAssumption ==
  MaxId \in Nat /\ Limit \in Nat \ {0} /\ MaxCached \in Nat

Ids == 1..MaxId

\* A cursor is the last id of a page.  The first page has none, which is one
\* above all ids, and a null nextCursor is one below.
End == 0

Start == MaxId + 1

VARIABLES rows,    \* the ids in the table
          cached,  \* the cached page of each cursor
          cursor,  \* what the client asks for next
          listed,  \* the ids it was shown, in order
          stayed,  \* history: rows that are there since all it saw was read
          cut      \* history: it was shown a page whose cursor row was gone

walkVars == <<rows, cached, cursor, listed, stayed, cut>>

\* `kept' and `cut' are history: the rows of the table that are there since
\* the page was read, and whether its cursor row was missing then.
Entries == [ids : SUBSET Ids, kept : SUBSET Ids, cut : BOOLEAN]

\* What the client was shown is not older than its cursor.
PaginationTypeOK ==
  /\ rows \subseteq Ids
  /\ cached \in [1..Start -> Entries \cup {NoPage}]
  /\ cursor \in End..Start
  /\ listed \in Seq(Ids)
  /\ cursor # Start => \A id \in ToSet(listed) : id >= cursor
  /\ stayed \subseteq rows
  /\ cut \in BOOLEAN

WalkInit ==
  /\ rows \in SUBSET Ids
  /\ cached = [c \in 1..Start |-> NoPage]
  /\ cursor = Start
  /\ listed = <<>>
  /\ stayed = rows
  /\ cut = FALSE

-----------------------------------------------------------------------------
(* findPage *)

\* Mutant of Older: the row of the cursor is not skipped.
OlderOrSame(c) == {id \in rows : id <= c}

Older(c) == {id \in rows : id < c}

Gone(c) == c # Start /\ c \notin rows

\* take and orderBy: the newest of the older rows.  Prisma compares with the
\* cursor's row, so without it there are none.
FindMany(c) ==
  IF Gone(c) THEN {}
  ELSE {id \in Older(c) : Cardinality({k \in Older(c) : k > id}) < Limit}

\* Mutants of NextCursor: an off-by-one, and the cursor kept on an empty page.
NextCursorAbove(ids, c) == IF Cardinality(ids) > Limit THEN Min(ids) ELSE End

NextCursorKept(ids, c) == IF ids = {} THEN c ELSE Min(ids)

\* Only a full page has a next one.
NextCursor(ids, c) == IF Cardinality(ids) = Limit THEN Min(ids) ELSE End

Read(c) == [ids |-> FindMany(c), kept |-> rows, cut |-> Gone(c)]

Stored(c) ==
  /\ Cardinality({d \in 1..Start : d # c /\ cached[d] # NoPage}) < MaxCached
  /\ cached' = [cached EXCEPT ![c] = Read(c)]

-----------------------------------------------------------------------------
(* The client *)

\* A page in the order of its query.
NewestFirst(ids) ==
  [i \in 1..Cardinality(ids) |->
     CHOOSE id \in ids : Cardinality({k \in ids : k > id}) = i - 1]

\* The client is shown a page and follows its nextCursor.
Show(entry) ==
  /\ cursor' = NextCursor(entry.ids, cursor)
  /\ listed' = listed \o NewestFirst(entry.ids)
  /\ stayed' = stayed \cap entry.kept
  /\ cut' = (cut \/ entry.cut)

Hit ==
  /\ cursor # End
  /\ cached[cursor] # NoPage
  /\ Show(cached[cursor])
  /\ UNCHANGED <<rows, cached>>

\* A miss, or a failing look-up: the page is read, and stored if Redis works.
Miss ==
  /\ cursor # End
  /\ Show(Read(cursor))
  /\ Stored(cursor) \/ UNCHANGED cached
  /\ UNCHANGED rows

Again ==
  /\ cursor = End
  /\ cursor' = Start
  /\ listed' = <<>>
  /\ stayed' = rows
  /\ cut' = FALSE
  /\ UNCHANGED <<rows, cached>>

-----------------------------------------------------------------------------
(* Everybody else *)

\* Another client fills the entry of any cursor.
Fill(c) ==
  /\ Stored(c)
  /\ UNCHANGED <<rows, cursor, listed, stayed, cut>>

\* An entry expires, or an invalidation gets to it.
Drop(c) ==
  /\ cached[c] # NoPage
  /\ cached' = [cached EXCEPT ![c] = NoPage]
  /\ UNCHANGED <<rows, cursor, listed, stayed, cut>>

Create(id) ==
  /\ id \notin rows
  /\ rows' = rows \cup {id}
  /\ UNCHANGED <<cached, cursor, listed, stayed, cut>>

Delete(id) ==
  /\ id \in rows
  /\ rows' = rows \ {id}
  /\ cached' = [c \in 1..Start |-> IF cached[c] = NoPage THEN NoPage
                                   ELSE [cached[c] EXCEPT !.kept = @ \ {id}]]
  /\ stayed' = stayed \ {id}
  /\ UNCHANGED <<cursor, listed, cut>>

WalkNext ==
  \/ Hit \/ Miss \/ Again
  \/ \E c \in 1..Start : Fill(c) \/ Drop(c)
  \/ \E id \in Ids : Create(id) \/ Delete(id)

WalkSpec == WalkInit /\ [][WalkNext]_walkVars

\* A client that has a next cursor asks for its page and is answered.
WalkFairSpec == WalkSpec /\ WF_walkVars(Hit \/ Miss)

-----------------------------------------------------------------------------
(* Properties *)

\* Newest first and none twice, whatever is created, deleted or served from
\* the cache between two pages.
ListedInOrder ==
  \A i \in 1..(Len(listed) - 1) : listed[i] > listed[i + 1]

\* The walk skips nothing: a row that was there since the first page of the
\* walk was read, and is not older than the cursor, has been listed.  The one
\* exception is a walk that was cut off because a row it had as cursor was
\* deleted before the next page was read.
NoRowIsSkipped ==
  ~cut => \A id \in stayed : id >= cursor => id \in ToSet(listed)

\* A walk ends, even one that chases rows which keep being created.
WalkEnds == cursor # End ~> cursor = End
=============================================================================
