------------------------------ MODULE S3Folder ------------------------------
(***************************************************************************)
(* s3BucketService.deleteFolder: list a page of the objects under a        *)
(* prefix, delete it, go on with the listing's continuation token.  Others *)
(* upload and delete objects of the folder meanwhile (signed URLs need no  *)
(* server).  Objects are naturals in the order of their keys.              *)
(***************************************************************************)
EXTENDS Naturals, FiniteSets

CONSTANTS MaxKey,   \* the folder's objects are 1..MaxKey
          PageSize  \* the most objects a page of the listing has (1000)

ASSUME FolderAssumption == MaxKey \in Nat /\ PageSize \in Nat \ {0}

Keys == 1..MaxKey

\* A continuation token stands for the last key listed; undefined is None.
None == 0

VARIABLES objects,  \* the objects in the folder
          step,     \* where the call is
          token,    \* continuationToken
          next,     \* NextContinuationToken of the latest page
          page,     \* objects of the latest page
          old       \* history: objects that are there since the call began

vars == <<objects, step, token, next, page, old>>

\* A page was listed after the token, the next listing starts with the token
\* of the last one, and that is no earlier than the page.
FolderTypeOK ==
  /\ objects \subseteq Keys
  /\ step \in {"idle", "list", "delete", "done", "failed"}
  /\ token \in None..MaxKey
  /\ next \in None..MaxKey
  /\ page \subseteq (token + 1)..MaxKey
  /\ old \subseteq objects
  /\ next # None => \A k \in page : k <= next
  /\ step = "list" => token = next

Init ==
  /\ objects \in SUBSET Keys
  /\ step = "idle"
  /\ token = None
  /\ next = None
  /\ page = {}
  /\ old = {}

-----------------------------------------------------------------------------
(* The service of AWS *)

After(t) == {k \in objects : k > t}

\* A page holds the first of the objects after the token, perhaps fewer than
\* it might, and the token n says where to go on if there are more.
Listings(t) ==
  {p \in SUBSET After(t) :
     /\ p = {} <=> After(t) = {}
     /\ Cardinality(p) <= PageSize
     /\ \A k \in p, l \in After(t) \ p : k < l}

IsToken(n, t, p) ==
  IF p = After(t) THEN n = None ELSE n \in p /\ \A k \in p : k <= n

-----------------------------------------------------------------------------
(* deleteFolder *)

DeleteFolder ==
  /\ step = "idle"
  /\ step' = "list"
  /\ token' = None
  /\ page' = {}
  /\ next' = None
  /\ old' = objects
  /\ UNCHANGED objects

\* Mutants of Continue: the first page is taken for all, and the token is
\* not handed to the next listing.
OnePage(n) ==
  /\ step' = "done"
  /\ token' = n

TokenForgotten(n) ==
  /\ step' = IF n = None THEN "done" ELSE "list"
  /\ UNCHANGED token

\* The condition of the loop.
Continue(n) ==
  /\ step' = IF n = None THEN "done" ELSE "list"
  /\ token' = n

\* ListObjectsV2: an empty page needs no delete.
List ==
  /\ step = "list"
  /\ \E p \in Listings(token), n \in None..MaxKey :
       /\ IsToken(n, token, p)
       /\ page' = p
       /\ next' = n
       /\ IF p = {} THEN Continue(n) ELSE step' = "delete" /\ UNCHANGED token
  /\ UNCHANGED <<objects, old>>

\* DeleteObjects removes the page; an object that is gone is no error.
DeletePage ==
  /\ step = "delete"
  /\ objects' = objects \ page
  /\ old' = old \ page
  /\ page' = {}
  /\ Continue(next)
  /\ UNCHANGED next

\* Some objects are reported as errors, or the request fails: deleteFolder
\* throws, with part of the page deleted.
DeleteFails ==
  /\ step = "delete"
  /\ \E left \in SUBSET (page \cap objects) :
       /\ objects' = objects \ (page \ left)
       /\ old' = old \ (page \ left)
  /\ step' = "failed"
  /\ page' = {}
  /\ UNCHANGED <<token, next>>

ListFails ==
  /\ step = "list"
  /\ step' = "failed"
  /\ UNCHANGED <<objects, token, next, page, old>>

\* The caller has its answer, and may call again.
Return ==
  /\ step \in {"done", "failed"}
  /\ step' = "idle"
  /\ token' = None
  /\ next' = None
  /\ page' = {}
  /\ old' = {}
  /\ UNCHANGED objects

-----------------------------------------------------------------------------
(* Everybody else *)

\* An object is written, new or over an old one.
Upload(k) ==
  /\ objects' = objects \cup {k}
  /\ old' = old \ {k}
  /\ UNCHANGED <<step, token, next, page>>

DeleteFile(k) ==
  /\ objects' = objects \ {k}
  /\ old' = old \ {k}
  /\ UNCHANGED <<step, token, next, page>>

DeleteStep == List \/ ListFails \/ DeletePage \/ DeleteFails

Next ==
  \/ DeleteFolder \/ DeleteStep \/ Return
  \/ \E k \in Keys : Upload(k) \/ DeleteFile(k)

Spec == Init /\ [][Next]_vars

\* The SDK answers each command, or gives up.
FairSpec == Spec /\ WF_vars(DeleteStep)

-----------------------------------------------------------------------------
(* Properties *)

\* Where the listing has got to: what is there since the call began and is
\* yet to be listed, or to be deleted.
Ahead ==
  CASE step = "list"   -> After(token)
    [] step = "delete" -> page \cup (IF next = None THEN {} ELSE After(next))
    [] step = "done"   -> {}
    [] OTHER           -> objects

\* Nothing is passed over: objects that were there when the call began, and
\* were not written since, are ahead of it or gone, although the pages are
\* deleted under the listing and others add and remove objects.  When the call
\* returns they are all gone.
NothingIsPassedOver == old \subseteq Ahead

\* The call returns or throws, even if others upload as fast as it deletes.
DeleteFolderEnds == step \in {"list", "delete"} ~> step \in {"done", "failed"}
=============================================================================
