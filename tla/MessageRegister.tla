-------------------------- MODULE MessageRegister ---------------------------
(***************************************************************************)
(* What the write path promises, without queue, workers, retries or        *)
(* crashes: a message is a register that is absent or has a version (the   *)
(* enqueue time of the write it shows).  Only requests the API accepted    *)
(* move it: a create fills an absent register, an update replaces the      *)
(* version by one that is not older, a delete empties it.  Accepted        *)
(* requests may take effect late, in any order, several times or never.    *)
(***************************************************************************)
EXTENDS Naturals

CONSTANTS Ids, Absent

VARIABLES accepted,  \* the requests accepted so far
          version    \* the version of each message

vars == <<accepted, version>>

Requests == [name : {"create", "update", "delete"}, id : Ids, timestamp : Nat]

Init ==
  /\ accepted = {}
  /\ version = [id \in Ids |-> Absent]

Accept ==
  /\ \E r \in accepted' : r \in Requests /\ accepted' = accepted \cup {r}
  /\ UNCHANGED version

Create(r) ==
  /\ r.name = "create"
  /\ version[r.id] = Absent
  /\ version' = [version EXCEPT ![r.id] = r.timestamp]

Update(r) ==
  /\ r.name = "update"
  /\ version[r.id] # Absent
  /\ version[r.id] <= r.timestamp
  /\ version' = [version EXCEPT ![r.id] = r.timestamp]

Delete(r) ==
  /\ r.name = "delete"
  /\ version' = [version EXCEPT ![r.id] = Absent]

TakeEffect ==
  /\ \E r \in accepted : Create(r) \/ Update(r) \/ Delete(r)
  /\ UNCHANGED accepted

Next == Accept \/ TakeEffect

Spec == Init /\ [][Next]_vars
=============================================================================
