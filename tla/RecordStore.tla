----------------------------- MODULE RecordStore -----------------------------
(***************************************************************************)
(* What dynamic updates promise: records are added and removed atomically,  *)
(* as the operator Updated says; REPLACE-ALL alone takes two steps, first   *)
(* the set is emptied, then it holds the new data; and if the server ends   *)
(* in between, the set stays empty.                                         *)
(***************************************************************************)
EXTENDS NameServer

CONSTANT RecordData          \* the data records may have

VARIABLES
  db,              \* the records of each set
  replacing        \* pairs of a set being replaced and its new data

StoreInit == db \in Database /\ replacing = {}

AddOrRemove(key, action, data) ==
  /\ db' = [db EXCEPT ![key] = Updated(@, action, data)]
  /\ UNCHANGED replacing

BeginReplace(key, data) ==
  /\ db' = [db EXCEPT ![key] = << >>]
  /\ replacing' = replacing \cup {<<key, data>>}

EndReplace(key, data) ==
  /\ <<key, data>> \in replacing
  /\ db[key] = << >>
  /\ db' = [db EXCEPT ![key] = Updated(@, "REPLACE-ALL", data)]
  /\ replacing' = replacing \ {<<key, data>>}

AbandonReplace(key, data) ==
  /\ <<key, data>> \in replacing
  /\ replacing' = replacing \ {<<key, data>>}
  /\ UNCHANGED db

StoreNext ==
  \E key \in RRSetKey, data \in RecordData :
    \/ \E action \in {"ADD", "REMOVE"} : AddOrRemove(key, action, data)
    \/ BeginReplace(key, data)
    \/ EndReplace(key, data)
    \/ AbandonReplace(key, data)

StoreSpec == StoreInit /\ [][StoreNext]_<<db, replacing>>

=============================================================================
