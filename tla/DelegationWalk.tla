--------------------------- MODULE DelegationWalk ---------------------------
(***************************************************************************)
(* What iterative resolution promises over a database that does not change: *)
(* a question goes down from the root, at each step to the next zone its    *)
(* name is delegated to, and is answered by the last one with the records   *)
(* it has or a Nack; a question for NS is answered by the delegation of the *)
(* whole name.  How the resolver finds the next zone, label by label, and   *)
(* how it gets at a forwarding hint for it, is left open; so is why it      *)
(* gives a question up.                                                     *)
(***************************************************************************)
EXTENDS NameServer

CONSTANTS
  Stub,            \* those who ask
  Question         \* what they ask

VARIABLES
  db,              \* the database
  status,          \* per stub: "idle", "open", "answered" or "silent"
  question,        \* per stub: its question
  zone,            \* per stub: the labels of the zone the question has come to
  response         \* per stub: the Response it got

walkVars == <<db, status, question, zone, response>>

WalkInit ==
  /\ db \in Database
  /\ status = [s \in Stub |-> "idle"]
  /\ question = [s \in Stub |-> DefaultQuery]
  /\ zone = [s \in Stub |-> 0]
  /\ response = [s \in Stub |-> InitialResponse]

-----------------------------------------------------------------------------
\* The zone of the first i components delegates those up to the j-th.
Delegation(name, i, j) == Lookup(db, GetPrefix(name, i), GetSubName(name, i, j - i), "NS")

IsNextZone(name, i, j) ==
  /\ j \in (i + 1) .. Len(name)
  /\ Delegation(name, i, j) # << >>
  /\ \A k \in (i + 1) .. (j - 1) : Delegation(name, i, k) = << >>

IsAuthority(name, i) == \A j \in (i + 1) .. Len(name) : Delegation(name, i, j) = << >>

Ask(s, q) ==
  /\ status[s] # "open"
  /\ status' = [status EXCEPT ![s] = "open"]
  /\ question' = [question EXCEPT ![s] = q]
  /\ zone' = [zone EXCEPT ![s] = 0]
  /\ response' = [response EXCEPT ![s] = InitialResponse]
  /\ UNCHANGED db

Descend(s) ==
  /\ status[s] = "open"
  /\ \E j \in 1 .. Len(question[s].rrLabel) :
       /\ IsNextZone(question[s].rrLabel, zone[s], j)
       /\ zone' = [zone EXCEPT ![s] = j]
  /\ UNCHANGED <<db, status, question, response>>

Reply(s, rrs) ==
  /\ status[s] = "open"
  /\ status' = [status EXCEPT ![s] = "answered"]
  /\ response' = [response EXCEPT ![s] =
       [rrs |-> rrs, type |-> IF rrs = << >> THEN "NDNS-Nack" ELSE "NDNS-Resp"]]
  /\ UNCHANGED <<db, question>>

\* The NS records of the name itself, which its parent has.
ReplyDelegation(s) ==
  LET name == question[s].rrLabel IN
  /\ question[s].rrType = "NS"
  /\ IsNextZone(name, zone[s], Len(name))
  /\ zone' = [zone EXCEPT ![s] = Len(name)]
  /\ Reply(s, Delegation(name, zone[s], Len(name)))

\* A name that is delegated no further; if it is no zone it has no NS records.
ReplyRecords(s) ==
  LET name == question[s].rrLabel IN
  /\ IsAuthority(name, zone[s])
  /\ question[s].rrType = "NS" => zone[s] # Len(name)
  /\ Reply(s, IF question[s].rrType = "NS" THEN << >>
              ELSE Lookup(db, GetPrefix(name, zone[s]), GetSuffix(name, zone[s]),
                          question[s].rrType))
  /\ UNCHANGED zone

GiveUp(S) ==
  /\ \A s \in S : status[s] = "open"
  /\ status' = [s \in Stub |-> IF s \in S THEN "silent" ELSE status[s]]
  /\ UNCHANGED <<db, question, zone, response>>

WalkNext ==
  \/ \E s \in Stub :
       \/ \E q \in Question : Ask(s, q)
       \/ Descend(s)
       \/ ReplyDelegation(s)
       \/ ReplyRecords(s)
  \/ \E S \in SUBSET Stub : GiveUp(S)

WalkSpec == WalkInit /\ [][WalkNext]_walkVars

=============================================================================
