---------------------------- MODULE UpdateSession ----------------------------
(***************************************************************************)
(* Runs of the tool update against the name servers, over a network that    *)
(* delays and loses Interests and caches Data.  A server executes an        *)
(* Interest each time it gets it: it keeps no record of those it has seen.  *)
(* An update is one step here; SharedDatabase justifies that.               *)
(***************************************************************************)
EXTENDS DynamicDNSUpdate

CONSTANTS
  InitialRecords,     \* the databases to begin with
  ServerMayEnd        \* the server may end in the middle of an update

ASSUME SessionAssumption ==
  /\ InitialRecords \subseteq Database
  /\ ServerMayEnd \in BOOLEAN

VARIABLES
  db,                 \* the records
  published,          \* the answers put so far: what caches may hold
  history             \* per client, of its latest run: what its set held when
                      \* it began, whether the server has executed it since,
                      \* and whether another run's update met the same set

vars == <<clientVars, db, published, history>>

Init ==
  /\ ClientInit
  /\ db \in InitialRecords
  /\ published = {}
  /\ history = [c \in Client |-> [before |-> << >>, executed |-> FALSE,
                                  disturbed |-> FALSE]]

Run(c, update) ==
  /\ StartRun(c, update)
  /\ history' = [history EXCEPT ![c] = [before |-> db[update.key],
                                        executed |-> FALSE,
                                        disturbed |-> FALSE]]
  /\ UNCHANGED <<db, published>>

Timeout(c) == OnTimeout(c) /\ UNCHANGED <<db, published, history>>

\* The Data comes from the server or from any cache on the way.
ReceiveData(c) ==
  /\ \E data \in published : OnData(c, data)
  /\ UNCHANGED <<db, published, history>>

\* What the execution of an update, whole or in part, does to the histories.
Record(i, whole) ==
  history' = [c \in Client |->
    IF interest[c] = i
    THEN [history[c] EXCEPT !.executed = @ \/ whole]
    ELSE IF interest[c].update.key = i.update.key
    THEN [history[c] EXCEPT !.disturbed = TRUE]
    ELSE history[c]]

SetTo(key, records) == db' = [db EXCEPT ![key] = records]

\* onInterest, update branch: update() and the Data with DyNDNS-OK.  Nothing
\* tells the server that it has executed the update before.
ServerOnInterest(copy) ==
  LET i == copy.interest
      u == i.update IN
  /\ network' = network \ {copy}
  /\ SetTo(u.key, Updated(db[u.key], u.action, u.data))
  /\ published' = published \cup {[interest |-> i, type |-> "DyNDNS-OK"]}
  /\ Record(i, TRUE)
  /\ UNCHANGED <<outcome, interest, interestTriedNum, runs>>

\* The server ends before the Data is put: with the update done, or between
\* the two statements of REPLACE-ALL.
ServerEnds(copy) ==
  LET i == copy.interest
      u == i.update IN
  /\ ServerMayEnd
  /\ network' = network \ {copy}
  /\ \/ /\ SetTo(u.key, Updated(db[u.key], u.action, u.data))
        /\ Record(i, TRUE)
     \/ /\ u.action = "REPLACE-ALL"
        /\ SetTo(u.key, << >>)
        /\ Record(i, FALSE)
  /\ UNCHANGED <<outcome, interest, interestTriedNum, runs, published>>

Next ==
  \/ \E c \in Client :
       \/ \E u \in UpdateRequest : Run(c, u)
       \/ Timeout(c)
       \/ ReceiveData(c)
  \/ \E copy \in network : ServerOnInterest(copy) \/ ServerEnds(copy)

Spec == Init /\ [][Next]_vars

\* ndn-cxx's timer fires for an Interest that gets no Data.  Nothing is assumed
\* of the network, the caches and the servers.
FairSpec == Spec /\ \A c \in Client : WF_vars(Timeout(c))

-----------------------------------------------------------------------------
\* Every variable stays in its type.
TypeOK ==
  /\ outcome \in [Client -> Outcome]
  /\ interest \in [Client -> UpdateInterest]
  /\ interestTriedNum \in [Client -> 0 .. InterestTriedMax]
  /\ runs \in 0 .. MaxRuns
  /\ network \subseteq [interest : UpdateInterest, try : Nat]
  /\ db \in Database
  /\ published \subseteq UpdateData
  /\ history \in [Client -> [before : Seq(Name), executed : BOOLEAN,
                             disturbed : BOOLEAN]]

(***************************************************************************)
(* A run that prints "Update successfully" had its update executed after it *)
(* was started: caches full of answers to equal updates do not matter.      *)
(***************************************************************************)
SuccessMeansExecuted ==
  \A c \in Client : outcome[c] = "updated" => history[c].executed

(***************************************************************************)
(* However often an update is sent and executed, late copies included, a    *)
(* successful run leaves what executing it once would have, if no other run *)
(* updates the set; save that a server which ends in the middle of          *)
(* REPLACE-ALL leaves the set empty.                                        *)
(***************************************************************************)
RetryIsHarmless ==
  \A c \in Client :
    LET u == interest[c].update IN
    outcome[c] = "updated" /\ ~history[c].disturbed =>
      \/ db[u.key] = Updated(history[c].before, u.action, u.data)
      \/ ServerMayEnd /\ u.action = "REPLACE-ALL" /\ db[u.key] = << >>

\* Every run ends, also when no server answers.
RunEnds == \A c \in Client : outcome[c] = "pending" ~> outcome[c] # "pending"

=============================================================================
