------------------------ MODULE UpdateSession_proofs ------------------------
(***************************************************************************)
(* Proofs about runs of the tool update, for every number of clients, tries *)
(* and runs, every database and every choice of updates.                    *)
(***************************************************************************)
EXTENDS UpdateSession, NameServer_proofs

(***************************************************************************)
(* The invariant.  An answer to the Interest of a client's latest run is    *)
(* there only if the run was executed, and no Interest is newer than the    *)
(* latest run, so that the next one asks under a name without any answer.   *)
(***************************************************************************)
AnswersAreExecuted ==
  \A data \in published : \A c \in Client :
    data.interest = interest[c] => history[c].executed

VersionsArePast ==
  /\ \A c \in Client : interest[c].version <= runs
  /\ \A copy \in network : copy.interest.version <= runs
  /\ \A data \in published : data.interest.version <= runs

IInv == TypeOK /\ AnswersAreExecuted /\ VersionsArePast /\ SuccessMeansExecuted

-----------------------------------------------------------------------------
(***************************************************************************)
(* The types of the operators.                                              *)
(***************************************************************************)
LEMMA UpdateType ==
  ASSUME NEW u \in UpdateRequest
  PROVE  u.key \in RRSetKey /\ u.data \in Name
<1>1. u \in [key : RRSetKey, action : ToolAction, data : Name]
  BY UpdateAssumption
<1>2. QED
  BY <1>1

\* A database with the set of an update emptied or updated is a database.
LEMMA UpdatedDatabase ==
  ASSUME NEW d \in Database, NEW u \in UpdateRequest
  PROVE  /\ [d EXCEPT ![u.key] = Updated(d[u.key], u.action, u.data)] \in Database
         /\ [d EXCEPT ![u.key] = << >>] \in Database
<1>1. u.key \in RRSetKey /\ u.data \in Name
  BY UpdateType
<1>2. d[u.key] \in Seq(Name)
  BY <1>1 DEF Database
<1>3. Updated(d[u.key], u.action, u.data) \in Seq(Name)
  BY <1>1, <1>2, UpdatedType
<1>4. << >> \in Seq(Name)
  OBVIOUS
<1>5. QED
  BY <1>3, <1>4 DEF Database

\* What send() does to the client and the network.
LEMMA SendEffect ==
  ASSUME TypeOK, NEW c \in Client, NEW i \in UpdateInterest,
         NEW tried \in Nat, tried < InterestTriedMax, Send(c, i, tried)
  PROVE  /\ outcome' \in [Client -> Outcome]
         /\ outcome'[c] # "updated"
         /\ \A d \in Client \ {c} : outcome'[d] = outcome[d]
         /\ interest' = [interest EXCEPT ![c] = i]
         /\ interest' \in [Client -> UpdateInterest]
         /\ interestTriedNum' \in [Client -> 0 .. InterestTriedMax]
         /\ network' \subseteq [interest : UpdateInterest, try : Nat]
         /\ \A copy \in network' : copy \in network \/ copy.interest = i
<1>1. InterestTriedMax \in Nat
  BY UpdateAssumption
<1>2. tried + 1 \in 0 .. InterestTriedMax
  BY <1>1
<1>3. /\ interest' = [interest EXCEPT ![c] = i]
      /\ interest' \in [Client -> UpdateInterest]
      /\ interestTriedNum' \in [Client -> 0 .. InterestTriedMax]
  BY <1>2 DEF Send, TypeOK
<1>4. /\ outcome' \in [Client -> Outcome]
      /\ outcome'[c] # "updated"
      /\ \A d \in Client \ {c} : outcome'[d] = outcome[d]
  BY DEF Send, TypeOK, Outcome
<1>5. network' \subseteq network \cup {[interest |-> i, try |-> tried]}
  BY DEF Send
<1>6. /\ network' \subseteq [interest : UpdateInterest, try : Nat]
      /\ \A copy \in network' : copy \in network \/ copy.interest = i
  BY <1>5 DEF TypeOK
<1>7. QED
  BY <1>3, <1>4, <1>6

-----------------------------------------------------------------------------
(***************************************************************************)
(* The invariant is inductive.                                              *)
(***************************************************************************)
\* The initial states satisfy the invariant.
THEOREM InitInv == Init => IInv
<1> SUFFICES ASSUME Init
             PROVE  IInv
  OBVIOUS
<1>1. SomeUpdate \in UpdateRequest
  BY UpdateAssumption DEF SomeUpdate
<1>2. InterestTriedMax \in Nat /\ MaxRuns \in Nat
  BY UpdateAssumption
<1>3. TypeOK
  <2>1. interest \in [Client -> UpdateInterest]
    BY <1>1 DEF Init, ClientInit, UpdateInterest
  <2>2. db \in Database
    BY SessionAssumption DEF Init
  <2>3. history \in [Client -> [before : Seq(Name), executed : BOOLEAN,
                                disturbed : BOOLEAN]]
    <3>1. << >> \in Seq(Name)
      OBVIOUS
    <3>2. QED
      BY <3>1 DEF Init
  <2>4. QED
    BY <1>2, <2>1, <2>2, <2>3 DEF TypeOK, Init, ClientInit, Outcome
<1>4. AnswersAreExecuted /\ VersionsArePast /\ SuccessMeansExecuted
  BY DEF Init, ClientInit, AnswersAreExecuted, VersionsArePast, SuccessMeansExecuted
<1>5. QED
  BY <1>3, <1>4 DEF IInv

\* A new run asks under a name that nobody has answered.
LEMMA RunInv ==
  ASSUME IInv, NEW c \in Client, NEW u \in UpdateRequest, Run(c, u)
  PROVE  IInv'
<1> DEFINE i == ToInterest(u, runs + 1)
<1>1. TypeOK /\ AnswersAreExecuted /\ VersionsArePast /\ SuccessMeansExecuted
  BY DEF IInv
<1>2. /\ runs \in Nat /\ runs < MaxRuns
      /\ runs' = runs + 1
      /\ MaxRuns \in Nat
  BY <1>1, UpdateAssumption DEF TypeOK, Run, StartRun
<1>3. i \in UpdateInterest /\ i.version = runs + 1
  BY <1>2 DEF ToInterest, UpdateInterest
<1> HIDE DEF i
<1>4. Send(c, i, 0)
  BY DEF Run, StartRun, i
<1>5. 0 \in Nat /\ 0 < InterestTriedMax
  BY UpdateAssumption
<1>6. /\ outcome' \in [Client -> Outcome]
      /\ outcome'[c] # "updated"
      /\ \A d \in Client \ {c} : outcome'[d] = outcome[d]
      /\ interest' = [interest EXCEPT ![c] = i]
      /\ interest' \in [Client -> UpdateInterest]
      /\ interestTriedNum' \in [Client -> 0 .. InterestTriedMax]
      /\ network' \subseteq [interest : UpdateInterest, try : Nat]
      /\ \A copy \in network' : copy \in network \/ copy.interest = i
  BY <1>1, <1>3, <1>4, <1>5, SendEffect
<1>7. /\ UNCHANGED <<db, published>>
      /\ history' = [history EXCEPT ![c] = [before |-> db[u.key],
                                            executed |-> FALSE,
                                            disturbed |-> FALSE]]
  BY DEF Run
<1>8. TypeOK'
  <2>1. db[u.key] \in Seq(Name)
    BY <1>1, UpdateType DEF TypeOK, Database
  <2>2. history' \in [Client -> [before : Seq(Name), executed : BOOLEAN,
                                 disturbed : BOOLEAN]]
    BY <1>1, <1>7, <2>1 DEF TypeOK
  <2>3. runs' \in 0 .. MaxRuns
    BY <1>2
  <2>4. QED
    BY <1>1, <1>6, <1>7, <2>2, <2>3 DEF TypeOK
<1>9. \A data \in published : data.interest # i
  BY <1>1, <1>2, <1>3 DEF VersionsArePast, TypeOK, UpdateData, UpdateInterest
<1>10. \A d \in Client \ {c} : interest'[d] = interest[d] /\ history'[d] = history[d]
  BY <1>1, <1>6, <1>7 DEF TypeOK
<1>11. AnswersAreExecuted'
  BY <1>1, <1>6, <1>7, <1>9, <1>10 DEF AnswersAreExecuted, TypeOK
<1>12. VersionsArePast'
  <2>0. \A d \in Client : interest'[d].version <= runs'
    <3>1. \A d \in Client : interest[d].version \in Nat
      BY <1>1 DEF TypeOK, UpdateInterest
    <3>2. interest'[c] = i
      BY <1>1, <1>6 DEF TypeOK
    <3>3. QED
      BY <1>1, <1>2, <1>3, <1>10, <3>1, <3>2 DEF VersionsArePast
  <2>1. \A copy \in network' : copy.interest.version <= runs'
    <3>1. \A copy \in network : copy.interest.version \in Nat
      BY <1>1 DEF TypeOK, UpdateInterest
    <3>2. QED
      BY <1>1, <1>2, <1>3, <1>6, <3>1 DEF VersionsArePast
  <2>2. \A data \in published' : data.interest.version <= runs'
    <3>1. \A data \in published : data.interest.version \in Nat
      BY <1>1 DEF TypeOK, UpdateData, UpdateInterest
    <3>2. QED
      BY <1>1, <1>2, <1>7, <3>1 DEF VersionsArePast
  <2>3. QED
    BY <2>0, <2>1, <2>2 DEF VersionsArePast
<1>13. SuccessMeansExecuted'
  BY <1>1, <1>6, <1>10 DEF SuccessMeansExecuted
<1>14. QED
  BY <1>8, <1>11, <1>12, <1>13 DEF IInv

\* A retry sends an Interest whose version is past.
LEMMA TimeoutInv ==
  ASSUME IInv, NEW c \in Client, Timeout(c)
  PROVE  IInv'
<1>1. TypeOK /\ AnswersAreExecuted /\ VersionsArePast /\ SuccessMeansExecuted
  BY DEF IInv
<1>2. UNCHANGED <<runs, db, published, history>>
  BY DEF Timeout, OnTimeout
<1>3. CASE /\ outcome' = [outcome EXCEPT ![c] = "error"]
           /\ UNCHANGED <<interest, interestTriedNum, network>>
  <2>1. TypeOK'
    BY <1>1, <1>2, <1>3 DEF TypeOK, Outcome
  <2>2. AnswersAreExecuted' /\ VersionsArePast'
    BY <1>1, <1>2, <1>3 DEF AnswersAreExecuted, VersionsArePast
  <2>3. SuccessMeansExecuted'
    BY <1>1, <1>2, <1>3 DEF SuccessMeansExecuted, TypeOK
  <2>4. QED
    BY <2>1, <2>2, <2>3 DEF IInv
<1>4. CASE /\ interestTriedNum[c] < InterestTriedMax
           /\ Send(c, interest[c], interestTriedNum[c])
  <2>0. interest[c] \in UpdateInterest /\ interestTriedNum[c] \in Nat
    BY <1>1, UpdateAssumption DEF TypeOK
  <2>1. /\ outcome' \in [Client -> Outcome]
        /\ outcome'[c] # "updated"
        /\ \A d \in Client \ {c} : outcome'[d] = outcome[d]
        /\ interest' = [interest EXCEPT ![c] = interest[c]]
        /\ interest' \in [Client -> UpdateInterest]
        /\ interestTriedNum' \in [Client -> 0 .. InterestTriedMax]
        /\ network' \subseteq [interest : UpdateInterest, try : Nat]
        /\ \A copy \in network' : copy \in network \/ copy.interest = interest[c]
    BY <1>1, <1>4, <2>0, SendEffect
  <2>2. interest' = interest
    BY <1>1, <2>1 DEF TypeOK
  <2>3. TypeOK'
    BY <1>1, <1>2, <2>1 DEF TypeOK
  <2>4. AnswersAreExecuted'
    BY <1>1, <1>2, <2>2 DEF AnswersAreExecuted
  <2>5. SuccessMeansExecuted'
    BY <1>1, <1>2, <2>1 DEF SuccessMeansExecuted
  <2>6. VersionsArePast'
    BY <1>1, <1>2, <2>1, <2>2 DEF VersionsArePast
  <2>7. QED
    BY <2>3, <2>4, <2>5, <2>6 DEF IInv
<1>5. QED
  BY <1>3, <1>4 DEF Timeout, OnTimeout

\* Data for the Interest of a run says that the run was executed.
LEMMA ReceiveDataInv ==
  ASSUME IInv, NEW c \in Client, ReceiveData(c)
  PROVE  IInv'
<1>1. TypeOK /\ AnswersAreExecuted /\ VersionsArePast /\ SuccessMeansExecuted
  BY DEF IInv
<1>2. PICK data \in published : OnData(c, data)
  BY DEF ReceiveData
<1>3. UNCHANGED <<interest, interestTriedNum, runs, network, db, published, history>>
  BY <1>2 DEF ReceiveData, OnData
<1>4. TypeOK'
  BY <1>1, <1>2, <1>3 DEF TypeOK, OnData, Outcome
<1>5. AnswersAreExecuted' /\ VersionsArePast'
  BY <1>1, <1>3 DEF AnswersAreExecuted, VersionsArePast
<1>6. SuccessMeansExecuted'
  <2>1. history[c].executed
    BY <1>1, <1>2 DEF AnswersAreExecuted, OnData
  <2>2. \A d \in Client \ {c} : outcome'[d] = outcome[d]
    BY <1>1, <1>2 DEF OnData, TypeOK
  <2>3. QED
    BY <1>1, <1>3, <2>1, <2>2 DEF SuccessMeansExecuted
<1>7. QED
  BY <1>4, <1>5, <1>6 DEF IInv

\* What Record keeps and sets.
LEMMA RecordEffect ==
  ASSUME TypeOK, NEW i, NEW whole \in BOOLEAN, Record(i, whole)
  PROVE  /\ history' \in [Client -> [before : Seq(Name), executed : BOOLEAN,
                                     disturbed : BOOLEAN]]
         /\ \A c \in Client : history[c].executed => history'[c].executed
         /\ \A c \in Client : interest[c] = i /\ whole => history'[c].executed
<1>1. \A c \in Client : history[c] \in [before : Seq(Name), executed : BOOLEAN,
                                        disturbed : BOOLEAN]
  BY DEF TypeOK
<1>2. \A c \in Client :
        /\ history'[c] \in [before : Seq(Name), executed : BOOLEAN,
                            disturbed : BOOLEAN]
        /\ history[c].executed => history'[c].executed
        /\ interest[c] = i /\ whole => history'[c].executed
  BY <1>1 DEF Record
<1>3. history' = [c \in Client |-> history'[c]]
  BY DEF Record
<1>4. QED
  BY <1>2, <1>3

\* An update that a server executes, whole or in part, with or without answer.
LEMMA ServerInv ==
  ASSUME IInv, NEW copy \in network, ServerOnInterest(copy) \/ ServerEnds(copy)
  PROVE  IInv'
<1> DEFINE i == copy.interest
           u == i.update
           answer == [interest |-> i, type |-> "DyNDNS-OK"]
<1>1. TypeOK /\ AnswersAreExecuted /\ VersionsArePast /\ SuccessMeansExecuted
  BY DEF IInv
<1>2. i \in UpdateInterest /\ u \in UpdateRequest /\ i.version <= runs
  BY <1>1 DEF TypeOK, UpdateInterest, VersionsArePast
<1>3. /\ network' \subseteq network
      /\ UNCHANGED <<outcome, interest, interestTriedNum, runs>>
  BY DEF ServerOnInterest, ServerEnds
<1>4. db' \in Database
  <2>1. /\ [db EXCEPT ![u.key] = Updated(db[u.key], u.action, u.data)] \in Database
        /\ [db EXCEPT ![u.key] = << >>] \in Database
    BY <1>1, <1>2, UpdatedDatabase DEF TypeOK
  <2>2. \/ db' = [db EXCEPT ![u.key] = Updated(db[u.key], u.action, u.data)]
        \/ db' = [db EXCEPT ![u.key] = << >>]
    BY DEF ServerOnInterest, ServerEnds, SetTo
  <2>3. QED
    BY <2>1, <2>2, Zenon
<1>5. \/ published' = published \cup {answer} /\ Record(i, TRUE)
      \/ published' = published /\ \E whole \in BOOLEAN : Record(i, whole)
  BY DEF ServerOnInterest, ServerEnds
<1>6. answer \in UpdateData /\ answer.interest = i
  BY <1>2 DEF UpdateData
<1> HIDE DEF answer, u, i
<1>7. /\ history' \in [Client -> [before : Seq(Name), executed : BOOLEAN,
                                  disturbed : BOOLEAN]]
      /\ \A c \in Client : history[c].executed => history'[c].executed
  BY <1>1, <1>5, RecordEffect
<1>8. \/ published' = published
      \/ /\ published' = published \cup {answer}
         /\ \A c \in Client : interest[c] = i => history'[c].executed
  BY <1>1, <1>5, RecordEffect
<1>9. TypeOK'
  <2>1. published' \subseteq UpdateData
    BY <1>1, <1>6, <1>8 DEF TypeOK
  <2>2. QED
    BY <1>1, <1>3, <1>4, <1>7, <2>1 DEF TypeOK
<1>10. AnswersAreExecuted'
  BY <1>1, <1>3, <1>6, <1>7, <1>8 DEF AnswersAreExecuted
<1>11. VersionsArePast'
  BY <1>1, <1>2, <1>3, <1>6, <1>8 DEF VersionsArePast
<1>12. SuccessMeansExecuted'
  BY <1>1, <1>3, <1>7 DEF SuccessMeansExecuted
<1>13. QED
  BY <1>9, <1>10, <1>11, <1>12 DEF IInv

\* Every step keeps the invariant.
THEOREM StepInv == IInv /\ [Next]_vars => IInv'
<1> SUFFICES ASSUME IInv, [Next]_vars
             PROVE  IInv'
  OBVIOUS
<1>1. ASSUME NEW c \in Client, NEW u \in UpdateRequest, Run(c, u)
      PROVE  IInv'
  BY <1>1, RunInv
<1>2. ASSUME NEW c \in Client, Timeout(c)
      PROVE  IInv'
  BY <1>2, TimeoutInv
<1>3. ASSUME NEW c \in Client, ReceiveData(c)
      PROVE  IInv'
  BY <1>3, ReceiveDataInv
<1>4. ASSUME NEW copy \in network, ServerOnInterest(copy) \/ ServerEnds(copy)
      PROVE  IInv'
  BY <1>4, ServerInv
<1>5. CASE UNCHANGED vars
  BY <1>5 DEF vars, clientVars, IInv, TypeOK, AnswersAreExecuted,
              VersionsArePast, SuccessMeansExecuted
<1>6. QED
  BY <1>1, <1>2, <1>3, <1>4, <1>5 DEF Next

\* The invariant holds in every state.
THEOREM Invariance == Spec => []IInv
  BY InitInv, StepInv, PTL DEF Spec

-----------------------------------------------------------------------------
(***************************************************************************)
(* The results.                                                             *)
(***************************************************************************)
\* Every variable stays in its type; no run sends more Interests than allowed.
THEOREM TypeCorrect == Spec => []TypeOK
<1>1. IInv => TypeOK
  BY DEF IInv
<1>2. QED
  BY <1>1, Invariance, PTL

\* "Update successfully" is printed only for an update that was executed after
\* its run was started, whatever answers to equal updates caches hold.
THEOREM SuccessMeansExecutedHolds == Spec => []SuccessMeansExecuted
<1>1. IInv => SuccessMeansExecuted
  BY DEF IInv
<1>2. QED
  BY <1>1, Invariance, PTL

-----------------------------------------------------------------------------
(***************************************************************************)
(* Retries.  Between its start and the first execution of its update a run  *)
(* finds its set as it was, after that as the update leaves it; which copy  *)
(* is executed, and whether the run has ended, makes no difference.         *)
(***************************************************************************)
\* The tables have no duplicates, as SharedDatabase_proofs shows of them.
DistinctInitially == \A d \in InitialRecords : \A key \in RRSetKey : Distinct(d[key])

DistinctRecords == \A key \in RRSetKey : Distinct(db[key])

LeftAs(records, u, h) ==
  \/ records = IF h.executed THEN Updated(h.before, u.action, u.data) ELSE h.before
  \/ ServerMayEnd /\ u.action = "REPLACE-ALL" /\ records = << >>

Harmless(c) ==
  outcome[c] # "none" /\ ~history[c].disturbed =>
    /\ LeftAs(db[interest[c].update.key], interest[c].update, history[c])
    /\ Distinct(history[c].before)

RetryInv == DistinctRecords /\ \A c \in Client : Harmless(c)

LEMMA InitRetry == DistinctInitially /\ Init => RetryInv
  BY DEF DistinctInitially, Init, ClientInit, RetryInv, DistinctRecords, Harmless

\* A new run has executed nothing and finds what it finds.
LEMMA RunRetry ==
  ASSUME IInv, RetryInv, NEW c \in Client, NEW u \in UpdateRequest, Run(c, u)
  PROVE  RetryInv'
<1> PICK i : i = ToInterest(u, runs + 1)
  OBVIOUS
<1>1. /\ i.update = u
      /\ outcome \in [Client -> Outcome] /\ interest \in [Client -> UpdateInterest]
      /\ history \in [Client -> [before : Seq(Name), executed : BOOLEAN, disturbed : BOOLEAN]]
  BY DEF ToInterest, IInv, TypeOK
<1>2. /\ interest' = [interest EXCEPT ![c] = i]
      /\ \A d \in Client \ {c} : outcome'[d] = outcome[d]
      /\ db' = db
      /\ history' = [history EXCEPT ![c] = [before |-> db[u.key], executed |-> FALSE,
                                            disturbed |-> FALSE]]
  BY <1>1 DEF Run, StartRun, Send
<1>3. ASSUME NEW d \in Client, d # c PROVE Harmless(d)'
  <2>1. /\ interest'[d] = interest[d] /\ history'[d] = history[d]
        /\ outcome'[d] = outcome[d]
    BY <1>1, <1>2, <1>3
  <2>2. QED
    BY <1>2, <2>1 DEF RetryInv, Harmless
<1>4. Harmless(c)'
  <2>1. /\ interest'[c].update = u /\ ~history'[c].executed
        /\ history'[c].before = db'[u.key]
    BY <1>1, <1>2
  <2>2. Distinct(db'[u.key])
    BY <1>2, UpdateType DEF RetryInv, DistinctRecords
  <2>3. QED
    BY <2>1, <2>2 DEF Harmless, LeftAs
<1>5. DistinctRecords'
  BY <1>2 DEF RetryInv, DistinctRecords
<1>6. QED
  BY <1>3, <1>4, <1>5 DEF RetryInv

\* Timers and answers leave the records alone.
LEMMA ClientRetry ==
  ASSUME IInv, RetryInv, NEW c \in Client, Timeout(c) \/ ReceiveData(c)
  PROVE  RetryInv'
<1>1. /\ outcome \in [Client -> Outcome] /\ interest \in [Client -> UpdateInterest]
      /\ outcome[c] = "pending" /\ UNCHANGED <<db, history>>
  BY DEF IInv, TypeOK, Timeout, OnTimeout, ReceiveData, OnData
<1>2. interest' = interest
  BY <1>1 DEF Timeout, OnTimeout, Send, ReceiveData, OnData
<1>3. \A d \in Client : outcome'[d] # "none" => outcome[d] # "none"
  BY <1>1 DEF Timeout, OnTimeout, Send, ReceiveData, OnData
<1>4. QED
  BY <1>1, <1>2, <1>3 DEF RetryInv, DistinctRecords, Harmless

\* A copy that a server executes: for its own run it is the first or one more,
\* any other run of the set is disturbed.
LEMMA ServerRetry ==
  ASSUME IInv, RetryInv, NEW copy \in network, ServerOnInterest(copy) \/ ServerEnds(copy)
  PROVE  RetryInv'
<1> PICK i : i = copy.interest
  OBVIOUS
<1> PICK u : u = i.update
  OBVIOUS
<1>1. /\ i \in UpdateInterest /\ u \in UpdateRequest
      /\ db \in Database
      /\ history \in [Client -> [before : Seq(Name), executed : BOOLEAN, disturbed : BOOLEAN]]
      /\ interest \in [Client -> UpdateInterest]
  BY DEF IInv, TypeOK, UpdateInterest
<1>2. u.key \in RRSetKey /\ u.data \in Name /\ db[u.key] \in Seq(Name)
  BY <1>1, UpdateType DEF Database
<1>3. UNCHANGED <<outcome, interest>>
  BY DEF ServerOnInterest, ServerEnds
<1> PICK once : once = Updated(db[u.key], u.action, u.data)
  OBVIOUS
<1>4. \/ db' = [db EXCEPT ![u.key] = once] /\ Record(i, TRUE)
      \/ /\ ServerMayEnd /\ u.action = "REPLACE-ALL"
         /\ db' = [db EXCEPT ![u.key] = << >>] /\ Record(i, FALSE)
  BY DEF ServerOnInterest, ServerEnds, SetTo
<1>5. PICK new, whole : /\ db' = [db EXCEPT ![u.key] = new] /\ Record(i, whole)
                        /\ \/ whole = TRUE /\ new = once
                           \/ /\ whole = FALSE /\ new = << >>
                              /\ ServerMayEnd /\ u.action = "REPLACE-ALL"
  BY <1>4
<1>6. /\ db'[u.key] = new
      /\ \A key \in RRSetKey \ {u.key} : db'[key] = db[key]
  BY <1>1, <1>2, <1>5 DEF Database
<1>7. Distinct(new) /\ Distinct(db[u.key])
  <2>1. Distinct(db[u.key])
    BY <1>2 DEF RetryInv, DistinctRecords
  <2>2. Distinct(once) /\ Distinct(<< >>)
    BY <1>2, <2>1, UpdatedTwice DEF Distinct
  <2>3. QED
    BY <1>5, <2>1, <2>2
<1>8. DistinctRecords'
  BY <1>6, <1>7 DEF RetryInv, DistinctRecords
<1>9. ASSUME NEW c \in Client PROVE Harmless(c)'
  <2>1. interest[c].update \in UpdateRequest /\ interest[c].update.key \in RRSetKey
    BY <1>1, UpdateType DEF UpdateInterest
  <2>2. history'[c] = IF interest[c] = i
                      THEN [history[c] EXCEPT !.executed = @ \/ whole]
                      ELSE IF interest[c].update.key = u.key
                      THEN [history[c] EXCEPT !.disturbed = TRUE]
                      ELSE history[c]
    BY <1>5 DEF Record
  <2>3. history[c] \in [before : Seq(Name), executed : BOOLEAN, disturbed : BOOLEAN]
    BY <1>1
  <2>4. CASE interest[c] # i /\ interest[c].update.key # u.key
    BY <1>3, <1>6, <2>1, <2>2, <2>4 DEF RetryInv, Harmless
  <2>5. CASE interest[c] # i /\ interest[c].update.key = u.key
    BY <2>2, <2>3, <2>5 DEF Harmless
  <2>6. CASE interest[c] = i
    <3> PICK h : h = history[c]
      OBVIOUS
    <3>1. /\ history'[c].before = h.before /\ history'[c].disturbed = h.disturbed
          /\ history'[c].executed = (h.executed \/ whole)
      BY <2>2, <2>3, <2>6
    <3> SUFFICES ASSUME outcome[c] # "none", ~h.disturbed
                 PROVE  LeftAs(new, u, history'[c]) /\ Distinct(h.before)
      BY <1>3, <1>6, <2>6, <3>1 DEF Harmless
    <3>2. LeftAs(db[u.key], u, h) /\ Distinct(h.before)
      BY <2>6 DEF RetryInv, Harmless
    <3>3. CASE whole = FALSE
      BY <1>5, <3>2, <3>3 DEF LeftAs
    <3>4. CASE whole = TRUE
      <4>1. new = once /\ history'[c].executed
        BY <1>5, <3>1, <3>4
      <4>2. new = Updated(h.before, u.action, u.data)
        <5>1. CASE db[u.key] = h.before
          BY <4>1, <5>1
        <5>2. CASE db[u.key] = Updated(h.before, u.action, u.data)
          BY <1>2, <2>3, <3>2, <4>1, <5>2, UpdatedTwice
        <5>3. CASE u.action = "REPLACE-ALL"
          BY <4>1, <5>3 DEF Updated
        <5>4. QED
          BY <3>2, <5>1, <5>2, <5>3 DEF LeftAs
      <4>3. QED
        BY <3>1, <3>2, <4>1, <4>2 DEF LeftAs
    <3>5. QED
      BY <1>5, <3>3, <3>4
  <2>7. QED
    BY <2>4, <2>5, <2>6
<1>10. QED
  BY <1>8, <1>9 DEF RetryInv

\* Every step keeps it.
LEMMA StepRetry == IInv /\ RetryInv /\ [Next]_vars => RetryInv'
<1> SUFFICES ASSUME IInv, RetryInv, [Next]_vars
             PROVE  RetryInv'
  OBVIOUS
<1>1. ASSUME NEW c \in Client, NEW u \in UpdateRequest, Run(c, u)
      PROVE  RetryInv'
  BY <1>1, RunRetry
<1>2. ASSUME NEW c \in Client, Timeout(c) \/ ReceiveData(c)
      PROVE  RetryInv'
  BY <1>2, ClientRetry
<1>3. ASSUME NEW copy \in network, ServerOnInterest(copy) \/ ServerEnds(copy)
      PROVE  RetryInv'
  BY <1>3, ServerRetry
<1>4. CASE UNCHANGED vars
  BY <1>4 DEF vars, clientVars, RetryInv, DistinctRecords, Harmless
<1>5. QED
  BY <1>1, <1>2, <1>3, <1>4 DEF Next

(***************************************************************************)
(* However often the copies of an update are executed, also after its run   *)
(* has ended, a successful run leaves what one execution would have, if no  *)
(* other run updates the set: no server needs to remember what it has done. *)
(* The exception is a server that ends in the middle of REPLACE-ALL.        *)
(***************************************************************************)
THEOREM RetryIsHarmlessHolds == DistinctInitially /\ Spec => []RetryIsHarmless
<1>1. ASSUME IInv, RetryInv
      PROVE  RetryIsHarmless
  <2> SUFFICES ASSUME NEW c \in Client, outcome[c] = "updated", ~history[c].disturbed
               PROVE  LET u == interest[c].update IN
                      \/ db[u.key] = Updated(history[c].before, u.action, u.data)
                      \/ ServerMayEnd /\ u.action = "REPLACE-ALL" /\ db[u.key] = << >>
    BY DEF RetryIsHarmless
  <2>1. history[c].executed
    BY <1>1 DEF IInv, SuccessMeansExecuted
  <2>2. LeftAs(db[interest[c].update.key], interest[c].update, history[c])
    BY <1>1 DEF RetryInv, Harmless
  <2>3. QED
    BY <2>1, <2>2 DEF LeftAs
<1>2. CASE DistinctInitially
  <2>1. Init => IInv /\ RetryInv
    BY <1>2, InitInv, InitRetry
  <2>2. IInv /\ RetryInv /\ [Next]_vars => (IInv /\ RetryInv)'
    BY StepInv, StepRetry
  <2>3. QED
    BY <1>1, <2>1, <2>2, PTL DEF Spec
<1>3. CASE ~DistinctInitially
  BY <1>3
<1>4. QED
  BY <1>2, <1>3

=============================================================================
