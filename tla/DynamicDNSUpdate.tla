-------------------------- MODULE DynamicDNSUpdate --------------------------
(***************************************************************************)
(* class DynamicDNSUpdate as the tool update runs it: a run sends one       *)
(* update in the name of an Interest, again after each timeout, until Data  *)
(* comes back or the tries are used up.  Several runs go on side by side,   *)
(* and each client may run the tool again.                                  *)
(***************************************************************************)
EXTENDS NameServer, FiniteSets

CONSTANTS
  Client,             \* who runs the tool
  UpdateRequest,      \* the updates they ask for
  InterestTriedMax,   \* m_interestTriedMax
  SendMayFail,        \* expressInterest may throw
  MaxRuns             \* bound of the model on the number of runs

\* The tool refuses the other actions before anything is sent.
ToolAction == {"ADD", "REMOVE", "REPLACE-ALL"}

ASSUME UpdateAssumption ==
  /\ UpdateRequest \subseteq [key : RRSetKey, action : ToolAction, data : Name]
  /\ UpdateRequest # {}
  /\ InterestTriedMax \in Nat \ {0}
  /\ SendMayFail \in BOOLEAN
  /\ MaxRuns \in Nat

(***************************************************************************)
(* The name of an update Interest: zone and update, of which the server     *)
(* reads key, action and data back, and the version appended to it.         *)
(***************************************************************************)
UpdateInterest == [update : UpdateRequest, version : Nat]

\* What ResponseUpdate puts into Data and reads back: name and response type.
UpdateData == [interest : UpdateInterest, type : {"DyNDNS-OK", "DyNDNS-Fail"}]

VARIABLES
  outcome,            \* per client: how its run ended, if it has
  interest,           \* per client: the Interest of its run
  interestTriedNum,   \* per client: m_interestTriedNum
  runs,               \* the number of runs so far; the clock of the versions
  network             \* the Interests on their way to the server, by try

clientVars == <<outcome, interest, interestTriedNum, runs, network>>

\* What main returns: 1, -2 and -1; "pending" while the event loop runs.
Outcome == {"none", "pending", "updated", "refused", "error"}

SomeUpdate == CHOOSE u \in UpdateRequest : TRUE

ClientInit ==
  /\ outcome = [c \in Client |-> "none"]
  /\ interest = [c \in Client |-> [update |-> SomeUpdate, version |-> 0]]
  /\ interestTriedNum = [c \in Client |-> 0]
  /\ runs = 0
  /\ network = {}

\* Mutant: no appendVersion.
ToInterestUnversioned(update, time) == [update |-> update, version |-> 1]

\* toInterest: appendVersion takes the time, which differs between any two runs.
ToInterest(update, time) == [update |-> update, version |-> time]

\* Mutant: m_interestTriedNum is not incremented.
SendUncounted(c, i, tried) ==
  /\ \/ /\ outcome' = [outcome EXCEPT ![c] = "pending"]
        /\ network' = network \cup {[interest |-> i, try |-> tried]}
     \/ /\ SendMayFail
        /\ outcome' = [outcome EXCEPT ![c] = "error"]
        /\ UNCHANGED network
  /\ interest' = [interest EXCEPT ![c] = i]
  /\ interestTriedNum' = [interestTriedNum EXCEPT ![c] = tried]

\* send(interest).  When expressInterest throws, no callback is pending: the
\* event loop has nothing to do and run() ends with m_hasError.
Send(c, i, tried) ==
  /\ \/ /\ outcome' = [outcome EXCEPT ![c] = "pending"]
        /\ network' = network \cup {[interest |-> i, try |-> tried]}
     \/ /\ SendMayFail
        /\ outcome' = [outcome EXCEPT ![c] = "error"]
        /\ UNCHANGED network
  /\ interest' = [interest EXCEPT ![c] = i]
  /\ interestTriedNum' = [interestTriedNum EXCEPT ![c] = tried + 1]

\* run(): a new process, its first Interest.
StartRun(c, update) ==
  /\ outcome[c] # "pending"
  /\ runs < MaxRuns
  /\ runs' = runs + 1
  /\ Send(c, ToInterest(update, runs + 1), 0)

\* Mutant: > in place of >=.
OnTimeoutOneMore(c) ==
  /\ outcome[c] = "pending"
  /\ \/ /\ interestTriedNum[c] > InterestTriedMax
        /\ outcome' = [outcome EXCEPT ![c] = "error"]
        /\ UNCHANGED <<interest, interestTriedNum, network>>
     \/ /\ interestTriedNum[c] <= InterestTriedMax
        /\ Send(c, interest[c], interestTriedNum[c])
  /\ UNCHANGED runs

\* onTimeout: the last one ends the run, another sends the same Interest again.
OnTimeout(c) ==
  /\ outcome[c] = "pending"
  /\ \/ /\ interestTriedNum[c] >= InterestTriedMax
        /\ outcome' = [outcome EXCEPT ![c] = "error"]
        /\ UNCHANGED <<interest, interestTriedNum, network>>
     \/ /\ interestTriedNum[c] < InterestTriedMax
        /\ Send(c, interest[c], interestTriedNum[c])
  /\ UNCHANGED runs

\* onData: stop() ends the event loop, and main looks at the response type.
OnData(c, data) ==
  /\ outcome[c] = "pending"
  /\ data.interest = interest[c]
  /\ outcome' = [outcome EXCEPT
                   ![c] = IF data.type = "DyNDNS-OK" THEN "updated" ELSE "refused"]
  /\ UNCHANGED <<interest, interestTriedNum, runs, network>>

=============================================================================
