------------------------------ MODULE MCUpdate ------------------------------
(***************************************************************************)
(* Instances of UpdateSession for TLC: one set of a zone with two data, like *)
(* the updates of /shock in run.sh, and an update of another set.           *)
(***************************************************************************)
EXTENDS UpdateSession

MCComponent == {"shock", "alex", "ucla", "att"}

Shock == [zone |-> << >>, label |-> <<"shock">>, type |-> "FH"]
Alex == [zone |-> << >>, label |-> <<"alex">>, type |-> "FH"]
MCKeys == {Shock, Alex}

Ucla == <<"ucla">>
Att == <<"att">>

Request(key, action, data) == [key |-> key, action |-> action, data |-> data]
MCRequests ==
  {Request(Shock, "ADD", Ucla), Request(Shock, "REMOVE", Ucla),
   Request(Shock, "REPLACE-ALL", Ucla), Request(Alex, "ADD", Ucla)}

MCRecords == {[k \in MCKeys |-> << >>], [k \in MCKeys |-> <<Att>>],
              [k \in MCKeys |-> <<Ucla, Att>>]}

=============================================================================
