------------------------------ MODULE Records -------------------------------
(***************************************************************************)
(* What script runs promise their readers: a record, once there, is never  *)
(* changed, taken away or given to another run; and a latest link, when it *)
(* can be followed, leads to a record.  For a moment it may not be there.  *)
(***************************************************************************)
CONSTANTS
  Names,    \* instances
  Runs,     \* runs of scripts
  Stems,    \* names of records
  Links,    \* links to the latest record of something
  Followed, \* per name of a record, the links that may lead to it
  None

VARIABLES
  record,  \* per instance and name, the run whose record it is
  latest   \* per instance and link, where it leads

vars == <<record, latest>>

Init ==
  /\ record = [i \in Names |-> [s \in Stems |-> None]]
  /\ latest = [i \in Names |-> [l \in Links |-> None]]

Publish(i, s, r) ==
  /\ record[i][s] = None
  /\ record' = [record EXCEPT ![i][s] = r]
  /\ UNCHANGED latest

Withdraw(i, l) ==
  /\ latest[i][l] # None
  /\ latest' = [latest EXCEPT ![i][l] = None]
  /\ UNCHANGED record

Point(i, l, s) ==
  /\ latest[i][l] = None /\ record[i][s] # None
  /\ l \in Followed[s]
  /\ latest' = [latest EXCEPT ![i][l] = s]
  /\ UNCHANGED record

Next ==
  \E i \in Names :
    \/ \E s \in Stems, r \in Runs : Publish(i, s, r)
    \/ \E l \in Links : Withdraw(i, l)
    \/ \E l \in Links, s \in Stems : Point(i, l, s)

Spec == Init /\ [][Next]_vars

=============================================================================
