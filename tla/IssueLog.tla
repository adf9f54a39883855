------------------------------ MODULE IssueLog ------------------------------
(***************************************************************************)
(* What the issue store promises about its database: an issue and the log   *)
(* of its events change together, the log only grows, it starts with        *)
(* "opened", and an issue is closed at most once.                           *)
(***************************************************************************)
EXTENDS Sequences

CONSTANT Issues

VARIABLES
  status,  \* [Issues -> "absent", "open" or "closed"]
  log      \* [Issues -> the kinds of its events, oldest first]

vars == <<status, log>>

Kinds == {"opened", "note", "closed"}

Init ==
  /\ status = [i \in Issues |-> "absent"]
  /\ log = [i \in Issues |-> <<>>]

Record(i, new, kind) ==
  /\ status' = [status EXCEPT ![i] = new]
  /\ log' = [log EXCEPT ![i] = Append(@, kind)]

OpenIssue(i)  == status[i] = "absent" /\ Record(i, "open", "opened")
AddNote(i)    == status[i] # "absent" /\ Record(i, status[i], "note")
CloseIssue(i) == status[i] = "open" /\ Record(i, "closed", "closed")

Next == \E i \in Issues : OpenIssue(i) \/ AddNote(i) \/ CloseIssue(i)

Spec == Init /\ [][Next]_vars
=============================================================================
