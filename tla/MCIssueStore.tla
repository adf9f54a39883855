---------------------------- MODULE MCIssueStore ----------------------------
(* Small instances of IssueStore for TLC.                                   *)
EXTENDS IssueStore

CONSTANTS s1, s2, t1, t2, i1, i2

OneStore  == [t \in Tasks |-> s1]
TwoStores == [t \in Tasks |-> IF t = t1 THEN s1 ELSE s2]

=============================================================================
