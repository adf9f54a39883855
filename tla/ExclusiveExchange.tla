------------------------- MODULE ExclusiveExchange -------------------------
(***************************************************************************)
(* What the diagnostic service promises a driver: at any moment at most    *)
(* one exchange per subject (a vehicle, or the fleet list) is under way,    *)
(* an exchange the service gave up on counts until it has drained, and      *)
(* driver.close() never runs beside an exchange.                            *)
(***************************************************************************)
CONSTANT Subjects

VARIABLES
  exchange,  \* [Subjects -> the exchange under way with the subject]
  closing    \* driver.close() is running

vars == <<exchange, closing>>

TypeOK ==
  /\ exchange \in [Subjects -> {"none", "wanted", "draining"}]
  /\ closing \in BOOLEAN

Init ==
  /\ exchange = [s \in Subjects |-> "none"]
  /\ closing = FALSE

Start(s) ==
  /\ ~closing /\ exchange[s] = "none"
  /\ exchange' = [exchange EXCEPT ![s] = "wanted"]
  /\ UNCHANGED closing

\* Somebody waits for the result no longer: it drains.
GiveUp(s) ==
  /\ exchange[s] = "wanted"
  /\ exchange' = [exchange EXCEPT ![s] = "draining"]
  /\ UNCHANGED closing

Finish(s) ==
  /\ exchange[s] # "none"
  /\ exchange' = [exchange EXCEPT ![s] = "none"]
  /\ UNCHANGED closing

BeginClose ==
  /\ ~closing /\ \A s \in Subjects : exchange[s] = "none"
  /\ closing' = TRUE
  /\ UNCHANGED exchange

EndClose ==
  /\ closing
  /\ closing' = FALSE
  /\ UNCHANGED exchange

Next ==
  \/ \E s \in Subjects : Start(s) \/ GiveUp(s) \/ Finish(s)
  \/ BeginClose \/ EndClose

Spec == Init /\ [][Next]_vars
=============================================================================
