---------------------------- MODULE CustodyHost ----------------------------
(***************************************************************************)
(* The provider and the two ways to it.  The signing service runs it in a  *)
(* process of its own, behind the broker; the observation bridge calls it  *)
(* in the thread that serves the connection.  A provider has one user.     *)
(***************************************************************************)
EXTENDS CustodyBroker, ObservationPath

VARIABLE user

vars == <<clock, user, custodyVars, brokerVars, observationVars>>

Init ==
  /\ clock = 0
  /\ user \in {"broker", "bridge"}
  /\ BrokerInit /\ ObservationInit

Next ==
  /\ UNCHANGED user
  /\ \/ user = "broker" /\ BrokerNext /\ UNCHANGED observationVars
     \/ user = "bridge" /\ ObservationNext /\ UNCHANGED brokerVars

Spec == Init /\ [][Next]_vars
=============================================================================
