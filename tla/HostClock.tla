----------------------------- MODULE HostClock -----------------------------
(***************************************************************************)
(* The wall clock of the host.  Every writer reads it several times within *)
(* one call and compares only the readings it made itself; between two     *)
(* readings the clock may move either way.                                 *)
(***************************************************************************)
EXTENDS Integers

CONSTANT MaxTime    \* bound of the instances; the code's clock is unbounded

ASSUME ClockConstants == MaxTime \in Nat

VARIABLE clock

Times == 0..MaxTime

SetClock == clock' \in Times \ {clock}
=============================================================================
