----------------------------- MODULE PipeLedger -----------------------------
(***************************************************************************)
(* The ledger of one overlapped pipe operation                             *)
(* (windows_pipe_operation_logic.py): what an event may follow, and what   *)
(* it does to the state that replaying the ledger gives.  The number of    *)
(* bytes moved is left out; it is zero unless the operation succeeded.     *)
(***************************************************************************)
EXTENDS Integers

CONSTANT MaxEvents  \* MAX_EVENTS

ASSUME LedgerAssumption == MaxEvents \in Nat

Kinds == {"CONNECT", "READ", "WRITE"}

\* PipeOperationPlan: the kind and the two deadlines, in order.
Plan == {p \in [kind : Kinds, request : Nat, cleanup : Nat] : p.request < p.cleanup}

(* PipeOperationState, the number and last tick of its events, and whether *)
(* propose_pipe_event rejected the last one.                               *)
LedgerState ==
  [stage : {"CREATED", "PENDING", "TERMINAL", "DISPOSED"},
   terminal : {"NONE", "SUCCESS", "ABORTED", "ERROR", "NOT_SUBMITTED"},
   suppressed : BOOLEAN, shutdown : BOOLEAN,
   events : Nat, last : Nat, rejected : BOOLEAN]

Created(t) == [stage |-> "CREATED", terminal |-> "NONE", suppressed |-> FALSE,
               shutdown |-> FALSE, events |-> 0, last |-> t, rejected |-> FALSE]

(***************************************************************************)
(* _step, first the conditions under which it raises no error ...          *)
(***************************************************************************)
Legal(p, s, action, outcome, t) ==
  /\ t >= s.last
  /\ s.stage # "DISPOSED"
  /\ \/ /\ action = "SUBMIT"
        /\ s.stage = "CREATED" /\ ~s.shutdown /\ t < p.request
        /\ outcome \in {"PENDING", "SUCCESS", "ERROR"}
     \/ /\ action = "POLL"
        /\ s.stage = "PENDING"
        /\ outcome \in {"INCOMPLETE", "SUCCESS", "ABORTED", "ERROR"}
     \/ /\ action = "CANCEL"
        /\ s.stage = "PENDING"
        /\ outcome \in {"CANCEL_ACCEPTED", "NOT_FOUND", "CANCEL_FAILED"}
     \/ action = "EXPIRE" /\ outcome = "NONE" /\ t >= p.request
     \/ action = "DISPOSE" /\ outcome = "NONE" /\ s.stage = "TERMINAL"

\* Mutant: a request that expired counts as one that never was submitted.
Ends_Expired(s, action, outcome) ==
  \/ action \in {"SUBMIT", "POLL"} /\ outcome \in {"SUCCESS", "ABORTED", "ERROR"}
  \/ action = "EXPIRE" /\ s.stage \in {"CREATED", "PENDING"}

(***************************************************************************)
(* ... then what it makes of the state.                                    *)
(***************************************************************************)
Ends(s, action, outcome) ==
  \/ action \in {"SUBMIT", "POLL"} /\ outcome \in {"SUCCESS", "ABORTED", "ERROR"}
  \/ action = "EXPIRE" /\ s.stage = "CREATED"

\* Mutant: only a cancellation suppresses the result.
After_NotSuppressed(p, s, action, outcome, t) ==
  LET ended == Ends(s, action, outcome) IN
  [s EXCEPT
    !.stage = CASE ended                                     -> "TERMINAL"
                [] action = "SUBMIT" /\ outcome = "PENDING"  -> "PENDING"
                [] action = "DISPOSE"                        -> "DISPOSED"
                [] OTHER                                     -> @,
    !.terminal = IF ~ended THEN @ ELSE IF action = "EXPIRE" THEN "NOT_SUBMITTED" ELSE outcome,
    !.suppressed = @ \/ action = "CANCEL",
    !.events = @ + 1, !.last = t]

After(p, s, action, outcome, t) ==
  LET late  == s.stage = "PENDING" /\ t >= p.cleanup
      ended == Ends(s, action, outcome) IN
  [s EXCEPT
    !.stage = CASE ended                                     -> "TERMINAL"
                [] action = "SUBMIT" /\ outcome = "PENDING"  -> "PENDING"
                [] action = "DISPOSE"                        -> "DISPOSED"
                [] OTHER                                     -> @,
    !.terminal = IF ~ended THEN @ ELSE IF action = "EXPIRE" THEN "NOT_SUBMITTED" ELSE outcome,
    !.suppressed = @ \/ t >= p.request \/ action = "CANCEL",
    !.shutdown = @ \/ late,
    !.events = @ + 1,
    !.last = t]

(***************************************************************************)
(* propose_pipe_event, and the endpoint's use of it: once an event was     *)
(* rejected or left a state that demands shutdown, none follows.           *)
(***************************************************************************)
Condemned(s) == s.rejected \/ s.shutdown

Recorded(p, s, action, outcome, t) ==
  IF Condemned(s) THEN s
  ELSE IF s.events < MaxEvents /\ Legal(p, s, action, outcome, t)
       THEN After(p, s, action, outcome, t)
       ELSE [s EXCEPT !.rejected = TRUE]

ResultAvailable(s) ==
  s.stage = "TERMINAL" /\ s.terminal = "SUCCESS" /\ ~s.suppressed /\ ~s.shutdown
=============================================================================
