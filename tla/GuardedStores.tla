--------------------------- MODULE GuardedStores ---------------------------
(***************************************************************************)
(* The trust distribution, the external witness of its frontier, the       *)
(* update store and the administrative ledger.                             *)
(*                                                                         *)
(* No code calls two of them: the host carries what one says to another.   *)
(* They share the clock and nothing else, so their steps commute, and a    *)
(* behaviour that takes steps of one of them only shows everything each    *)
(* can do; `driven' is the one its host uses.  What the witness expects of *)
(* the distribution is stated of the heads the distribution really has.    *)
(***************************************************************************)
EXTENDS ExternalWitness, TrustDistribution, UpdateStore, AuthorizationLedger

VARIABLE driven

vars == <<clock, driven, witnessVars, distributionVars, updateVars, authorizationVars>>

Init ==
  /\ clock = 0
  /\ driven \in {"witness", "distribution", "update", "authorization"}
  /\ WitnessInit /\ DistributionInit /\ UpdateInit /\ AuthorizationInit

Next ==
  /\ UNCHANGED driven
  /\ \/ /\ driven = "witness" /\ WitnessNext
        /\ UNCHANGED <<distributionVars, updateVars, authorizationVars>>
     \/ /\ driven = "distribution" /\ DistributionNext
        /\ UNCHANGED <<witnessVars, updateVars, authorizationVars>>
     \/ /\ driven = "update" /\ UpdateNext
        /\ UNCHANGED <<witnessVars, distributionVars, authorizationVars>>
     \/ /\ driven = "authorization" /\ AuthorizationNext
        /\ UNCHANGED <<witnessVars, distributionVars, updateVars>>

Spec == Init /\ [][Next]_vars

(***************************************************************************)
(* WitnessLocalHead: the acceptance frontier after i ingestions            *)
(***************************************************************************)
Frontier(i) ==
  LET head == HeadAfter(SubSeq(store.history, 1, i)) IN
  [sequence |-> i, history |-> SubSeq(store.history, 1, i),
   checkpoint |-> <<head.bundle.revision, head.bundle.name>>,
   trust |-> head.bundle.trust, epoch |-> head.bundle.epoch,
   policy |-> <<head.policy.revision, head.policy>>]

(***************************************************************************)
(* Whatever the distribution ingests, the witness can follow: every two    *)
(* successive frontiers are a lineage the witness accepts, so that a host  *)
(* that reports each of them is never left with a local store the witness  *)
(* calls a fork.                                                           *)
(***************************************************************************)
FrontierIsWitnessable ==
  \A i \in 1..(Len(store.history) - 1) : Lineage(Frontier(i), Frontier(i + 1))

(***************************************************************************)
(* No sequence of calls, failed commits, crashes, policies and clock jumps *)
(* leaves a store that its own loader refuses: every load validates the    *)
(* whole history, and a store that refuses it answers nothing any more.    *)
(***************************************************************************)
EveryStoreLoads ==
  /\ WitnessLoads
  /\ DistributionLoads
  /\ UpdateLoads(events)
  /\ AuthorizationLoads(authorizations)

(***************************************************************************)
(* What the stores answer is true.  No store answers a success that is not *)
(* on record.  A refusal means that nothing was written, in witness and    *)
(* distribution always, in the update store if it names its reason; a      *)
(* failure of the administrative ledger promises nothing either way, and   *)
(* its successes go to who may have them, a bootstrap inside its lease.    *)
(***************************************************************************)
AnswersAreTrue ==
  WitnessAnswers /\ DistributionAnswers /\ UpdateAnswers /\ AuthorizationAnswers
=============================================================================
