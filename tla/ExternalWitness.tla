-------------------------- MODULE ExternalWitness --------------------------
(***************************************************************************)
(* The external witness (external_witness_logic.py, _store.py,             *)
(* _writer.py): one append-only image that remembers how far a local store *)
(* had come, so that a local store which was set back can be told.         *)
(*                                                                         *)
(* A submission holds the write lock of the image and the lease of its     *)
(* policy provider.  It evaluates the request, writes, evaluates it again, *)
(* commits, and evaluates once more before it answers; each time against   *)
(* the image as it was before its own write.  Records stand for their      *)
(* digests, and one instant `until' for the ends of the policy and caller  *)
(* windows, which are only ever tested together.  The evidence of a        *)
(* lineage is a fixture: it is given where the lineage holds, or refused.  *)
(*                                                                         *)
(* The local store is outside this code: it is the WitnessStateRecord its  *)
(* host compares and advances.  TrustDistribution models the real one.     *)
(***************************************************************************)
EXTENDS HostClock, Sequences

CONSTANTS
  Principals,   \* principal_id
  RequestIds,   \* request_id
  Heads,        \* WitnessLocalHead
  FirstHead,    \* the head of the trusted initial record
  WitnessPolicies,  \* SyntheticWitnessPolicy, with the end of its window
  FirstPolicy,
  Lifetime,     \* of a request and its lineage evidence
  MaxReceipts   \* HISTORY_LIMIT

ASSUME WitnessConstants ==
  /\ Heads \subseteq
       [sequence : Nat, history : STRING, checkpoint : Nat \X STRING,
        trust : Nat \X STRING, policy : Nat \X STRING, epoch : Nat \X STRING]
  /\ WitnessPolicies \subseteq
       [revision : Nat, until : Nat, advance : SUBSET Principals, recovery : SUBSET Principals]
  /\ FirstHead \in Heads /\ FirstPolicy \in WitnessPolicies
  /\ Lifetime \in Nat /\ MaxReceipts \in Nat

VARIABLES
  witness,  \* the receipts of the image, in order
  inputs,   \* what the provider supplies now
  local,    \* the local store: last witnessed state, present head
  asked,    \* the request the clients work on
  call,     \* the submission under way
  answer,   \* the last answer to `asked'
  adopted   \* the highest witness sequence the local store ever took over

witnessVars == <<witness, inputs, local, asked, call, answer, adopted>>

NoRequest == [id |-> "none"]
Idle == [phase |-> "idle"]
NoAnswer == [status |-> "NONE", at |-> 0]

(***************************************************************************)
(* external_witness_logic.py                                               *)
(***************************************************************************)
Initial == [sequence |-> 0, head |-> FirstHead, updated |-> 0]

StateAfter(image) == IF image = <<>> THEN Initial ELSE image[Len(image)].state

\* A revision may grow, and stands for one digest.
Progresses(old, new) == new[1] > old[1] \/ new = old

Lineage(old, new) ==
  /\ new.sequence = old.sequence + 1 /\ new.history # old.history
  /\ \A f \in {"checkpoint", "trust", "policy"} : Progresses(old[f], new[f])
  /\ new.checkpoint[1] <= old.checkpoint[1] + 1
  /\ \/ new.epoch = old.epoch
     \/ /\ new.epoch[1] = old.epoch[1] + 1 /\ new.epoch[2] # old.epoch[2]
        /\ new.checkpoint[1] = old.checkpoint[1] + 1

PolicyProgress(image, policy) ==
  image # <<>> =>
    LET last == image[Len(image)].policy
    IN policy.revision > last.revision \/ policy = last

Authorized(principal, action, policy, now) ==
  now < policy.until /\ principal \in policy[action]

(* validate_witness_image: every receipt is evaluated anew, at its own     *)
(* time and from the receipts before it.                                   *)
ValidReceipt(image, i) ==
  LET r == image[i]
      before == SubSeq(image, 1, i - 1)
      state == StateAfter(before)
  IN /\ PolicyProgress(before, r.policy)
     /\ \A j \in 1..(i - 1) : image[j].request.id # r.request.id
     /\ r.request.predecessor = state
     /\ state.updated <= r.at /\ r.at < r.request.until
     /\ Authorized(r.request.principal, "advance", r.policy, r.at)
     /\ Lineage(state.head, r.request.target)
     /\ r.state = [sequence |-> state.sequence + 1, head |-> r.request.target,
                   updated |-> r.at]

ImageLoads(image) ==
  Len(image) <= MaxReceipts /\ \A i \in DOMAIN image : ValidReceipt(image, i)

\* Nothing is looked up for a caller that may neither advance nor recover.
MayLookUp(image, r, now) ==
  /\ \E action \in {"advance", "recovery"} : Authorized(r.principal, action, inputs, now)
  /\ PolicyProgress(image, inputs)
  /\ StateAfter(image).updated <= now

Recorded(image, id) == {i \in DOMAIN image : image[i].request.id = id}

\* HISTORICAL_RECEIPT: exactly the request on record, whatever expired since
Recovers(image, r, now) ==
  /\ MayLookUp(image, r, now)
  /\ \E i \in DOMAIN image : image[i].request = r
  /\ Authorized(r.principal, "recovery", inputs, now)

\* Mutant: an acceptance under an older policy than the last one is let in.
Accepts_AnyPolicy(image, r, now) ==
  /\ StateAfter(image).updated <= now
  /\ Recorded(image, r.id) = {}
  /\ Authorized(r.principal, "advance", inputs, now)
  /\ now < r.until
  /\ r.predecessor = StateAfter(image)
  /\ Lineage(r.predecessor.head, r.target)
  /\ Len(image) < MaxReceipts

\* SUCCESS: a new advance of the state it was asked to advance
Accepts(image, r, now) ==
  /\ MayLookUp(image, r, now)
  /\ Recorded(image, r.id) = {}
  /\ Authorized(r.principal, "advance", inputs, now)
  /\ now < r.until
  /\ r.predecessor = StateAfter(image)
  /\ Lineage(r.predecessor.head, r.target)
  /\ Len(image) < MaxReceipts

ReceiptFor(r, now) ==
  [request |-> r, policy |-> inputs, at |-> now,
   state |-> [sequence |-> r.predecessor.sequence + 1, head |-> r.target,
              updated |-> now]]

\* Mutant: only the heads are compared.
Relationship_HeadsOnly(mine, remote) ==
  CASE mine.head = remote.head -> "MATCHED"
    [] OTHER -> IF Lineage(remote.head, mine.head)
                THEN "LOCAL_EXTENSION_PENDING" ELSE "STATE_FORK"

(* compare_witness_observation, of a fresh observation of state remote *)
Relationship(mine, remote) ==
  CASE mine.sequence < remote.sequence -> "ROLLBACK_OR_STATE_LOSS"
    [] mine.sequence > remote.sequence -> "INDETERMINATE"
    [] mine = remote -> "MATCHED"
    [] OTHER -> IF Lineage(remote.head, mine.head)
                THEN "LOCAL_EXTENSION_PENDING" ELSE "STATE_FORK"

LocalRecord == [local.base EXCEPT !.head = local.head]

(***************************************************************************)
(* The local store and the clients, outside the code: the store takes one  *)
(* more step, is replaced by the copy made at its creation, or takes an    *)
(* acknowledged advance over as its base; a client asks for the advance    *)
(* from the base to the present head.                                      *)
(***************************************************************************)
LocalAdvance(h) ==
  /\ Lineage(local.head, h)
  /\ local' = [local EXCEPT !.head = h]
  /\ UNCHANGED <<witness, inputs, asked, call, answer, adopted>>

LocalRestore ==
  /\ local' = [base |-> Initial, head |-> FirstHead]
  /\ UNCHANGED <<witness, inputs, asked, call, answer, adopted>>

Draft(p, id) ==
  /\ call = Idle /\ local.head # local.base.head
  /\ asked' = [id |-> id, principal |-> p, predecessor |-> local.base,
               target |-> local.head, until |-> clock + Lifetime]
  /\ answer' = NoAnswer
  /\ UNCHANGED <<witness, inputs, local, call, adopted>>

Adopt ==
  /\ answer.status \in {"SUCCESS", "HISTORICAL_RECEIPT"}
  /\ LET state == witness[answer.at].state IN
     /\ state.head = local.head /\ state.sequence > local.base.sequence
     /\ local' = [local EXCEPT !.base = state]
     /\ adopted' = IF state.sequence > adopted THEN state.sequence ELSE adopted
  /\ UNCHANGED <<witness, inputs, asked, call, answer>>

(***************************************************************************)
(* external_witness_writer.py.  Other threads wait for the lease; hooks of *)
(* the thread that holds it can still replace the inputs, which the guard  *)
(* then notices.                                                           *)
(***************************************************************************)
ReplaceInputs(policy) ==
  /\ policy.revision > inputs.revision \/ policy = inputs   \* new caller evidence only
  /\ inputs' = policy
  /\ call' = IF call = Idle THEN call ELSE [call EXCEPT !.stale = TRUE]
  /\ UNCHANGED <<witness, local, asked, answer, adopted>>

\* Another process starts with a provider of its own, which knows nothing of
\* the policies that were in force before.
NewProvider(policy) ==
  /\ call = Idle
  /\ inputs' = policy
  /\ UNCHANGED <<witness, local, asked, call, answer, adopted>>

Answer(status, i) == call' = Idle /\ answer' = [status |-> status, at |-> i]

\* Authorization, load, evaluation and the writes, under lock and lease
Begin ==
  /\ call = Idle /\ asked # NoRequest
  /\ LET fresh == Accepts(witness, asked, clock) IN
     /\ fresh \/ Recovers(witness, asked, clock)
     /\ call' = [phase |-> "written", fresh |-> fresh, before |-> Len(witness),
                 last |-> clock, stale |-> FALSE,
                 receipt |-> IF fresh THEN ReceiptFor(asked, clock)
                             ELSE witness[CHOOSE i \in Recorded(witness, asked.id) : TRUE]]
  /\ answer' = NoAnswer
  /\ UNCHANGED <<witness, inputs, local, asked, adopted>>

\* The store or the provider is busy, the evidence is missing, or it is denied.
Refuse ==
  /\ call = Idle /\ asked # NoRequest
  /\ Answer("REFUSED", 0)
  /\ UNCHANGED <<witness, inputs, local, asked, adopted>>

\* guard: time has not gone back, the inputs are the same, and the request
\* would still be decided alike on the image before the write.
Guard ==
  LET before == SubSeq(witness, 1, call.before) IN
  /\ clock >= call.last /\ ~call.stale
  /\ IF call.fresh THEN Accepts(before, asked, clock) ELSE Recovers(before, asked, clock)

\* The image with what this submission wrote; a retry writes nothing.
Written == IF call.fresh THEN Append(witness, call.receipt) ELSE witness

Commit ==
  /\ call.phase = "written" /\ Guard
  /\ witness' = Written
  /\ call' = [call EXCEPT !.phase = "committed", !.last = clock]
  /\ UNCHANGED <<inputs, local, asked, answer, adopted>>

\* A guard or SQLite fails before COMMIT is attempted.
Rollback ==
  /\ call.phase = "written"
  /\ Answer("REFUSED", 0)
  /\ UNCHANGED <<witness, inputs, local, asked, adopted>>

\* Mutant: a COMMIT that failed is taken for one that was rolled back.
CommitFails_Refused ==
  /\ call.phase = "written" /\ Guard /\ call.fresh
  /\ witness' \in {witness, Written}
  /\ Answer("REFUSED", 0)
  /\ UNCHANGED <<inputs, local, asked, adopted>>

\* COMMIT reports an error; the rows may be durable all the same.
CommitFails ==
  /\ call.phase = "written" /\ Guard /\ call.fresh
  /\ witness' \in {witness, Written}
  /\ Answer("OUTCOME_UNKNOWN", 0)
  /\ UNCHANGED <<inputs, local, asked, adopted>>

\* The guard once more, still under the lease
Return ==
  /\ call.phase = "committed"
  /\ IF Guard
     THEN Answer(IF call.fresh THEN "SUCCESS" ELSE "HISTORICAL_RECEIPT",
                 CHOOSE i \in DOMAIN witness : witness[i] = call.receipt)
     ELSE Answer(IF call.fresh THEN "OUTCOME_UNKNOWN" ELSE "REFUSED", 0)
  /\ UNCHANGED <<witness, inputs, local, asked, adopted>>

\* The process ends, or the answer is lost, at any point of a submission.
Crash ==
  /\ call # Idle
  /\ call' = Idle /\ answer' = NoAnswer
  /\ UNCHANGED <<witness, inputs, local, asked, adopted>>

WitnessInit ==
  /\ witness = <<>>
  /\ inputs = FirstPolicy
  /\ local = [base |-> Initial, head |-> FirstHead]
  /\ asked = NoRequest
  /\ call = Idle
  /\ answer = NoAnswer
  /\ adopted = 0

WitnessNext ==
  \/ SetClock /\ UNCHANGED witnessVars
  \/ /\ UNCHANGED clock
     /\ \/ LocalRestore \/ Adopt
        \/ \E h \in Heads : LocalAdvance(h)
        \/ \E p \in Principals, id \in RequestIds : Draft(p, id)
        \/ \E policy \in WitnessPolicies : ReplaceInputs(policy) \/ NewProvider(policy)
        \/ Begin \/ Refuse \/ Commit \/ Rollback \/ CommitFails \/ Return \/ Crash

(***************************************************************************)
(* No sequence of submissions, crashes and clock jumps leaves an image     *)
(* that the store refuses (validate_witness_image): ids are used once,     *)
(* policies and times never go back, every acceptance was authorized then. *)
(***************************************************************************)
WitnessLoads == ImageLoads(witness)

(***************************************************************************)
(* What submit answers is true: a receipt is on record for exactly this    *)
(* request, and a call that answers a refusal has recorded nothing.        *)
(***************************************************************************)
WitnessAnswers ==
  [][/\ answer'.status \in {"SUCCESS", "HISTORICAL_RECEIPT"} =>
          witness'[answer'.at].request = asked'
     /\ call # Idle /\ call' = Idle /\ answer'.status = "REFUSED" =>
          Len(witness') = call.before]_witnessVars

(***************************************************************************)
(* A local store that was set back behind an acceptance it had taken over  *)
(* is exposed by any observation, whatever it accepted since.              *)
(***************************************************************************)
RollbackExposed ==
  adopted > local.base.sequence =>
    Relationship(LocalRecord, StateAfter(witness)) = "ROLLBACK_OR_STATE_LOSS"
=============================================================================
