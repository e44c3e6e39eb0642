------------------------ MODULE ClientDeliveryProofs ------------------------
(***************************************************************************)
(* What a client's two stores guarantee for any number of processes,       *)
(* operations, envelopes and instants, and whatever the wall clock does:   *)
(* the safety theorems of ClientDelivery.                                  *)
(*                                                                         *)
(* The inductive invariant joins the four properties with what ties the    *)
(* steps under way to the stores: the evidence that a recovery holds is a  *)
(* past of the high-water store, the entry it is about stays retained      *)
(* while the lock is held, and an application carries the very response    *)
(* that the journal retained.                                              *)
(***************************************************************************)
EXTENDS ClientDelivery, SequenceTheorems, FiniteSetTheorems, TLAPS

\* State s is a past of the high-water store.
IsPast(s) ==
    /\ Len(s.history) <= Len(highWater.history)
    /\ \A i \in DOMAIN s.history : s.history[i] = highWater.history[i]

RecoveryInv(q) ==
    local[q].pc = "recovering" =>
        /\ journal[local[q].op].state = "RETAINED_RESPONSE"
        /\ journal[local[q].op].retainedAt <= local[q].now
        /\ ValidState(local[q].evidence)
        /\ local[q].evidence.at <= local[q].now
        /\ IsPast(local[q].evidence)

ApplicationInv(q) ==
    local[q].pc = "applying" =>
        /\ HasResponse(local[q].op)
        /\ journal[local[q].op].response = local[q].response

OneRecovers ==
    \A p, q \in Processes :
        local[p].pc = "recovering" /\ local[q].pc = "recovering" => p = q

DeliveryInv ==
    /\ DeliveryTypeOK
    /\ IsFiniteSet(Known)
    /\ StoresLoad
    /\ EvidenceIsHistory
    /\ AppliedWasRetained
    /\ OneRecovers
    /\ \A q \in Processes : RecoveryInv(q) /\ ApplicationInv(q)

-----------------------------------------------------------------------------
(* The high-water store.                                                   *)

\* What a state of the high-water store is made of.
LEMMA HistoryParts ==
    ASSUME NEW s \in HighWaterState
    PROVE  /\ s.history \in Seq(Receipt)
           /\ Len(s.history) \in Nat
           /\ DOMAIN s.history = 1..Len(s.history)
           /\ \A i \in DOMAIN s.history : s.history[i] \in Receipt
           /\ s.mark \in Envelopes /\ s.at \in Times
<1>1. s.history \in Seq(Receipt) /\ s.mark \in Envelopes /\ s.at \in Times
    BY DEF HighWaterState
<1> QED
    BY <1>1, LenProperties, ElementOfSeq

\* The receipt of an operation that has one.
LEMMA ReceiptOfHas ==
    ASSUME NEW s, NEW op, Has(s, op)
    PROVE  \E i \in DOMAIN s.history : s.history[i].op = op /\ ReceiptOf(s, op) = s.history[i]
    BY DEF Has, ReceiptOf

\* A receipt is judged by the history before it: what follows changes nothing.
LEMMA ReceiptsStay ==
    ASSUME NEW h \in Seq(Receipt), NEW r \in Receipt, NEW i \in 1..Len(h),
           ValidReceipt(h, i)
    PROVE  ValidReceipt(Append(h, r), i)
<1>1. Len(h) \in Nat
    BY LenProperties
<1>2. \A j \in 1..Len(h) : Append(h, r)[j] = h[j]
    BY AppendProperties
<1>3. /\ MarkAt(Append(h, r), i - 1) = MarkAt(h, i - 1)
      /\ TimeAt(Append(h, r), i - 1) = TimeAt(h, i - 1)
    BY <1>1, <1>2 DEF MarkAt, TimeAt
<1> QED
    BY <1>1, <1>2, <1>3 DEF ValidReceipt

\* What an accepted observation writes: one receipt, at the end, of the envelope
\* that becomes the mark.  The loader accepts the result.
LEMMA ApplyWrites ==
    ASSUME highWater \in HighWaterState, clock \in Times,
           NEW op \in Operations, NEW r \in Responses, Apply(op, r)
    PROVE  LET n == Len(highWater.history) IN
           /\ highWater' \in HighWaterState
           /\ ValidState(highWater')
           /\ Len(highWater'.history) = n + 1
           /\ highWater'.history[n + 1] = ReceiptFor(op, r, highWater.mark, clock)
           /\ \A i \in 1..n : highWater'.history[i] = highWater.history[i]
           /\ highWater'.mark = r.envelope
<1> DEFINE h == highWater.history
           n == Len(h)
           receipt == ReceiptFor(op, r, highWater.mark, clock)
<1>1. /\ h \in Seq(Receipt) /\ n \in Nat /\ DOMAIN h = 1..n
      /\ \A i \in 1..n : h[i] \in Receipt
    BY HistoryParts
<1>2. r.envelope \in Envelopes
    BY HighWaterConstants
<1>3. receipt \in Receipt
    BY DEF ReceiptFor, Receipt
<1>4. /\ HighWaterLoads(clock) /\ ~Has(highWater, op) /\ Valid(r, clock)
      /\ Accepts(highWater.mark, r.envelope) /\ n < MaxReceipts
      /\ highWater' = [mark |-> r.envelope, at |-> clock, history |-> Append(h, receipt)]
    BY DEF Apply
<1>5. /\ Append(h, receipt) \in Seq(Receipt) /\ Len(Append(h, receipt)) = n + 1
      /\ Append(h, receipt)[n + 1] = receipt
      /\ \A i \in 1..n : Append(h, receipt)[i] = h[i]
    BY <1>1, <1>3, AppendProperties
<1>6. highWater' \in HighWaterState
    BY <1>2, <1>4, <1>5 DEF HighWaterState
<1>7. DOMAIN Append(h, receipt) = 1..(n + 1)
    BY <1>5, LenProperties
<1>8. ValidReceipt(Append(h, receipt), n + 1)
  <2>1. \A j \in 1..n : Append(h, receipt)[j].op # op
      BY <1>1, <1>4, <1>5 DEF Has
  <2>2. receipt.op = op /\ receipt.response = r /\ receipt.at = clock
      BY DEF ReceiptFor
  <2>3. /\ MarkAt(Append(h, receipt), n) = highWater.mark
        /\ TimeAt(Append(h, receipt), n) = highWater.at
        /\ highWater.at <= clock
    <3>1. highWater.mark = MarkAt(h, n) /\ highWater.at = TimeAt(h, n) /\ highWater.at <= clock
        BY <1>4 DEF HighWaterLoads, ValidState
    <3>2. n # 0 => n \in 1..n
        BY <1>1
    <3>3. n # 0 => Append(h, receipt)[n] = h[n]
        BY <1>5, <3>2
    <3> HIDE DEF receipt, h, n
    <3> QED
        BY <3>1, <3>3 DEF MarkAt, TimeAt
  <2>4. (n + 1) - 1 = n
      BY <1>1
  <2> HIDE DEF receipt, h, n
  <2>5. Valid(r, clock)
      BY <1>4
  <2> QED
      BY <1>4, <1>5, <2>1, <2>2, <2>3, <2>4, <2>5 DEF ValidReceipt, receipt
<1>9. \A i \in 1..(n + 1) : ValidReceipt(Append(h, receipt), i)
  <2> TAKE i \in 1..(n + 1)
  <2>1. CASE i = n + 1
      BY <1>8, <2>1
  <2>2. CASE i # n + 1
    <3>1. i \in 1..n
        BY <1>1, <2>2
    <3>2. ValidReceipt(h, i)
        BY <1>1, <1>4, <3>1 DEF HighWaterLoads, ValidState
    <3> QED
        BY <1>1, <1>3, <3>1, <3>2, ReceiptsStay
  <2> QED
      BY <2>1, <2>2
<1>10. ValidState(highWater')
  <2>1. /\ MarkAt(Append(h, receipt), n + 1) = r.envelope
        /\ TimeAt(Append(h, receipt), n + 1) = clock
      BY <1>1, <1>5 DEF MarkAt, TimeAt, ReceiptFor
  <2>2. n + 1 <= MaxReceipts
      BY <1>1, <1>4, HighWaterConstants
  <2> HIDE DEF receipt, h, n
  <2> QED
      BY <1>4, <1>5, <1>7, <1>9, <2>1, <2>2 DEF ValidState
<1> QED
    BY <1>4, <1>5, <1>6, <1>10
-----------------------------------------------------------------------------
(* Frames.                                                                 *)

\* An entry that is not written stays valid.
LEMMA EntryStays ==
    ASSUME NEW op, journal'[op] = journal[op]
    PROVE  /\ HasResponse(op)' <=> HasResponse(op)
           /\ IsCommitted(op)' <=> IsCommitted(op)
           /\ ValidEntry(op)' <=> ValidEntry(op)
<1>1. /\ HasResponse(op)' <=> HasResponse(op)
      /\ IsCommitted(op)' <=> IsCommitted(op)
    BY DEF HasResponse, IsCommitted
<1>2. \A s : Bound(s, op)' <=> Bound(s, op)
    BY DEF Bound
<1> QED
    BY <1>1, <1>2 DEF ValidEntry

\* An entry with a response has the fields of one.
LEMMA EntryParts ==
    ASSUME DeliveryTypeOK, NEW op \in Known
    PROVE  /\ journal[op].intent \in Intent
           /\ HasResponse(op) => journal[op].response \in Responses /\ journal[op].retainedAt \in Times
           /\ IsCommitted(op) => /\ HasResponse(op)
                                 /\ journal[op].evidence \in HighWaterState
                                 /\ journal[op].reconciledAt \in Times
           /\ HasResponse(op) /\ ~IsCommitted(op) => journal[op].state = "RETAINED_RESPONSE"
    BY DEF DeliveryTypeOK, HasResponse, IsCommitted, Awaiting, Retained, Committed

\* The step under way of a process.
LEMMA LocalParts ==
    ASSUME DeliveryTypeOK, NEW q \in Processes, local[q] # Idle
    PROVE  /\ local[q].op \in Known
           /\ local[q].pc = "recovering" =>
                 local[q].evidence \in HighWaterState /\ local[q].now \in Times
           /\ local[q].pc = "applying" => local[q].response \in Responses
<1>1. local[q] \in Local /\ local[q].op \in Known
    BY DEF DeliveryTypeOK
<1> QED
    BY <1>1 DEF Local, Idle

\* Steps that write to neither store keep what is said of them alone.
LEMMA StoresUntouched ==
    ASSUME DeliveryInv, UNCHANGED <<highWater, journal>>
    PROVE  /\ IsFiniteSet(Known)' /\ StoresLoad' /\ EvidenceIsHistory' /\ AppliedWasRetained'
           /\ highWater' \in HighWaterState /\ Known' \subseteq Operations
           /\ \A op \in Known' : journal'[op] \in Awaiting \cup Retained \cup Committed
<1>1. Known' = Known /\ \A op : journal'[op] = journal[op]
    BY DEF Known
<1>2. StoresLoad'
  <2>1. \A op \in Known' : ValidEntry(op)'
      BY <1>1, EntryStays DEF DeliveryInv, StoresLoad, ValidJournal
  <2> QED
      BY <1>1, <2>1 DEF DeliveryInv, StoresLoad, ValidJournal
<1>3. EvidenceIsHistory' /\ AppliedWasRetained'
    BY <1>1 DEF DeliveryInv, EvidenceIsHistory, AppliedWasRetained, IsCommitted, HasResponse
<1> QED
    BY <1>1, <1>2, <1>3 DEF DeliveryInv, DeliveryTypeOK

\* The high-water store keeps its receipts.
HistoryGrows ==
    /\ Len(highWater.history) <= Len(highWater'.history)
    /\ \A i \in 1..Len(highWater.history) : highWater'.history[i] = highWater.history[i]

\* A past of the store is a past of what it grows to.
LEMMA PastStays ==
    ASSUME NEW s \in HighWaterState, highWater \in HighWaterState,
           highWater' \in HighWaterState, HistoryGrows, IsPast(s)
    PROVE  /\ Len(s.history) <= Len(highWater'.history)
           /\ \A i \in DOMAIN s.history : s.history[i] = highWater'.history[i]
<1>1. /\ DOMAIN s.history = 1..Len(s.history) /\ Len(s.history) \in Nat
      /\ Len(highWater.history) \in Nat /\ Len(highWater'.history) \in Nat
    BY HistoryParts
<1> QED
    BY <1>1 DEF HistoryGrows, IsPast

\* The journal keeps its entries, and the responses it retained.
ResponsesStay ==
    /\ Known \subseteq Known'
    /\ \A op \in Known : HasResponse(op) =>
          HasResponse(op)' /\ journal'[op].response = journal[op].response

\* A recovery that goes on, about an entry that is not written, stays sound while
\* the high-water store grows.
LEMMA RecoveryStays ==
    ASSUME DeliveryInv, NEW q \in Processes, local'[q] = local[q],
           local[q].pc = "recovering" => journal'[local[q].op] = journal[local[q].op],
           highWater' \in HighWaterState, HistoryGrows
    PROVE  RecoveryInv(q)'
<1> SUFFICES ASSUME local[q].pc = "recovering" PROVE RecoveryInv(q)'
    BY DEF RecoveryInv
<1>1. local[q] # Idle
    BY DEF Idle
<1>2. local[q].evidence \in HighWaterState /\ highWater \in HighWaterState
    BY <1>1, LocalParts DEF DeliveryInv, DeliveryTypeOK
<1>3. RecoveryInv(q)
    BY DEF DeliveryInv
<1>4. LET e == local[q].evidence IN
      /\ Len(e.history) <= Len(highWater'.history)
      /\ \A i \in DOMAIN e.history : e.history[i] = highWater'.history[i]
    BY <1>2, <1>3, PastStays DEF RecoveryInv
<1> QED
    BY <1>3, <1>4 DEF RecoveryInv, IsPast

\* An application that goes on still carries the response the journal retained.
LEMMA ApplicationStays ==
    ASSUME DeliveryInv, NEW q \in Processes, local'[q] = local[q], ResponsesStay
    PROVE  ApplicationInv(q)'
<1> SUFFICES ASSUME local[q].pc = "applying" PROVE ApplicationInv(q)'
    BY DEF ApplicationInv
<1>1. local[q].op \in Known
    BY LocalParts DEF DeliveryInv, Idle
<1>2. ApplicationInv(q)
    BY DEF DeliveryInv
<1> QED
    BY <1>1, <1>2 DEF ApplicationInv, ResponsesStay, HasResponse

\* A process that ends its step has nothing left to be sound about.
LEMMA IdleIsSound ==
    ASSUME NEW q \in Processes, local'[q] = Idle
    PROVE  RecoveryInv(q)' /\ ApplicationInv(q)'
    BY DEF RecoveryInv, ApplicationInv, Idle

\* One process ends its step, and the stores may move: what that takes.
LEMMA StepEnds ==
    ASSUME DeliveryInv, NEW q \in Processes, local' = [local EXCEPT ![q] = Idle],
           highWater' \in HighWaterState, HistoryGrows, ResponsesStay,
           \A p \in Processes \ {q} : local[p].pc = "recovering" =>
               journal'[local[p].op] = journal[local[p].op]
    PROVE  /\ local' \in [Processes -> Local]
           /\ \A p \in Processes : local'[p] # Idle => local'[p].op \in Known'
           /\ OneRecovers'
           /\ \A p \in Processes : RecoveryInv(p)' /\ ApplicationInv(p)'
<1>1. /\ local \in [Processes -> Local] /\ Idle \in Local
      /\ local'[q] = Idle /\ \A p \in Processes \ {q} : local'[p] = local[p]
    BY DEF DeliveryInv, DeliveryTypeOK, Local
<1>2. local' \in [Processes -> Local]
    BY <1>1
<1>3. \A p \in Processes : local'[p] # Idle => local'[p].op \in Known'
    BY <1>1 DEF DeliveryInv, DeliveryTypeOK, ResponsesStay
<1>4. OneRecovers'
    BY <1>1 DEF DeliveryInv, OneRecovers, Idle
<1>5. \A p \in Processes : RecoveryInv(p)' /\ ApplicationInv(p)'
  <2> TAKE p \in Processes
  <2>1. CASE p = q
      BY <1>1, <2>1, IdleIsSound
  <2>2. CASE p # q
      BY <1>1, <2>2, RecoveryStays, ApplicationStays
  <2> QED
      BY <2>1, <2>2
<1> QED
    BY <1>2, <1>3, <1>4, <1>5

\* One process moves and neither store does: what it takes for its new step.
LEMMA StepMoves ==
    ASSUME DeliveryInv, NEW q \in Processes, NEW v \in Local,
           UNCHANGED <<highWater, clock, journal>>, local' = [local EXCEPT ![q] = v],
           v # Idle => v.op \in Known,
           v.pc = "recovering" => Unlocked,
           RecoveryInv(q)', ApplicationInv(q)'
    PROVE  DeliveryInv'
<1>1. /\ local \in [Processes -> Local]
      /\ local'[q] = v /\ \A p \in Processes \ {q} : local'[p] = local[p]
    BY DEF DeliveryInv, DeliveryTypeOK
<1>2. Known' = Known /\ HistoryGrows /\ ResponsesStay
    BY HistoryParts DEF Known, HistoryGrows, ResponsesStay, HasResponse, DeliveryInv, DeliveryTypeOK
<1>3. /\ IsFiniteSet(Known)' /\ StoresLoad' /\ EvidenceIsHistory' /\ AppliedWasRetained'
      /\ highWater' \in HighWaterState /\ Known' \subseteq Operations
      /\ \A op \in Known' : journal'[op] \in Awaiting \cup Retained \cup Committed
    BY StoresUntouched
<1>4. DeliveryTypeOK'
  <2>1. local' \in [Processes -> Local]
      BY <1>1
  <2>2. \A p \in Processes : local'[p] # Idle => local'[p].op \in Known'
      BY <1>1, <1>2 DEF DeliveryInv, DeliveryTypeOK
  <2>3. clock' \in Times
      BY DEF DeliveryInv, DeliveryTypeOK
  <2> QED
      BY <1>3, <2>1, <2>2, <2>3 DEF DeliveryTypeOK
<1>5. OneRecovers'
    BY <1>1 DEF DeliveryInv, OneRecovers, Unlocked
<1>6. \A p \in Processes : RecoveryInv(p)' /\ ApplicationInv(p)'
  <2> TAKE p \in Processes
  <2>1. CASE p = q
      BY <2>1
  <2>2. CASE p # q
      BY <1>1, <1>2, <1>3, <2>2, RecoveryStays, ApplicationStays
  <2> QED
      BY <2>1, <2>2
<1> QED
    BY <1>3, <1>4, <1>5, <1>6 DEF DeliveryInv
-----------------------------------------------------------------------------
(* The steps that write to no store.                                       *)

LEMMA TickKeeps == ASSUME DeliveryInv, Tick PROVE DeliveryInv'
<1>1. UNCHANGED <<highWater, journal, local>> /\ clock' \in Times
    BY DEF Tick
<1>2. Known' = Known /\ HistoryGrows /\ ResponsesStay
    BY <1>1, HistoryParts
    DEF Known, HistoryGrows, ResponsesStay, HasResponse, DeliveryInv, DeliveryTypeOK
<1>3. /\ IsFiniteSet(Known)' /\ StoresLoad' /\ EvidenceIsHistory' /\ AppliedWasRetained'
      /\ highWater' \in HighWaterState /\ Known' \subseteq Operations
      /\ \A op \in Known' : journal'[op] \in Awaiting \cup Retained \cup Committed
    BY <1>1, StoresUntouched
<1>4. DeliveryTypeOK'
    BY <1>1, <1>2, <1>3 DEF DeliveryInv, DeliveryTypeOK
<1>5. OneRecovers'
    BY <1>1 DEF DeliveryInv, OneRecovers
<1>6. \A q \in Processes : RecoveryInv(q)' /\ ApplicationInv(q)'
    BY <1>1, <1>2, <1>3, RecoveryStays, ApplicationStays
<1> QED
    BY <1>3, <1>4, <1>5, <1>6 DEF DeliveryInv

LEMMA BeginReceiveKeeps ==
    ASSUME DeliveryInv, NEW q \in Processes, NEW op \in Operations, BeginReceive(q, op)
    PROVE  DeliveryInv'
<1> DEFINE v == [pc |-> "receiving", op |-> op]
<1>1. /\ UNCHANGED <<highWater, clock, journal>> /\ local' = [local EXCEPT ![q] = v]
      /\ op \in Known
    BY DEF BeginReceive
<1>2. v \in Local
    BY DEF Local
<1>3. local'[q] = v
    BY <1>1 DEF DeliveryInv, DeliveryTypeOK
<1>4. RecoveryInv(q)' /\ ApplicationInv(q)'
    BY <1>3 DEF RecoveryInv, ApplicationInv
<1>5. v.op \in Known /\ v.pc # "recovering"
    BY <1>1
<1> HIDE DEF v
<1> QED
    BY <1>1, <1>2, <1>4, <1>5, StepMoves

\* The evidence is read under the lock, and is the store's present.
LEMMA BeginRecoverKeeps ==
    ASSUME DeliveryInv, NEW q \in Processes, NEW op \in Operations, BeginRecover(q, op)
    PROVE  DeliveryInv'
<1> DEFINE v == [pc |-> "recovering", op |-> op, evidence |-> highWater, now |-> clock]
<1>1. /\ UNCHANGED <<highWater, clock, journal>> /\ local' = [local EXCEPT ![q] = v]
      /\ op \in Known /\ journal[op].state = "RETAINED_RESPONSE"
      /\ Unlocked /\ HighWaterLoads(clock) /\ JournalLoads(clock)
    BY DEF BeginRecover
<1>2. v \in Local
    BY DEF Local, DeliveryInv, DeliveryTypeOK
<1>3. local'[q] = v
    BY <1>1 DEF DeliveryInv, DeliveryTypeOK
<1>4. journal[op].retainedAt <= clock
    BY <1>1 DEF JournalLoads, LastEventAt, HasResponse, IsCommitted
<1>5. Len(highWater.history) \in Nat
    BY HistoryParts DEF DeliveryInv, DeliveryTypeOK
<1>6. RecoveryInv(q)' /\ ApplicationInv(q)'
    BY <1>1, <1>3, <1>4, <1>5 DEF RecoveryInv, ApplicationInv, HighWaterLoads, IsPast
<1>7. v.op \in Known
    BY <1>1
<1> HIDE DEF v
<1> QED
    BY <1>1, <1>2, <1>6, <1>7, StepMoves

LEMMA ProposeKeeps ==
    ASSUME DeliveryInv, NEW q \in Processes, Propose(q) PROVE DeliveryInv'
<1> DEFINE op == local[q].op
           v == [pc |-> "applying", op |-> op, response |-> journal[op].response]
<1>1. /\ UNCHANGED <<highWater, clock, journal>> /\ local' = [local EXCEPT ![q] = v]
      /\ local[q].pc = "recovering"
    BY DEF Propose
<1>2. op \in Known /\ HasResponse(op)
  <2>1. local[q] # Idle
      BY <1>1 DEF Idle
  <2>2. op \in Known /\ RecoveryInv(q)
      BY <2>1, LocalParts DEF DeliveryInv
  <2> QED
      BY <1>1, <2>2 DEF RecoveryInv, HasResponse
<1>3. op \in Operations /\ journal[op].response \in Responses
    BY <1>2, EntryParts DEF DeliveryInv, DeliveryTypeOK
<1>4. v \in Local
    BY <1>3 DEF Local
<1>5. local'[q] = v
    BY <1>1 DEF DeliveryInv, DeliveryTypeOK
<1>6. RecoveryInv(q)' /\ ApplicationInv(q)'
    BY <1>1, <1>2, <1>5 DEF RecoveryInv, ApplicationInv, HasResponse
<1>7. v.op \in Known /\ v.pc # "recovering"
    BY <1>2
<1> HIDE DEF v, op
<1> QED
    BY <1>1, <1>4, <1>6, <1>7, StepMoves

LEMMA AbandonKeeps ==
    ASSUME DeliveryInv, NEW q \in Processes, Abandon(q) PROVE DeliveryInv'
<1>1. UNCHANGED <<highWater, clock, journal>> /\ local' = [local EXCEPT ![q] = Idle]
    BY DEF Abandon
<1>2. Idle \in Local /\ Idle.pc # "recovering"
    BY DEF Local, Idle
<1>3. local'[q] = Idle
    BY <1>1 DEF DeliveryInv, DeliveryTypeOK
<1>4. RecoveryInv(q)' /\ ApplicationInv(q)'
    BY <1>3, IdleIsSound
<1> QED
    BY <1>1, <1>2, <1>4, StepMoves

-----------------------------------------------------------------------------
(* The steps that write to the journal.                                    *)

\* A new entry waits, and no entry that was there is touched.
LEMMA RegisterKeeps ==
    ASSUME DeliveryInv, NEW op \in Operations, NEW i \in Intent, Register(op, i)
    PROVE  DeliveryInv'
<1> DEFINE e == [state |-> "AWAITING_RESPONSE", intent |-> i]
<1>1. /\ UNCHANGED <<highWater, clock, local>> /\ op \notin Known
      /\ Cardinality(Known) < MaxOperations /\ ValidIntent(i)
      /\ journal' = [o \in Known \cup {op} |-> IF o = op THEN e ELSE journal[o]]
    BY DEF Register
<1>2. /\ Known' = Known \cup {op} /\ journal'[op] = e
      /\ \A o \in Known : journal'[o] = journal[o]
    BY <1>1 DEF Known
<1>3. HistoryGrows /\ ResponsesStay
    BY <1>1, <1>2, HistoryParts
    DEF HistoryGrows, ResponsesStay, HasResponse, DeliveryInv, DeliveryTypeOK
<1>4. DeliveryTypeOK'
  <2>1. e \in Awaiting
      BY DEF Awaiting
  <2> HIDE DEF e
  <2> QED
      BY <1>1, <1>2, <2>1 DEF DeliveryInv, DeliveryTypeOK
<1>5. IsFiniteSet(Known)' /\ Cardinality(Known)' <= MaxOperations
  <2>1. /\ IsFiniteSet(Known \cup {op})
        /\ Cardinality(Known \cup {op}) = Cardinality(Known) + 1
      BY <1>1, FS_AddElement DEF DeliveryInv
  <2>2. Cardinality(Known) \in Nat /\ MaxOperations \in Nat
      BY FS_CardinalityType, DeliveryConstants DEF DeliveryInv
  <2> QED
      BY <1>1, <1>2, <2>1, <2>2
<1>6. StoresLoad'
  <2>1. ValidEntry(op)'
      BY <1>1, <1>2 DEF ValidEntry, HasResponse, IsCommitted, ValidIntent
  <2>2. \A o \in Known : ValidEntry(o)'
      BY <1>2, EntryStays DEF DeliveryInv, StoresLoad, ValidJournal
  <2> QED
      BY <1>1, <1>2, <1>5, <2>1, <2>2 DEF DeliveryInv, StoresLoad, ValidJournal
<1>7. EvidenceIsHistory'
    BY <1>1, <1>2 DEF DeliveryInv, EvidenceIsHistory, IsCommitted
<1>8. AppliedWasRetained'
    BY <1>1, <1>3 DEF DeliveryInv, AppliedWasRetained, ResponsesStay, HasResponse
<1>9. OneRecovers'
    BY <1>1 DEF DeliveryInv, OneRecovers
<1>10. \A q \in Processes : RecoveryInv(q)' /\ ApplicationInv(q)'
  <2> TAKE q \in Processes
  <2>1. local[q].pc = "recovering" => local[q].op \in Known
      BY LocalParts DEF DeliveryInv, Idle
  <2>2. highWater' \in HighWaterState
      BY <1>1 DEF DeliveryInv, DeliveryTypeOK
  <2> QED
      BY <1>1, <1>2, <1>3, <2>1, <2>2, RecoveryStays, ApplicationStays
<1> QED
    BY <1>4, <1>5, <1>6, <1>7, <1>8, <1>9, <1>10 DEF DeliveryInv
\* One entry takes its next phase under the lock: what that takes of the entry.
LEMMA EntryWritten ==
    ASSUME DeliveryInv, NEW q \in Processes, NEW op \in Known,
           NEW e \in Retained \cup Committed,
           journal' = [journal EXCEPT ![op] = e], local' = [local EXCEPT ![q] = Idle],
           UNCHANGED <<highWater, clock>>,
           HasResponse(op) => e.response = journal[op].response,
           ValidEntry(op)',
           e \in Committed => IsPast(e.evidence),
           \A p \in Processes \ {q} : local[p].pc # "recovering"
    PROVE  DeliveryInv'
<1>1. /\ Known' = Known /\ journal'[op] = e
      /\ \A o \in Known \ {op} : journal'[o] = journal[o]
    BY DEF Known
<1>2. e.state # "AWAITING_RESPONSE"
    BY DEF Retained, Committed
<1>3. HistoryGrows /\ highWater' \in HighWaterState
    BY HistoryParts DEF HistoryGrows, DeliveryInv, DeliveryTypeOK
<1>4. ResponsesStay
    BY <1>1, <1>2 DEF ResponsesStay, HasResponse
<1>5. /\ local' \in [Processes -> Local]
      /\ \A p \in Processes : local'[p] # Idle => local'[p].op \in Known'
      /\ OneRecovers'
      /\ \A p \in Processes : RecoveryInv(p)' /\ ApplicationInv(p)'
    BY <1>3, <1>4, StepEnds
<1>6. DeliveryTypeOK'
    BY <1>1, <1>3, <1>5 DEF DeliveryInv, DeliveryTypeOK
<1>7. StoresLoad'
  <2>1. \A o \in Known \ {op} : ValidEntry(o)'
      BY <1>1, EntryStays DEF DeliveryInv, StoresLoad, ValidJournal
  <2> QED
      BY <1>1, <2>1 DEF DeliveryInv, StoresLoad, ValidJournal
<1>8. EvidenceIsHistory'
  <2> SUFFICES ASSUME NEW o \in Known, IsCommitted(o)'
               PROVE  LET h == journal'[o].evidence.history IN
                      /\ Len(h) <= Len(highWater.history)
                      /\ \A i \in DOMAIN h : h[i] = highWater.history[i]
      BY <1>1 DEF EvidenceIsHistory
  <2>1. CASE o = op
    <3>1. e \in Committed
        BY <1>1, <2>1 DEF IsCommitted, Retained
    <3> QED
        BY <1>1, <2>1, <3>1 DEF IsPast
  <2>2. CASE o # op
    <3>1. journal'[o] = journal[o] /\ IsCommitted(o)
        BY <1>1, <2>2 DEF IsCommitted
    <3> QED
        BY <3>1 DEF DeliveryInv, EvidenceIsHistory
  <2> QED
      BY <2>1, <2>2
<1>9. AppliedWasRetained'
    BY <1>4 DEF DeliveryInv, AppliedWasRetained, ResponsesStay, HasResponse
<1> QED
    BY <1>1, <1>5, <1>6, <1>7, <1>8, <1>9 DEF DeliveryInv

\* The response that arrives first is kept; the entry waited until then.
LEMMA RetainKeeps ==
    ASSUME DeliveryInv, NEW q \in Processes, NEW r \in Responses, Retain(q, r)
    PROVE  DeliveryInv'
<1>0. PICK op : op = local[q].op
    OBVIOUS
<1> DEFINE i == journal[op].intent
           e == [state |-> "RETAINED_RESPONSE", intent |-> i, response |-> r,
                 retainedAt |-> clock]
<1>1. /\ UNCHANGED <<highWater, clock>> /\ local' = [local EXCEPT ![q] = Idle]
      /\ journal' = [journal EXCEPT ![op] = e]
      /\ local[q].pc = "receiving" /\ Unlocked /\ JournalLoads(clock) /\ ~HasResponse(op)
      /\ clock < i.expires /\ r.request = i.request /\ Valid(r, clock)
    BY <1>0 DEF Retain
<1>2. op \in Known
    BY <1>0, <1>1, LocalParts DEF DeliveryInv, Idle
<1>3. i \in Intent /\ clock \in Times
    BY <1>2, EntryParts DEF DeliveryInv, DeliveryTypeOK
<1>4. e \in Retained /\ e \notin Committed
    BY <1>3 DEF Retained, Committed
<1>5. journal'[op] = e
    BY <1>1, <1>2 DEF Known
<1>6. ValidIntent(i) /\ i.created <= clock
    BY <1>1, <1>2 DEF JournalLoads, ValidJournal, ValidEntry, LastEventAt, IsCommitted, HasResponse
<1>7. ValidEntry(op)'
    BY <1>1, <1>5, <1>6 DEF ValidEntry, HasResponse, IsCommitted
<1>8. \A p \in Processes \ {q} : local[p].pc # "recovering"
    BY <1>1 DEF Unlocked
<1> HIDE DEF i, e
<1> QED
    BY <1>1, <1>2, <1>4, <1>7, <1>8, EntryWritten

\* The evidence is a past of the high-water store and holds the receipt.
LEMMA AcknowledgeKeeps ==
    ASSUME DeliveryInv, NEW q \in Processes, Acknowledge(q) PROVE DeliveryInv'
<1>0. PICK op, s : op = local[q].op /\ s = local[q].evidence
    OBVIOUS
<1> DEFINE e == [state |-> "COMMITTED_RECEIPT", intent |-> journal[op].intent,
                 response |-> journal[op].response, retainedAt |-> journal[op].retainedAt,
                 evidence |-> s, reconciledAt |-> local[q].now]
<1>1. /\ UNCHANGED <<highWater, clock>> /\ local' = [local EXCEPT ![q] = Idle]
      /\ journal' = [journal EXCEPT ![op] = e]
      /\ local[q].pc = "recovering" /\ Bound(s, op)
    BY <1>0 DEF Acknowledge
<1>2. op \in Known /\ s \in HighWaterState /\ local[q].now \in Times
    BY <1>0, <1>1, LocalParts DEF DeliveryInv, Idle
<1>3. RecoveryInv(q)
    BY DEF DeliveryInv
<1>4. HasResponse(op) /\ ~IsCommitted(op)
    BY <1>0, <1>1, <1>3 DEF RecoveryInv, HasResponse, IsCommitted
<1>5. e \in Committed
    BY <1>2, <1>4, EntryParts DEF Committed, DeliveryInv
<1>6. journal'[op] = e
    BY <1>1, <1>2 DEF Known
<1>7. ValidEntry(op)'
  <2>1. ValidEntry(op)
      BY <1>2 DEF DeliveryInv, StoresLoad, ValidJournal
  <2>2. /\ Has(s, op) /\ ReceiptOf(s, op).response = journal[op].response
        /\ journal[op].retainedAt <= ReceiptOf(s, op).at
      BY <1>1 DEF Bound
  <2>3. /\ ValidState(s) /\ s.at <= local[q].now
        /\ journal[op].retainedAt <= local[q].now
      BY <1>0, <1>1, <1>3 DEF RecoveryInv
  <2> QED
      BY <1>4, <1>6, <2>1, <2>2, <2>3 DEF ValidEntry, HasResponse, IsCommitted, Bound
<1>8. \A p \in Processes \ {q} : local[p].pc # "recovering"
    BY <1>1 DEF DeliveryInv, OneRecovers
<1>9. IsPast(s)
    BY <1>0, <1>1, <1>3 DEF RecoveryInv
<1>10. e.response = journal[op].response /\ e.evidence = s
    OBVIOUS
<1> HIDE DEF e
<1> QED
    BY <1>1, <1>2, <1>5, <1>7, <1>8, <1>9, <1>10, EntryWritten

-----------------------------------------------------------------------------
(* The step that writes to the high-water store.                           *)

LEMMA ApplyRetainedKeeps ==
    ASSUME DeliveryInv, NEW q \in Processes, ApplyRetained(q) PROVE DeliveryInv'
<1> DEFINE op == local[q].op
           r == local[q].response
           n == Len(highWater.history)
<1>1. /\ UNCHANGED <<clock, journal>> /\ local' = [local EXCEPT ![q] = Idle]
      /\ local[q].pc = "applying"
      /\ Apply(op, r) \/ ApplyRetry(op, r)
    BY DEF ApplyRetained
<1>2. CASE ApplyRetry(op, r)
  <2>1. Abandon(q)
      BY <1>1, <1>2 DEF Abandon, ApplyRetry, Idle
  <2> QED
      BY <2>1, AbandonKeeps
<1>3. CASE Apply(op, r)
  <2>1. op \in Known /\ op \in Operations /\ r \in Responses
      BY <1>1, LocalParts DEF DeliveryInv, DeliveryTypeOK, Idle
  <2>2. HasResponse(op) /\ journal[op].response = r
      BY <1>1 DEF DeliveryInv, ApplicationInv
  <2>3. /\ highWater' \in HighWaterState /\ ValidState(highWater')
        /\ Len(highWater'.history) = n + 1
        /\ highWater'.history[n + 1] = ReceiptFor(op, r, highWater.mark, clock)
        /\ \A i \in 1..n : highWater'.history[i] = highWater.history[i]
      BY <1>3, <2>1, ApplyWrites DEF DeliveryInv, DeliveryTypeOK
  <2>4. /\ n \in Nat /\ DOMAIN highWater.history = 1..n
        /\ DOMAIN highWater'.history = 1..(n + 1)
      BY <2>3, HistoryParts DEF DeliveryInv, DeliveryTypeOK
  <2>5. HistoryGrows
      BY <2>3, <2>4 DEF HistoryGrows
  <2>6. /\ Known' = Known /\ \A o : journal'[o] = journal[o]
        /\ ResponsesStay
      BY <1>1 DEF Known, ResponsesStay, HasResponse
  <2>7. /\ local' \in [Processes -> Local]
        /\ \A p \in Processes : local'[p] # Idle => local'[p].op \in Known'
        /\ OneRecovers'
        /\ \A p \in Processes : RecoveryInv(p)' /\ ApplicationInv(p)'
      BY <1>1, <2>3, <2>5, <2>6, StepEnds
  <2>8. DeliveryTypeOK'
      BY <1>1, <2>3, <2>6, <2>7 DEF DeliveryInv, DeliveryTypeOK
  <2>9. StoresLoad'
    <3>1. \A o \in Known' : ValidEntry(o)'
        BY <2>6, EntryStays DEF DeliveryInv, StoresLoad, ValidJournal
    <3> QED
        BY <2>3, <2>6, <3>1 DEF DeliveryInv, StoresLoad, ValidJournal
  <2>10. EvidenceIsHistory'
    <3> SUFFICES ASSUME NEW o \in Known, IsCommitted(o)
                 PROVE  LET h == journal[o].evidence.history IN
                        /\ Len(h) <= Len(highWater'.history)
                        /\ \A i \in DOMAIN h : h[i] = highWater'.history[i]
        BY <1>1, <2>6 DEF EvidenceIsHistory, IsCommitted
    <3>1. journal[o].evidence \in HighWaterState
        BY EntryParts DEF DeliveryInv
    <3>2. IsPast(journal[o].evidence)
        BY DEF DeliveryInv, EvidenceIsHistory, IsPast
    <3> QED
        BY <2>3, <2>5, <3>1, <3>2, PastStays DEF DeliveryInv, DeliveryTypeOK
  <2>11. AppliedWasRetained'
    <3> SUFFICES ASSUME NEW i \in 1..(n + 1)
                 PROVE  LET receipt == highWater'.history[i] IN
                        /\ receipt.op \in Known
                        /\ HasResponse(receipt.op)
                        /\ journal[receipt.op].response = receipt.response
        BY <1>1, <2>4, <2>6 DEF AppliedWasRetained, HasResponse
    <3>1. CASE i = n + 1
        BY <2>1, <2>2, <2>3, <3>1 DEF ReceiptFor
    <3>2. CASE i # n + 1
      <4>1. i \in DOMAIN highWater.history
          BY <2>4, <3>2
      <4> QED
          BY <2>3, <2>4, <4>1 DEF DeliveryInv, AppliedWasRetained
    <3> QED
        BY <3>1, <3>2
  <2>12. IsFiniteSet(Known)'
      BY <2>6 DEF DeliveryInv
  <2> QED
      BY <2>7, <2>8, <2>9, <2>10, <2>11, <2>12 DEF DeliveryInv
<1> QED
    BY <1>1, <1>2, <1>3
-----------------------------------------------------------------------------
(* The invariant and what follows from it.                                 *)

LEMMA DeliveryStarts == DeliveryInit => DeliveryInv
<1> SUFFICES ASSUME DeliveryInit PROVE DeliveryInv
    OBVIOUS
<1>1. /\ highWater = [mark |-> Anchor, at |-> AnchorTime, history |-> <<>>]
      /\ clock = AnchorTime /\ journal = <<>> /\ local = [q \in Processes |-> Idle]
    BY DEF DeliveryInit, HighWaterInit
<1>2. /\ Known = {} /\ IsFiniteSet(Known) /\ Cardinality(Known) = 0
    BY <1>1, FS_EmptySet DEF Known
<1>3. /\ highWater \in HighWaterState /\ clock \in Times
      /\ highWater.history = <<>> /\ Len(highWater.history) = 0
      /\ DOMAIN highWater.history = {}
    BY <1>1, HighWaterConstants DEF HighWaterState
<1>4. Idle \in Local
    BY DEF Local
<1>5. DeliveryTypeOK
    BY <1>1, <1>2, <1>3, <1>4 DEF DeliveryTypeOK
<1>6. ValidState(highWater)
    BY <1>1, <1>3, HighWaterConstants DEF ValidState, MarkAt, TimeAt
<1>7. ValidJournal
    BY <1>2, DeliveryConstants DEF ValidJournal
<1>8. EvidenceIsHistory /\ AppliedWasRetained
    BY <1>2, <1>3 DEF EvidenceIsHistory, AppliedWasRetained
<1>9. OneRecovers /\ \A q \in Processes : RecoveryInv(q) /\ ApplicationInv(q)
    BY <1>1 DEF OneRecovers, RecoveryInv, ApplicationInv, Idle
<1> QED
    BY <1>2, <1>5, <1>6, <1>7, <1>8, <1>9 DEF DeliveryInv, StoresLoad

LEMMA DeliveryStutters == ASSUME DeliveryInv, UNCHANGED vars PROVE DeliveryInv'
<1>1. UNCHANGED <<highWater, clock, journal, local>>
    BY DEF vars
<1>2. Known' = Known /\ HistoryGrows /\ ResponsesStay
    BY <1>1, HistoryParts
    DEF Known, HistoryGrows, ResponsesStay, HasResponse, DeliveryInv, DeliveryTypeOK
<1>3. /\ IsFiniteSet(Known)' /\ StoresLoad' /\ EvidenceIsHistory' /\ AppliedWasRetained'
      /\ highWater' \in HighWaterState /\ Known' \subseteq Operations
      /\ \A op \in Known' : journal'[op] \in Awaiting \cup Retained \cup Committed
    BY <1>1, StoresUntouched
<1>4. DeliveryTypeOK' /\ OneRecovers'
    BY <1>1, <1>2, <1>3 DEF DeliveryInv, DeliveryTypeOK, OneRecovers
<1>5. \A q \in Processes : RecoveryInv(q)' /\ ApplicationInv(q)'
    BY <1>1, <1>2, <1>3, RecoveryStays, ApplicationStays
<1> QED
    BY <1>3, <1>4, <1>5 DEF DeliveryInv

LEMMA DeliverySteps == DeliveryInv /\ [DeliveryNext]_vars => DeliveryInv'
<1> SUFFICES ASSUME DeliveryInv, [DeliveryNext]_vars PROVE DeliveryInv'
    OBVIOUS
<1>1. CASE Tick
    BY <1>1, TickKeeps
<1>2. ASSUME NEW op \in Operations, NEW i \in Intent, Register(op, i) PROVE DeliveryInv'
    BY <1>2, RegisterKeeps
<1>3. ASSUME NEW q \in Processes, ProcessStep(q) PROVE DeliveryInv'
  <2>1. ASSUME NEW op \in Operations, BeginReceive(q, op) \/ BeginRecover(q, op)
        PROVE  DeliveryInv'
      BY <2>1, BeginReceiveKeeps, BeginRecoverKeeps
  <2>2. ASSUME NEW r \in Responses, Retain(q, r) PROVE DeliveryInv'
      BY <2>2, RetainKeeps
  <2>3. CASE Acknowledge(q)
      BY <2>3, AcknowledgeKeeps
  <2>4. CASE Propose(q)
      BY <2>4, ProposeKeeps
  <2>5. CASE ApplyRetained(q)
      BY <2>5, ApplyRetainedKeeps
  <2>6. CASE Abandon(q)
      BY <2>6, AbandonKeeps
  <2> QED
      BY <1>3, <2>1, <2>2, <2>3, <2>4, <2>5, <2>6 DEF ProcessStep
<1>4. CASE UNCHANGED vars
    BY <1>4, DeliveryStutters
<1> QED
    BY <1>1, <1>2, <1>3, <1>4 DEF DeliveryNext

LEMMA DeliveryInvariant == DeliverySpec => []DeliveryInv
<1>1. DeliveryInit => DeliveryInv
    BY DeliveryStarts
<1>2. DeliveryInv /\ [DeliveryNext]_vars => DeliveryInv'
    BY DeliverySteps
<1> QED
    BY <1>1, <1>2, PTL DEF DeliverySpec

\* Journal, high-water store and the steps under way keep their types, and a step
\* belongs to an operation that is registered (decode_journal_record,
\* decode_client_record).
THEOREM DeliveryTypes == DeliverySpec => []DeliveryTypeOK
<1>1. DeliveryInv => DeliveryTypeOK
    BY DEF DeliveryInv
<1> QED
    BY <1>1, DeliveryInvariant, PTL

\* No sequence of calls, crashes and clock jumps leaves a store whose own history
\* its loader refuses (_validate of both stores).
THEOREM ClientStoresLoad == DeliverySpec => []StoresLoad
<1>1. DeliveryInv => StoresLoad
    BY DEF DeliveryInv
<1> QED
    BY <1>1, DeliveryInvariant, PTL

\* The journal closes operations only on receipts that the high-water store holds
\* and keeps, although it reads that store before it commits (_transaction).
THEOREM EvidenceStaysHistory == DeliverySpec => []EvidenceIsHistory
<1>1. DeliveryInv => EvidenceIsHistory
    BY DEF DeliveryInv
<1> QED
    BY <1>1, DeliveryInvariant, PTL

\* What was applied is on disk in the journal, byte for byte (apply_retained).
THEOREM AppliedIsRetained == DeliverySpec => []AppliedWasRetained
<1>1. DeliveryInv => AppliedWasRetained
    BY DEF DeliveryInv
<1> QED
    BY <1>1, DeliveryInvariant, PTL

-----------------------------------------------------------------------------
(* Refinement.                                                             *)

\* The pairs that the abstract chain calls accepted.
AcceptedPairs ==
    {<<highWater.history[i].op, highWater.history[i].response.envelope>> :
        i \in DOMAIN highWater.history}
Closed == {op \in Known : IsCommitted(op)}

\* An application that writes is an acceptance of the chain.
LEMMA ApplyAccepts ==
    ASSUME DeliveryInv, NEW q \in Processes, ApplyRetained(q),
           Apply(local[q].op, local[q].response)
    PROVE  Chain!Next
<1> DEFINE op == local[q].op
           r == local[q].response
           n == Len(highWater.history)
<1>1. UNCHANGED journal /\ local[q].pc = "applying"
    BY DEF ApplyRetained
<1>2. op \in Operations /\ r \in Responses /\ r.envelope \in Envelopes
    BY <1>1, LocalParts, HighWaterConstants DEF DeliveryInv, DeliveryTypeOK, Idle
<1>3. ~Has(highWater, op) /\ Accepts(highWater.mark, r.envelope)
    BY DEF Apply
<1>4. /\ highWater' \in HighWaterState /\ Len(highWater'.history) = n + 1
      /\ highWater'.history[n + 1] = ReceiptFor(op, r, highWater.mark, clock)
      /\ \A i \in 1..n : highWater'.history[i] = highWater.history[i]
      /\ highWater'.mark = r.envelope
    BY <1>2, ApplyWrites DEF DeliveryInv, DeliveryTypeOK
<1>5. /\ n \in Nat /\ DOMAIN highWater.history = 1..n
      /\ DOMAIN highWater'.history = 1..(n + 1)
    BY <1>4, HistoryParts DEF DeliveryInv, DeliveryTypeOK
<1>6. \A a \in AcceptedPairs : a[1] # op
    BY <1>3 DEF AcceptedPairs, Has
<1>7. AcceptedPairs' = AcceptedPairs \cup {<<op, r.envelope>>}
  <2> DEFINE Pair(i) == <<highWater.history[i].op, highWater.history[i].response.envelope>>
             New(i) == <<highWater'.history[i].op, highWater'.history[i].response.envelope>>
  <2>1. \A i \in 1..n : New(i) = Pair(i)
      BY <1>4
  <2>2. New(n + 1) = <<op, r.envelope>>
      BY <1>4 DEF ReceiptFor
  <2>3. 1..(n + 1) = (1..n) \cup {n + 1}
      BY <1>5
  <2>4. AcceptedPairs = {Pair(i) : i \in 1..n} /\ AcceptedPairs' = {New(i) : i \in 1..(n + 1)}
      BY <1>5 DEF AcceptedPairs
  <2> HIDE DEF Pair, New, n, op, r
  <2> QED
      BY <2>1, <2>2, <2>3, <2>4
<1>8. Closed' = Closed
    BY <1>1 DEF Closed, Known, IsCommitted
<1>9. r.envelope = highWater.mark \/ Chain!Follows(highWater.mark, r.envelope)
    BY <1>3 DEF Accepts, Advances, Chain!Follows
<1> QED
    BY <1>2, <1>4, <1>6, <1>7, <1>8, <1>9
    DEF Chain!Next, Chain!Accept, AcceptedPairs, Closed

\* The journal's acknowledgement is one of the chain: the receipt was there.
LEMMA AcknowledgeAcknowledges ==
    ASSUME DeliveryInv, NEW q \in Processes, Acknowledge(q)
    PROVE  Chain!Next
<1>0. PICK op, s : op = local[q].op /\ s = local[q].evidence
    OBVIOUS
<1> DEFINE e == [state |-> "COMMITTED_RECEIPT", intent |-> journal[op].intent,
                 response |-> journal[op].response, retainedAt |-> journal[op].retainedAt,
                 evidence |-> s, reconciledAt |-> local[q].now]
<1>1. /\ highWater' = highWater /\ local[q].pc = "recovering" /\ Bound(s, op)
      /\ journal' = [journal EXCEPT ![op] = e] /\ e.state = "COMMITTED_RECEIPT"
    BY <1>0 DEF Acknowledge
<1> HIDE DEF e
<1>2. op \in Known /\ op \in Operations /\ s \in HighWaterState
    BY <1>0, <1>1, LocalParts DEF DeliveryInv, DeliveryTypeOK, Idle
<1>3. IsPast(s) /\ ~IsCommitted(op)
    BY <1>0, <1>1 DEF DeliveryInv, RecoveryInv, IsCommitted
<1>4. \E a \in AcceptedPairs : a[1] = op
  <2>1. PICK i \in DOMAIN s.history : s.history[i].op = op
      BY <1>1 DEF Bound, Has
  <2>2. i \in DOMAIN highWater.history /\ highWater.history[i].op = op
      BY <1>2, <1>3, <2>1, HistoryParts DEF IsPast, DeliveryInv, DeliveryTypeOK
  <2>3. <<op, highWater.history[i].response.envelope>> \in AcceptedPairs
      BY <2>2 DEF AcceptedPairs
  <2> QED
      BY <2>3
<1>5. Closed' = Closed \cup {op} /\ op \notin Closed
    BY <1>1, <1>2, <1>3 DEF Closed, Known, IsCommitted
<1>6. AcceptedPairs' = AcceptedPairs
    BY <1>1 DEF AcceptedPairs
<1> QED
    BY <1>1, <1>2, <1>4, <1>5, <1>6
    DEF Chain!Next, Chain!Acknowledge, AcceptedPairs, Closed

\* All other steps stutter.
LEMMA OthersStutter ==
    ASSUME DeliveryInv, highWater' = highWater, ResponsesStay,
           \A op \in Known' : IsCommitted(op)' <=> op \in Known /\ IsCommitted(op)
    PROVE  UNCHANGED Chain!vars
<1>1. Closed' = Closed
    BY DEF Closed, ResponsesStay
<1> QED
    BY <1>1 DEF Chain!vars, Closed

\* However responses are lost, repeated, reordered or forked, every step of the two
\* stores accepts one new operation on the unbroken chain, acknowledges an accepted
\* one, or leaves the chain alone (apply, recover).
THEOREM DeliveryImplementsChain == DeliverySpec => ImplementsChain
<1>1. DeliveryInit => Chain!Init
  <2> SUFFICES ASSUME DeliveryInit PROVE Chain!Init
      OBVIOUS
  <2>1. highWater.history = <<>> /\ highWater.mark = Anchor /\ journal = <<>>
      BY DEF DeliveryInit, HighWaterInit
  <2>2. DOMAIN highWater.history = {} /\ Known = {}
      BY <2>1 DEF Known
  <2> QED
      BY <2>1, <2>2 DEF Chain!Init
<1>2. DeliveryInv /\ [DeliveryNext]_vars => [Chain!Next]_(Chain!vars)
  <2> SUFFICES ASSUME DeliveryInv, [DeliveryNext]_vars
               PROVE  Chain!Next \/ UNCHANGED Chain!vars
      OBVIOUS
  <2>1. CASE UNCHANGED <<highWater, journal>>
    <3>1. Known' = Known /\ \A op : IsCommitted(op)' <=> IsCommitted(op)
        BY <2>1 DEF Known, IsCommitted
    <3>2. ResponsesStay
        BY <2>1 DEF ResponsesStay, Known, HasResponse
    <3> QED
        BY <2>1, <3>1, <3>2, OthersStutter
  <2>2. ASSUME NEW op \in Operations, NEW i \in Intent, Register(op, i)
        PROVE  UNCHANGED Chain!vars
    <3>1. /\ highWater' = highWater /\ op \notin Known /\ Known' = Known \cup {op}
          /\ journal'[op].state = "AWAITING_RESPONSE"
          /\ \A o \in Known : journal'[o] = journal[o]
        BY <2>2 DEF Register, Known
    <3> QED
        BY <3>1, OthersStutter DEF ResponsesStay, HasResponse, IsCommitted
  <2>3. ASSUME NEW q \in Processes, NEW r \in Responses, Retain(q, r)
        PROVE  UNCHANGED Chain!vars
    <3>0. PICK op : op = local[q].op
        OBVIOUS
    <3> DEFINE e == [state |-> "RETAINED_RESPONSE", intent |-> journal[op].intent,
                     response |-> r, retainedAt |-> clock]
    <3>1. /\ highWater' = highWater /\ ~HasResponse(op) /\ local[q].pc = "receiving"
          /\ journal' = [journal EXCEPT ![op] = e] /\ e.state = "RETAINED_RESPONSE"
        BY <2>3, <3>0 DEF Retain
    <3> HIDE DEF e
    <3>2. op \in Known
        BY <3>0, <3>1, LocalParts DEF DeliveryInv, Idle
    <3> QED
        BY <3>1, <3>2, OthersStutter DEF ResponsesStay, Known, HasResponse, IsCommitted
  <2>4. ASSUME NEW q \in Processes, Acknowledge(q) PROVE Chain!Next
      BY <2>4, AcknowledgeAcknowledges
  <2>5. ASSUME NEW q \in Processes, ApplyRetained(q)
        PROVE  Chain!Next \/ UNCHANGED Chain!vars
    <3>1. CASE Apply(local[q].op, local[q].response)
        BY <2>5, <3>1, ApplyAccepts
    <3>2. CASE ApplyRetry(local[q].op, local[q].response)
        BY <2>1, <2>5, <3>2 DEF ApplyRetained, ApplyRetry
    <3> QED
        BY <2>5, <3>1, <3>2 DEF ApplyRetained
  <2> QED
      BY <2>1, <2>2, <2>3, <2>4, <2>5
      DEF vars, DeliveryNext, ProcessStep, Tick, BeginReceive, BeginRecover, Propose, Abandon
<1> QED
    BY <1>1, <1>2, DeliveryInvariant, PTL DEF DeliverySpec, ImplementsChain, Chain!Spec
=============================================================================
