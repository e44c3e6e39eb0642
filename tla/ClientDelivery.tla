--------------------------- MODULE ClientDelivery ---------------------------
(***************************************************************************)
(* The client's request journal, its delivery steps, and the high-water    *)
(* store they update (provenance/client_request_journal_logic.py and       *)
(* _store.py, provenance/delivery_journal_integration.py).                 *)
(*                                                                         *)
(* An operation is registered, waits for a signed response, retains it,    *)
(* and is committed when the journal has seen the receipt of the           *)
(* high-water store.  The two stores are separate databases: a process may *)
(* stop between any two commits, answers may be lost, duplicated or        *)
(* reordered, and several processes may work on one operation.  Recovery   *)
(* holds the journal's lock while it reads the other store, and that store *)
(* may move before the journal commits.                                    *)
(*                                                                         *)
(* The two stores are reached through the delivery steps only; a host that *)
(* applies other observations to the high-water store by itself would use  *)
(* operation ids that the journal does not.                                *)
(***************************************************************************)
EXTENDS ClientHighWater, FiniteSets

CONSTANTS
    Processes,      \* clients that share the two databases
    WindowOf,       \* request |-> <<timestamp, expiry>>
    MaxOperations,  \* bound of the code: 64
    Steady          \* whether the wall clock is never set back

ASSUME DeliveryConstants ==
    /\ WindowOf \in [Requests -> Times \X Times]
    /\ \A r \in Responses : WindowOf[r.request][1] <= r.from /\ r.until <= WindowOf[r.request][2]
    /\ MaxOperations \in Nat
    /\ Steady \in BOOLEAN

VARIABLES
    journal,        \* operation |-> its entry
    local           \* process |-> the delivery step under way

vars == <<highWater, clock, journal, local>>

Intent == [request : Requests, created : Times, expires : Times]

\* ClientJournalEntry: a response from RETAINED_RESPONSE on, evidence when COMMITTED_RECEIPT.
Awaiting == [state : {"AWAITING_RESPONSE"}, intent : Intent]
Retained == [state : {"RETAINED_RESPONSE"}, intent : Intent, response : Responses,
             retainedAt : Times]
Committed == [state : {"COMMITTED_RECEIPT"}, intent : Intent, response : Responses,
              retainedAt : Times, evidence : HighWaterState, reconciledAt : Times]

Idle == [pc |-> "idle"]
Local == {Idle}
    \cup [pc : {"receiving"}, op : Operations]
    \cup [pc : {"recovering"}, op : Operations, evidence : HighWaterState, now : Times]
    \cup [pc : {"applying"}, op : Operations, response : Responses]

Known == DOMAIN journal
HasResponse(op) == journal[op].state # "AWAITING_RESPONSE"
IsCommitted(op) == journal[op].state = "COMMITTED_RECEIPT"

-----------------------------------------------------------------------------
(* Loading the journal.                                                    *)

LastEventAt(op) ==
    IF IsCommitted(op) THEN journal[op].reconciledAt
    ELSE IF HasResponse(op) THEN journal[op].retainedAt
    ELSE journal[op].intent.created

\* Receipt of op in state s, bound to the response the journal retained.
Bound(s, op) ==
    /\ Has(s, op)
    /\ ReceiptOf(s, op).response = journal[op].response
    /\ journal[op].retainedAt <= ReceiptOf(s, op).at

ValidIntent(i) ==
    /\ AnchorTime <= i.created /\ i.created < i.expires
    /\ WindowOf[i.request][1] <= i.created /\ i.expires <= WindowOf[i.request][2]

ValidEntry(op) ==
    LET e == journal[op] IN
    /\ ValidIntent(e.intent)
    /\ HasResponse(op) =>
          /\ e.intent.created <= e.retainedAt /\ e.retainedAt < e.intent.expires
          /\ e.response.request = e.intent.request
          /\ Valid(e.response, e.retainedAt)
    /\ IsCommitted(op) =>
          /\ e.retainedAt <= e.reconciledAt
          /\ ValidState(e.evidence) /\ e.evidence.at <= e.reconciledAt
          /\ Bound(e.evidence, op)

ValidJournal ==
    /\ Cardinality(Known) <= MaxOperations
    /\ \A op \in Known : ValidEntry(op)

JournalLoads(now) == ValidJournal /\ \A op \in Known : LastEventAt(op) <= now

\* Nobody holds the journal's write lock.
Unlocked == \A q \in Processes : local[q].pc # "recovering"

-----------------------------------------------------------------------------

\* The host's clock moves, and unless it is steady it may be set back.
Tick ==
    /\ clock' \in Times
    /\ Steady => clock < clock'
    /\ UNCHANGED <<highWater, journal, local>>

Register(op, intent) ==
    /\ Unlocked
    /\ JournalLoads(clock)
    /\ op \notin Known
    /\ Cardinality(Known) < MaxOperations
    /\ ValidIntent(intent)
    /\ intent.created = clock
    /\ journal' = [o \in Known \cup {op} |->
                     IF o = op THEN [state |-> "AWAITING_RESPONSE", intent |-> intent]
                     ELSE journal[o]]
    /\ UNCHANGED <<highWater, clock, local>>

\* A request is sent only for an entry that waits; the read takes no lock.
BeginReceive(q, op) ==
    /\ local[q] = Idle
    /\ JournalLoads(clock)
    /\ op \in Known /\ ~HasResponse(op)
    /\ clock < journal[op].intent.expires
    /\ local' = [local EXCEPT ![q] = [pc |-> "receiving", op |-> op]]
    /\ UNCHANGED <<highWater, clock, journal>>

\* Fault: a response replaces one that was retained while it was under way.
Retain_Overwrites(q, r) ==
    /\ local[q].pc = "receiving"
    /\ Unlocked
    /\ JournalLoads(clock)
    /\ LET op == local[q].op
           i == journal[op].intent
       IN  /\ ~IsCommitted(op)
           /\ clock < i.expires
           /\ r.request = i.request /\ Valid(r, clock)
           /\ journal' = [journal EXCEPT ![op] =
                [state |-> "RETAINED_RESPONSE", intent |-> i, response |-> r, retainedAt |-> clock]]
    /\ local' = [local EXCEPT ![q] = Idle]
    /\ UNCHANGED <<highWater, clock>>

\* Whatever arrives is checked under the lock, against the entry as it is now.
Retain(q, r) ==
    /\ local[q].pc = "receiving"
    /\ Unlocked
    /\ JournalLoads(clock)
    /\ LET op == local[q].op
           i == journal[op].intent
       IN  /\ ~HasResponse(op)
           /\ clock < i.expires
           /\ r.request = i.request /\ Valid(r, clock)
           /\ journal' = [journal EXCEPT ![op] =
                [state |-> "RETAINED_RESPONSE", intent |-> i, response |-> r, retainedAt |-> clock]]
    /\ local' = [local EXCEPT ![q] = Idle]
    /\ UNCHANGED <<highWater, clock>>

\* Recovery takes the lock and reads the other store.  Without evidence, and for
\* entries that wait or are committed, it changes nothing.
BeginRecover(q, op) ==
    /\ local[q] = Idle
    /\ Unlocked
    /\ JournalLoads(clock)
    /\ op \in Known /\ journal[op].state = "RETAINED_RESPONSE"
    /\ HighWaterLoads(clock)
    /\ local' = [local EXCEPT ![q] =
                   [pc |-> "recovering", op |-> op, evidence |-> highWater, now |-> clock]]
    /\ UNCHANGED <<highWater, clock, journal>>

\* Fault: an expired response is refused before the evidence is looked at.
Acknowledge_ExpiryFirst(q) ==
    /\ local[q].pc = "recovering"
    /\ LET op == local[q].op IN
        /\ local[q].now <= clock
        /\ Valid(journal[op].response, clock)
        /\ Bound(local[q].evidence, op)
        /\ journal' = [journal EXCEPT ![op] =
             [state |-> "COMMITTED_RECEIPT", intent |-> journal[op].intent,
              response |-> journal[op].response, retainedAt |-> journal[op].retainedAt,
              evidence |-> local[q].evidence, reconciledAt |-> local[q].now]]
    /\ local' = [local EXCEPT ![q] = Idle]
    /\ UNCHANGED <<highWater, clock>>

\* The evidence holds the receipt: the journal closes the entry.
Acknowledge(q) ==
    /\ local[q].pc = "recovering"
    /\ LET op == local[q].op IN
        /\ local[q].now <= clock
        /\ Bound(local[q].evidence, op)
        /\ journal' = [journal EXCEPT ![op] =
             [state |-> "COMMITTED_RECEIPT", intent |-> journal[op].intent,
              response |-> journal[op].response, retainedAt |-> journal[op].retainedAt,
              evidence |-> local[q].evidence, reconciledAt |-> local[q].now]]
    /\ local' = [local EXCEPT ![q] = Idle]
    /\ UNCHANGED <<highWater, clock>>

\* Fault: the journal acknowledges the receipt it expects, and applies afterwards.
Propose_AcknowledgesFirst(q) ==
    /\ local[q].pc = "recovering"
    /\ LET op == local[q].op
           r == journal[op].response
           s == local[q].evidence
       IN
        /\ ~Has(s, op)
        /\ Valid(r, clock)
        /\ journal' = [journal EXCEPT ![op] =
             [state |-> "COMMITTED_RECEIPT", intent |-> journal[op].intent,
              response |-> r, retainedAt |-> journal[op].retainedAt,
              evidence |-> [s EXCEPT !.history = Append(@, ReceiptFor(op, r, s.mark, clock))],
              reconciledAt |-> local[q].now]]
        /\ local' = [local EXCEPT ![q] = [pc |-> "applying", op |-> op, response |-> r]]
    /\ UNCHANGED <<highWater, clock>>

\* The evidence holds no receipt and the response still counts: READY_TO_APPLY.
Propose(q) ==
    /\ local[q].pc = "recovering"
    /\ LET op == local[q].op IN
        /\ local[q].now <= clock
        /\ ~Has(local[q].evidence, op)
        /\ clock < journal[op].intent.expires
        /\ Valid(journal[op].response, clock)
        /\ local' = [local EXCEPT ![q] =
                       [pc |-> "applying", op |-> op, response |-> journal[op].response]]
    /\ UNCHANGED <<highWater, clock, journal>>

\* The high-water store decides again, under its own lock.
ApplyRetained(q) ==
    /\ local[q].pc = "applying"
    /\ \/ Apply(local[q].op, local[q].response)
       \/ ApplyRetry(local[q].op, local[q].response)
    /\ local' = [local EXCEPT ![q] = Idle]
    /\ UNCHANGED <<clock, journal>>

\* A step ends without a write: a refusal, a lost answer, a rollback, a crash.
Abandon(q) ==
    /\ local[q] # Idle
    /\ local' = [local EXCEPT ![q] = Idle]
    /\ UNCHANGED <<highWater, clock, journal>>

-----------------------------------------------------------------------------

DeliveryInit ==
    /\ HighWaterInit
    /\ journal = <<>>
    /\ local = [q \in Processes |-> Idle]

ProcessStep(q) ==
    \/ \E op \in Operations : BeginReceive(q, op) \/ BeginRecover(q, op)
    \/ \E r \in Responses : Retain(q, r)
    \/ Acknowledge(q)
    \/ Propose(q)
    \/ ApplyRetained(q)
    \/ Abandon(q)

DeliveryNext ==
    \/ Tick
    \/ \E op \in Operations, i \in Intent : Register(op, i)
    \/ \E q \in Processes : ProcessStep(q)

DeliverySpec == DeliveryInit /\ [][DeliveryNext]_vars

\* A step under way ends: transactions are straight-line code, and a receive has
\* a deadline.
Ends(q) ==
    \/ \E r \in Responses : Retain(q, r)
    \/ Acknowledge(q) \/ Propose(q) \/ ApplyRetained(q) \/ Abandon(q)

AcknowledgeOf(op) == \E q \in Processes : Acknowledge(q) /\ local[q].op = op

\* The host calls `recover` again and again while an entry is not closed, and not
\* every call is cut short.  The code retries nothing; its documentation asks the
\* host to apply and then to invoke recovery again.
HostRecovers(op) ==
    /\ SF_vars(\E q \in Processes : BeginRecover(q, op))
    /\ SF_vars(AcknowledgeOf(op))

Fairness ==
    /\ \A q \in Processes : WF_vars(Ends(q))
    /\ \A op \in Operations : HostRecovers(op)

FairDeliverySpec == DeliverySpec /\ Fairness

-----------------------------------------------------------------------------
(* Properties.                                                             *)

\* The types of the variables; a step under way belongs to a known operation.
DeliveryTypeOK ==
    /\ highWater \in HighWaterState /\ clock \in Times
    /\ Known \subseteq Operations
    /\ \A op \in Known : journal[op] \in Awaiting \cup Retained \cup Committed
    /\ local \in [Processes -> Local]
    /\ \A q \in Processes : local[q] # Idle => local[q].op \in Known

\* Both stores accept their own history, whatever the clock did in between: an
\* entry that the loader refused would block all operations of that store.
StoresLoad == ValidState(highWater) /\ ValidJournal

\* What the journal keeps as evidence is a past state of the high-water store:
\* no operation is closed whose receipt that store does not hold, unchanged.
EvidenceIsHistory ==
    \A op \in Known : IsCommitted(op) =>
        LET h == journal[op].evidence.history IN
        /\ Len(h) <= Len(highWater.history)
        /\ \A i \in DOMAIN h : h[i] = highWater.history[i]

\* The response behind a receipt is on disk in the journal: whoever recovers
\* after a crash finds the very bytes that were applied, and no others.
AppliedWasRetained ==
    \A i \in DOMAIN highWater.history :
        LET receipt == highWater.history[i] IN
        /\ receipt.op \in Known
        /\ HasResponse(receipt.op)
        /\ journal[receipt.op].response = receipt.response

Chain == INSTANCE AcceptedChain WITH
    mark <- highWater.mark,
    accepted <- {<<highWater.history[i].op, highWater.history[i].response.envelope>> :
                    i \in DOMAIN highWater.history},
    acknowledged <- {op \in Known : IsCommitted(op)}

\* However responses are lost, repeated, reordered or forked, the two stores
\* accept each operation at most once, along one unbroken chain of envelopes.
ImplementsChain == Chain!Spec

\* A receipt of a retained operation is one that recovery can acknowledge; so the
\* documentation says of a commit whose acknowledgement was lost.
ReceiptsCanBeAcknowledged ==
    \A op \in Known : HasResponse(op) /\ Has(highWater, op) => Bound(highWater, op)

\* What was applied is acknowledged in the end, also after it expired and after
\* the mark moved on, if the host keeps recovering.
AppliedIsAcknowledged ==
    \A op \in Operations :
        Has(highWater, op) ~> (op \in Known /\ IsCommitted(op))
=============================================================================
