--------------------------- MODULE CustodyBroker ---------------------------
(***************************************************************************)
(* The signing service (key_custody_ipc.py): a sequential broker that      *)
(* issues a token for an attempt, signs for it once and remembers what     *)
(* that came to, and clients that may lose any answer.  Permissions are    *)
(* asked of a host callback, which may answer differently every time.      *)
(*                                                                         *)
(* A token is its number: only the broker can make one (its MAC), but any  *)
(* authenticated client may present any.  A command whose digest is not    *)
(* the entry's is modelled as the request it names.                        *)
(***************************************************************************)
EXTENDS KeyCustody, FiniteSets

CONSTANTS
  Clients,           \* principals with a credential
  CustodyRequests,   \* requests clients ask a token for
  BrokerPins,        \* custody_inputs
  BrokerExpected,    \* expected_request of custody_inputs
  ConnectionBudget,  \* five seconds
  TokenBudget,       \* budget_ms
  MaxTokens,         \* MAX_TOKENS
  PermissionSets     \* what the authorization callback may allow

ASSUME BrokerConstants ==
  /\ {ConnectionBudget, TokenBudget, MaxTokens} \subseteq Nat
  /\ PermissionSets \subseteq SUBSET (Clients \X {"SIGN", "RECOVER"})

VARIABLES
  permissions,  \* what the authorization callback would allow now
  entries,      \* the broker's tokens
  exchange,     \* the command being served
  told          \* told[t]: what clients were told that token t came to

brokerVars == <<permissions, entries, exchange, told>>

NoResult == "none"
Idle == [at |-> "idle"]

Allowed(client, action) == <<client, action>> \in permissions

Answer(status) == [exchange EXCEPT !.at = "answer", !.status = status]

\* The broker writes down what a token came to, and answers it
Record(t, status) ==
  /\ entries' = [entries EXCEPT ![t].used = TRUE, ![t].result = status]
  /\ exchange' = Answer(status)

Remaining == IF exchange.deadline < entries[exchange.token].deadline
             THEN exchange.deadline ELSE entries[exchange.token].deadline

\* Mutant: an attempt may be issued a second token.
CanIssue_AnyAttempt(r) ==
  /\ Allowed(exchange.client, "SIGN")
  /\ r.signer = exchange.client
  /\ Len(entries) < MaxTokens
  /\ Ready(r, BrokerPins, exchange.client, BrokerExpected, Second(clock))

CanIssue(r) ==
  /\ Allowed(exchange.client, "SIGN")
  /\ r.signer = exchange.client
  /\ Len(entries) < MaxTokens
  /\ \A t \in DOMAIN entries : entries[t].request.attempt # r.attempt
  /\ Ready(r, BrokerPins, exchange.client, BrokerExpected, Second(clock))

(***************************************************************************)
(* serve_connection                                                        *)
(***************************************************************************)
\* A command was read and authenticated with `left' of the connection's time
Receive(client, action, token, r, left) ==
  /\ exchange = Idle
  /\ exchange' = [at |-> action, client |-> client, action |-> action, token |-> token,
                  request |-> r, deadline |-> tick + left,
                  status |-> NoResult, began |-> 0]
  /\ UNCHANGED <<custodyVars, permissions, entries, told>>

\* _issue up to the second authorization
IssueBegins ==
  /\ exchange.at = "ISSUE"
  /\ exchange' = IF CanIssue(exchange.request) THEN [exchange EXCEPT !.at = "issue"]
                 ELSE Answer("REFUSED")
  /\ UNCHANGED <<custodyVars, permissions, entries, told>>

IssueEnds ==
  /\ exchange.at = "issue"
  /\ IF Allowed(exchange.client, "SIGN") /\ tick < exchange.deadline
     THEN /\ entries' = Append(entries,
               [owner |-> exchange.client, request |-> exchange.request,
                deadline |-> IF exchange.deadline < tick + TokenBudget
                             THEN exchange.deadline ELSE tick + TokenBudget,
                used |-> FALSE, result |-> NoResult])
          /\ exchange' = Answer("ISSUED")
     ELSE UNCHANGED entries /\ exchange' = Answer("REFUSED")
  /\ UNCHANGED <<custodyVars, permissions, told>>

Owned(t) == t \in DOMAIN entries /\ entries[t].owner = exchange.client

\* SIGN: an owner's first attempt consumes the token, whatever becomes of it
SignBegins ==
  LET t == exchange.token IN
  /\ exchange.at = "SIGN"
  /\ IF ~Owned(t) \/ entries[t].used
     THEN exchange' = Answer("REFUSED") /\ UNCHANGED entries
     ELSE IF ~Allowed(exchange.client, "SIGN")
          THEN Record(t, "ACCESS_DENIED")
     ELSE IF exchange.request # entries[t].request
          THEN Record(t, "REQUEST_MISMATCH")
     ELSE IF Remaining <= tick
          THEN Record(t, "DEADLINE_EXCEEDED")
     ELSE /\ entries' = [entries EXCEPT ![t].used = TRUE]
          /\ exchange' = [exchange EXCEPT !.at = "dispatch"]
  /\ UNCHANGED <<custodyVars, permissions, told>>

\* The provider's handoff is minted and signed with in one call
Dispatch ==
  LET t == exchange.token
      h == Handoff(t, entries[t].request, Remaining)
      now == Second(clock)
  IN
  /\ exchange.at = "dispatch"
  /\ IF ~Allowed(exchange.client, "SIGN")
     THEN Record(t, "ACCESS_DENIED") /\ UNCHANGED <<handoffs, dispatched>>
     ELSE IF Remaining <= tick
          THEN Record(t, "DEADLINE_EXCEEDED") /\ UNCHANGED <<handoffs, dispatched>>
     ELSE IF ~CanMint(t, h.deadline)  \* raised: an outcome is not known
          THEN Record(t, "OUTCOME_UNKNOWN") /\ UNCHANGED <<handoffs, dispatched>>
     ELSE /\ handoffs' = Append(handoffs, [h EXCEPT !.used = TRUE])
          /\ IF SignStarts(h, BrokerPins, exchange.client, BrokerExpected, now)
             THEN /\ dispatched' = Append(dispatched, h.request.attempt)
                  /\ exchange' = [exchange EXCEPT !.at = "signing", !.began = now]
                  /\ UNCHANGED entries
             ELSE Record(t, "NOT_SIGNED") /\ UNCHANGED dispatched
  /\ UNCHANGED <<tick, keyHeld, permissions, told>>

ProviderReturns(outcome) ==
  LET t == exchange.token
      h == handoffs[Len(handoffs)]
      status == SignEnds(outcome, h, BrokerPins, exchange.client, BrokerExpected,
                         exchange.began, Second(clock))
  IN
  /\ exchange.at = "signing"
  /\ exchange' = [exchange EXCEPT !.at = "returned", !.status = status]
  /\ UNCHANGED <<custodyVars, permissions, entries, told>>

SignEndsAtBroker ==
  /\ exchange.at = "returned"
  /\ Record(exchange.token,
       IF ~Allowed(exchange.client, "SIGN") THEN "ACCESS_DENIED"
       ELSE IF Remaining <= tick THEN "RESULT_DISCARDED" ELSE exchange.status)
  /\ UNCHANGED <<custodyVars, permissions, told>>

\* RECOVER: what is on record, and never the provider
Recover ==
  LET t == exchange.token IN
  /\ exchange.at = "RECOVER"
  /\ exchange' =
       IF ~Allowed(exchange.client, "RECOVER") \/ ~Owned(t)
          \/ exchange.request # entries[t].request THEN Answer("REFUSED")
       ELSE IF entries[t].result = NoResult THEN Answer("NO_RECORDED_OUTCOME")
       ELSE Answer(entries[t].result)
  /\ UNCHANGED <<custodyVars, permissions, entries, told>>

(***************************************************************************)
(* The last check before the answer leaves                                 *)
(***************************************************************************)
Withheld ==
  /\ exchange.action = "SIGN" /\ exchange.status = "VERIFIED"
  /\ ~Allowed(exchange.client, "SIGN") \/ entries[exchange.token].deadline <= tick

\* Mutant: a signature withheld at the last moment stays on record.
OnRecord_Kept == entries

OnRecord ==
  IF Withheld THEN [entries EXCEPT ![exchange.token].result = "RESULT_DISCARDED"]
  ELSE entries

Released ==
  IF Withheld THEN "RESULT_DISCARDED"
  ELSE IF exchange.action = "RECOVER" /\ ~Allowed(exchange.client, "RECOVER") THEN "REFUSED"
  ELSE exchange.status

\* Answers that say what a token came to; the others say why nothing is said
Outcomes ==
  {"ACCESS_DENIED", "REQUEST_MISMATCH", "DEADLINE_EXCEEDED", "OUTCOME_UNKNOWN", "NOT_SIGNED",
   "PROVIDER_FAILED", "RESULT_DISCARDED", "SIGNATURE_INVALID", "VERIFIED"}

\* The client's end of the exchange: whatever goes wrong, it knows nothing
Arrives == tick < exchange.deadline

Reply(arrives) ==
  /\ exchange.at = "answer"
  /\ arrives => Arrives
  /\ entries' = OnRecord
  /\ told' = IF arrives /\ Released \in Outcomes
             THEN [told EXCEPT ![exchange.token] = @ \cup {Released}] ELSE told
  /\ exchange' = Idle
  /\ UNCHANGED <<custodyVars, permissions>>

SetPermissions ==
  /\ permissions' \in PermissionSets
  /\ UNCHANGED <<custodyVars, entries, exchange, told>>

BrokerInit ==
  /\ CustodyInit
  /\ permissions \in PermissionSets
  /\ entries = <<>> /\ exchange = Idle
  /\ told = [t \in 1..MaxTokens |-> {}]

BrokerNext ==
  \/ UNCHANGED clock /\
     \/ \E c \in Clients, r \in CustodyRequests, left \in 1..ConnectionBudget :
          \/ Receive(c, "ISSUE", 0, r, left)
          \/ \E action \in {"SIGN", "RECOVER"}, t \in 1..MaxTokens :
               Receive(c, action, t, r, left)
     \/ IssueBegins \/ IssueEnds \/ SignBegins \/ Dispatch
     \/ \E outcome \in KeyOutcomes : ProviderReturns(outcome)
     \/ SignEndsAtBroker \/ Recover
     \/ \E arrives \in BOOLEAN : Reply(arrives)
     \/ SetPermissions
     \/ Tick /\ UNCHANGED brokerVars
     \/ exchange.at # "signing" /\ CloseProvider /\ UNCHANGED brokerVars
  \/ SetClock /\ UNCHANGED <<custodyVars, brokerVars>>

(***************************************************************************)
(* All that clients are ever told of a token's outcome is one outcome: an  *)
(* answer that was lost is recovered as it was, and a signature withheld   *)
(* once is never handed out by a recovery.                                 *)
(***************************************************************************)
OneOutcomePerToken == \A t \in DOMAIN told : Cardinality(told[t]) <= 1
=============================================================================
