-------------------------- MODULE CustodyHostProofs --------------------------
(***************************************************************************)
(* What the signing service promises, for any clients, requests, windows,  *)
(* clocks and bounds.  The invariant follows one token: until its outcome  *)
(* is written down nobody was told one, and a dispatched attempt is that   *)
(* of a token that is used and will not be dispatched again.  Behind the   *)
(* bridge an attempt is named after the handoff that is minted for it.     *)
(* And of the path that ends at the bridge: what an observation was        *)
(* released under, through every gate that it passed.                      *)
(***************************************************************************)
EXTENDS CustodyHost, TLAPS, FiniteSetTheorems, SequenceTheorems, WellFoundedInduction

Stages ==
  {"ISSUE", "SIGN", "RECOVER", "issue", "dispatch", "signing", "returned", "answer"}
OtherAnswers == {"ISSUED", "REFUSED", "NO_RECORDED_OUTCOME"}

Entry ==
  [owner : Clients, request : CustodyRequests, deadline : Nat, used : BOOLEAN,
   result : Outcomes \cup {NoResult}]

Exchange ==
  [at : Stages, client : Clients, action : {"ISSUE", "SIGN", "RECOVER"}, token : 0..MaxTokens,
   request : CustodyRequests, deadline : Nat,
   status : Outcomes \cup OtherAnswers \cup {NoResult}, began : Int]

Attempts == {r.attempt : r \in CustodyRequests} \cup Nat

Types ==
  /\ user \in {"broker", "bridge"}
  /\ tick \in Nat /\ clock \in Int
  /\ entries \in Seq(Entry) /\ Len(entries) <= MaxTokens
  /\ exchange \in Exchange \cup {Idle}
  /\ told \in [1..MaxTokens -> SUBSET Outcomes]
  /\ dispatched \in Seq(Attempts)
  /\ \E S : handoffs \in Seq(S)

\* Where an exchange stands
Stands ==
  /\ exchange.at \in {"ISSUE", "issue"} => exchange.action = "ISSUE"
  /\ exchange.at = "issue" =>
       /\ Len(entries) < MaxTokens
       /\ \A t \in DOMAIN entries : entries[t].request.attempt # exchange.request.attempt
  /\ exchange.at = "RECOVER" => exchange.action = "RECOVER"
  /\ exchange.at \in {"SIGN", "dispatch", "signing", "returned"} => exchange.action = "SIGN"
  /\ exchange.at \in {"dispatch", "signing", "returned"} =>
       /\ exchange.token \in DOMAIN entries
       /\ entries[exchange.token].used /\ entries[exchange.token].result = NoResult
  /\ exchange.at = "returned" => exchange.status \in Outcomes
  /\ exchange.at = "answer" /\ exchange.status \in Outcomes =>
       /\ exchange.action # "ISSUE"
       /\ exchange.token \in DOMAIN entries
       /\ entries[exchange.token].result = exchange.status
       /\ exchange.action = "SIGN" => told[exchange.token] = {}

\* Tokens have attempts of their own, and an unused one came to nothing
Tokens ==
  /\ \A s, t \in DOMAIN entries : entries[s].request.attempt = entries[t].request.attempt => s = t
  /\ \A t \in DOMAIN entries : ~entries[t].used => entries[t].result = NoResult

ToldAsRecorded ==
  \A t \in 1..MaxTokens : \A o \in told[t] : t \in DOMAIN entries /\ entries[t].result = o

DispatchedByBroker ==
  \A i \in DOMAIN dispatched : \E t \in DOMAIN entries :
    /\ entries[t].used /\ entries[t].request.attempt = dispatched[i]
    /\ exchange.at = "dispatch" => t # exchange.token

DispatchedByBridge ==
  \A i \in DOMAIN dispatched : dispatched[i] \in Nat /\ dispatched[i] <= Len(handoffs)

CustodyInv ==
  /\ Types /\ Stands /\ Tokens /\ ToldAsRecorded /\ OneDispatchPerAttempt
  /\ user = "broker" => DispatchedByBroker
  /\ user = "bridge" => DispatchedByBridge

-----------------------------------------------------------------------------
(* The outcome of a dispatched key operation is one that can be recorded.  *)
LEMMA SignEndsInOutcomes ==
  ASSUME NEW outcome \in KeyOutcomes, NEW h, NEW pins, NEW signer, NEW expected, NEW began, NEW now
  PROVE  SignEnds(outcome, h, pins, signer, expected, began, now) \in Outcomes
BY DEF SignEnds, Outcomes, KeyOutcomes

(* The invariant holds initially.                                          *)
LEMMA CustodyInitially == Init => CustodyInv
<1> SUFFICES ASSUME Init PROVE CustodyInv
  OBVIOUS
<1> USE BrokerConstants
<1>1. Types
  <2>1. handoffs \in Seq({}) /\ dispatched \in Seq(Attempts) /\ entries \in Seq(Entry)
    BY DEF Init, BrokerInit, CustodyInit
  <2>2. told \in [1..MaxTokens -> SUBSET Outcomes]
    BY DEF Init, BrokerInit
  <2>3. user \in {"broker", "bridge"} /\ tick \in Nat /\ clock \in Int /\ Len(entries) <= MaxTokens
        /\ exchange \in Exchange \cup {Idle}
    BY DEF Init, BrokerInit, CustodyInit
  <2> QED BY <2>1, <2>2, <2>3 DEF Types
<1>2. Stands /\ Tokens /\ ToldAsRecorded
  BY DEF Init, BrokerInit, Stands, Tokens, ToldAsRecorded, Idle
<1>3. OneDispatchPerAttempt /\ DispatchedByBroker /\ DispatchedByBridge
  BY DEF Init, BrokerInit, CustodyInit, OneDispatchPerAttempt, DispatchedByBroker, DispatchedByBridge
<1> QED BY <1>1, <1>2, <1>3 DEF CustodyInv


(* Steps that leave alone what the broker and the provider remember.       *)
LEMMA QuietSteps ==
  ASSUME CustodyInv, user' = user, clock' \in Int, tick' \in Nat, UNCHANGED handoffs,
         UNCHANGED dispatched, UNCHANGED entries, UNCHANGED exchange, UNCHANGED told
  PROVE  CustodyInv'
<1>1. Types'
  BY DEF CustodyInv, Types
<1>2. Stands' /\ Tokens' /\ ToldAsRecorded' /\ OneDispatchPerAttempt'
  BY DEF CustodyInv, Stands, Tokens, ToldAsRecorded, OneDispatchPerAttempt
<1>3. (user = "broker" => DispatchedByBroker)'
  BY DEF CustodyInv, DispatchedByBroker
<1>4. (user = "bridge" => DispatchedByBridge)'
  BY DEF CustodyInv, DispatchedByBridge
<1> QED BY <1>1, <1>2, <1>3, <1>4 DEF CustodyInv

(* An exchange that moves on, and leaves entries and dispatches alone.     *)
LEMMA ExchangeMoves ==
  ASSUME CustodyInv, user = "broker", user' = user, UNCHANGED clock, UNCHANGED custodyVars,
         UNCHANGED entries, UNCHANGED told, exchange' \in Exchange \cup {Idle}, Stands',
         exchange'.at # "dispatch"
  PROVE  CustodyInv'
<1> USE DEF custodyVars
<1>1. Types'
  BY DEF CustodyInv, Types
<1>2. Tokens' /\ ToldAsRecorded' /\ OneDispatchPerAttempt'
  BY DEF CustodyInv, Tokens, ToldAsRecorded, OneDispatchPerAttempt
<1>3. DispatchedByBroker'
  BY DEF CustodyInv, DispatchedByBroker
<1> QED BY <1>1, <1>2, <1>3 DEF CustodyInv

(* A command arrives.                                                      *)
LEMMA ReceiveStep ==
  ASSUME CustodyInv, user = "broker", user' = user, UNCHANGED clock,
         NEW c \in Clients, NEW action \in {"ISSUE", "SIGN", "RECOVER"}, NEW t \in 0..MaxTokens,
         NEW r \in CustodyRequests, NEW left \in 1..ConnectionBudget, Receive(c, action, t, r, left)
  PROVE  CustodyInv'
<1>1. tick + left \in Nat
  BY BrokerConstants DEF CustodyInv, Types
<1>2. exchange' \in Exchange
  BY <1>1 DEF Receive, Exchange, Stages
<1>3. Stands'
  BY BrokerConstants DEF Receive, Stands, Outcomes, NoResult
<1>4. exchange'.at # "dispatch"
  BY DEF Receive
<1> QED BY <1>2, <1>3, <1>4, ExchangeMoves DEF Receive

(* An exchange in progress is a record of commands.                        *)
LEMMA InProgress ==
  ASSUME Types, exchange.at # "idle" PROVE exchange \in Exchange
BY DEF Types, Idle

(* A token is asked for.                                                   *)
LEMMA IssueBeginsStep ==
  ASSUME CustodyInv, user = "broker", user' = user, UNCHANGED clock, IssueBegins
  PROVE  CustodyInv'
<1>1. exchange \in Exchange
  BY InProgress DEF CustodyInv, IssueBegins
<1>2. exchange' \in Exchange
  BY <1>1 DEF IssueBegins, Answer, Exchange, Stages, OtherAnswers
<1>3. Stands'
  <2>1. CASE CanIssue(exchange.request)
    BY <1>1, <2>1 DEF CustodyInv, Stands, IssueBegins, CanIssue, Exchange
  <2>2. CASE ~CanIssue(exchange.request)
    BY <1>1, <2>2 DEF CustodyInv, Stands, IssueBegins, Answer, Exchange, Outcomes
  <2> QED BY <2>1, <2>2
<1>4. exchange'.at # "dispatch"
  BY <1>1 DEF IssueBegins, Answer, Exchange
<1> QED BY <1>2, <1>3, <1>4, ExchangeMoves DEF IssueBegins

(* A new token has an attempt no other token has, and nothing is known of  *)
(* it.                                                                     *)
LEMMA IssueEndsStep ==
  ASSUME CustodyInv, user = "broker", user' = user, UNCHANGED clock, IssueEnds
  PROVE  CustodyInv'
<1> USE BrokerConstants
<1>0. exchange \in Exchange
  BY InProgress DEF CustodyInv, IssueEnds
<1>1. exchange' \in Exchange /\ exchange'.at = "answer" /\ exchange'.status \in OtherAnswers
  BY <1>0 DEF IssueEnds, Answer, Exchange, Stages, OtherAnswers
<1>2. OtherAnswers \cap Outcomes = {}
  BY DEF OtherAnswers, Outcomes
<1>3. CASE UNCHANGED entries
  <2>1. Stands'
    BY <1>1, <1>2, <1>3 DEF Stands
  <2> QED BY <1>1, <1>3, <2>1, ExchangeMoves DEF IssueEnds
<1>4. CASE ~(UNCHANGED entries)
  <2>1. PICK d \in Nat : entries' = Append(entries,
               [owner |-> exchange.client, request |-> exchange.request,
                deadline |-> d, used |-> FALSE, result |-> NoResult])
    <3>1. exchange.deadline \in Nat /\ tick + TokenBudget \in Nat
      BY <1>0 DEF CustodyInv, Types, Exchange
    <3> QED BY <1>4, <3>1 DEF IssueEnds
  <2> DEFINE e == [owner |-> exchange.client, request |-> exchange.request,
                   deadline |-> d, used |-> FALSE, result |-> NoResult]
             n == Len(entries) + 1
  <2>2. e \in Entry
    BY <1>0 DEF Entry, Exchange
  <2>e. /\ e.used = FALSE /\ e.result = NoResult
        /\ e.request.attempt = exchange.request.attempt
    OBVIOUS
  <2>3. entries \in Seq(Entry) /\ Len(entries) < MaxTokens
    BY DEF CustodyInv, Types, Stands, IssueEnds
  <2> HIDE DEF e
  <2>4. /\ entries' \in Seq(Entry) /\ Len(entries') = n /\ n \in 1..MaxTokens
        /\ DOMAIN entries' = DOMAIN entries \cup {n} /\ n \notin DOMAIN entries
        /\ \A t \in DOMAIN entries : entries'[t] = entries[t]
        /\ entries'[n] = e
    BY <2>1, <2>2, <2>3 DEF e
  <2> HIDE DEF n
  <2>5. Types'
    BY <1>1, <2>4 DEF CustodyInv, Types, IssueEnds, custodyVars
  <2>6. Stands'
    BY <1>1, <1>2 DEF Stands
  <2>7. Tokens'
    <3>1. \A t \in DOMAIN entries : entries[t].request.attempt # exchange.request.attempt
      BY DEF CustodyInv, Stands, IssueEnds
    <3> QED BY <2>4, <2>e, <3>1 DEF CustodyInv, Tokens
  <2>8. ToldAsRecorded' /\ OneDispatchPerAttempt'
    BY <2>4 DEF CustodyInv, ToldAsRecorded, OneDispatchPerAttempt, IssueEnds, custodyVars
  <2>9. DispatchedByBroker'
    BY <1>1, <2>4 DEF CustodyInv, DispatchedByBroker, IssueEnds, custodyVars
  <2> QED BY <2>5, <2>6, <2>7, <2>8, <2>9 DEF CustodyInv
<1> QED BY <1>3, <1>4

(* A token that comes to something remains the token it was.               *)
LEMMA EntryComesTo ==
  ASSUME NEW v \in Entry, NEW status \in Outcomes
  PROVE  LET e == [v EXCEPT !.used = TRUE, !.result = status]
         IN e \in Entry /\ e.request = v.request /\ e.used /\ e.result = status
BY DEF Entry

(* ... as it does when it is used,                                         *)
LEMMA EntryIsUsed ==
  ASSUME NEW v \in Entry
  PROVE  LET e == [v EXCEPT !.used = TRUE]
         IN e \in Entry /\ e.request = v.request /\ e.used /\ e.result = v.result
BY DEF Entry

(* ... and when its signature is discarded.                                *)
LEMMA EntryIsDiscarded ==
  ASSUME NEW v \in Entry
  PROVE  LET e == [v EXCEPT !.result = "RESULT_DISCARDED"]
         IN /\ e \in Entry /\ e.request = v.request /\ e.used = v.used
            /\ e.result = "RESULT_DISCARDED"
BY DEF Entry, Outcomes

(* Its result is an outcome or none.                                       *)
LEMMA EntryFields ==
  ASSUME NEW v \in Entry
  PROVE  /\ v.result # NoResult => v.result \in Outcomes
         /\ v.request.attempt \in Attempts
BY DEF Entry, Attempts

(* What a token came to is written down once: nobody was told before.      *)
LEMMA RecordStep ==
  ASSUME CustodyInv, user = "broker", user' = user, UNCHANGED clock, UNCHANGED tick,
         UNCHANGED dispatched, \E S : handoffs' \in Seq(S), UNCHANGED told, NEW status \in Outcomes, exchange.action = "SIGN",
         exchange.at # "idle",
         exchange.token \in DOMAIN entries, entries[exchange.token].result = NoResult,
         Record(exchange.token, status)
  PROVE  CustodyInv'
<1> DEFINE t == exchange.token
<1>0. exchange \in Exchange
  BY InProgress DEF CustodyInv
<1>1. /\ exchange' \in Exchange /\ exchange'.at = "answer" /\ exchange'.status = status
      /\ exchange'.token = t /\ exchange'.action = "SIGN"
  BY <1>0 DEF Record, Answer, Exchange, Stages
<1>2. entries \in Seq(Entry) /\ t \in DOMAIN entries
  BY DEF CustodyInv, Types
<1> DEFINE e == [entries[t] EXCEPT !.used = TRUE, !.result = status]
<1>d. entries[t] \in Entry
  BY <1>2
<1>e. e \in Entry /\ e.request = entries[t].request /\ e.used /\ e.result = status
  BY <1>d, EntryComesTo
<1>f. entries' = [entries EXCEPT ![t] = e]
  BY <1>2 DEF Record
<1> HIDE DEF e
<1>3. /\ entries' \in Seq(Entry) /\ DOMAIN entries' = DOMAIN entries /\ Len(entries') = Len(entries)
      /\ \A s \in DOMAIN entries : entries'[s].request = entries[s].request
      /\ \A s \in DOMAIN entries \ {t} : entries'[s] = entries[s]
      /\ entries'[t].used /\ entries'[t].result = status
  BY <1>2, <1>e, <1>f
<1>4. told[t] = {}
  <2>1. t \in 1..MaxTokens
    BY <1>2, BrokerConstants DEF CustodyInv, Types
  <2>2. told[t] \subseteq Outcomes /\ NoResult \notin Outcomes
    BY <2>1 DEF CustodyInv, Types, Outcomes, NoResult
  <2> QED BY <2>1, <2>2 DEF CustodyInv, ToldAsRecorded
<1>5. Types'
  BY <1>1, <1>3 DEF CustodyInv, Types
<1>6. Stands'
  <2>1. exchange'.token \in DOMAIN entries' /\ told'[t] = {}
    BY <1>1, <1>2, <1>3, <1>4
  <2> QED
    BY <1>1, <1>3, <2>1 DEF Stands
<1>7. Tokens'
  BY <1>2, <1>3 DEF CustodyInv, Tokens
<1>8. ToldAsRecorded' /\ OneDispatchPerAttempt'
  BY <1>2, <1>3, <1>4 DEF CustodyInv, ToldAsRecorded, OneDispatchPerAttempt
<1>9. DispatchedByBroker'
  <2> SUFFICES ASSUME NEW i \in DOMAIN dispatched
               PROVE  \E s \in DOMAIN entries' :
                        entries'[s].used /\ entries'[s].request.attempt = dispatched[i]
    BY <1>1 DEF DispatchedByBroker
  <2>1. PICK s \in DOMAIN entries :
          entries[s].used /\ entries[s].request.attempt = dispatched[i]
    BY DEF CustodyInv, DispatchedByBroker
  <2> QED BY <1>3, <2>1
<1> QED BY <1>5, <1>6, <1>7, <1>8, <1>9 DEF CustodyInv

(* A signature is asked for: the token is used from here on, and was not   *)
(* dispatched while it was unused.                                         *)
LEMMA SignBeginsStep ==
  ASSUME CustodyInv, user = "broker", user' = user, UNCHANGED clock, SignBegins
  PROVE  CustodyInv'
<1> DEFINE t == exchange.token
<1>0. exchange \in Exchange /\ exchange.at = "SIGN" /\ exchange.action = "SIGN"
  BY InProgress DEF CustodyInv, SignBegins, Stands
<1>1. CASE ~Owned(t) \/ entries[t].used
  <2>1. exchange' \in Exchange /\ exchange'.at = "answer" /\ exchange'.status = "REFUSED"
    BY <1>0, <1>1 DEF SignBegins, Answer, Exchange, Stages, OtherAnswers
  <2>2. Stands'
    BY <2>1 DEF Stands, Outcomes
  <2> QED BY <1>1, <2>1, <2>2, ExchangeMoves DEF SignBegins
<1>2. CASE ~(~Owned(t) \/ entries[t].used)
  <2>1. /\ t \in DOMAIN entries /\ ~entries[t].used /\ entries[t].result = NoResult
        /\ entries \in Seq(Entry)
    BY <1>2 DEF Owned, CustodyInv, Tokens, Types
  <2>2. CASE \E status \in Outcomes : Record(t, status)
    BY <1>0, <2>1, <2>2, RecordStep DEF SignBegins, custodyVars, CustodyInv, Types
  <2>3. CASE /\ entries' = [entries EXCEPT ![t].used = TRUE]
             /\ exchange' = [exchange EXCEPT !.at = "dispatch"]
    <3> DEFINE e == [entries[t] EXCEPT !.used = TRUE]
    <3>d. entries[t] \in Entry /\ entries[t].result = NoResult
      BY <2>1
    <3>e. e \in Entry /\ e.request = entries[t].request /\ e.used /\ e.result = NoResult
      BY <3>d, EntryIsUsed
    <3>f. entries' = [entries EXCEPT ![t] = e]
      BY <2>1, <2>3
    <3> HIDE DEF e
    <3>1. /\ entries' \in Seq(Entry) /\ DOMAIN entries' = DOMAIN entries /\ Len(entries') = Len(entries)
          /\ \A s \in DOMAIN entries : entries'[s].request = entries[s].request
          /\ \A s \in DOMAIN entries \ {t} : entries'[s] = entries[s]
          /\ entries'[t].used /\ entries'[t].result = NoResult
      BY <2>1, <3>e, <3>f
    <3>2. /\ exchange' \in Exchange /\ exchange'.at = "dispatch" /\ exchange'.action = "SIGN"
          /\ exchange'.token = t
      BY <1>0, <2>3 DEF Exchange, Stages
    <3>3. Types'
      BY <3>1, <3>2 DEF CustodyInv, Types, SignBegins, custodyVars
    <3>4. Stands'
      BY <2>1, <3>1, <3>2 DEF Stands
    <3>5. Tokens'
      BY <2>1, <3>1 DEF CustodyInv, Tokens
    <3>6. ToldAsRecorded' /\ OneDispatchPerAttempt'
      BY <2>1, <3>1 DEF CustodyInv, ToldAsRecorded, OneDispatchPerAttempt, SignBegins, custodyVars
    <3>7. DispatchedByBroker'
      <4> SUFFICES ASSUME NEW i \in DOMAIN dispatched
                   PROVE  \E s \in DOMAIN entries' :
                            /\ entries'[s].used /\ entries'[s].request.attempt = dispatched[i]
                            /\ s # t
        BY <3>2 DEF DispatchedByBroker, SignBegins, custodyVars
      <4>1. PICK s \in DOMAIN entries :
              entries[s].used /\ entries[s].request.attempt = dispatched[i]
        BY DEF CustodyInv, DispatchedByBroker
      <4>2. s # t
        BY <2>1, <4>1
      <4> QED BY <3>1, <4>1, <4>2
    <3> QED BY <3>3, <3>4, <3>5, <3>6, <3>7 DEF CustodyInv
  <2>4. {"ACCESS_DENIED", "REQUEST_MISMATCH", "DEADLINE_EXCEEDED"} \subseteq Outcomes
    BY DEF Outcomes
  <2> QED BY <1>2, <2>2, <2>3, <2>4 DEF SignBegins
<1> QED BY <1>1, <1>2

(* The key signs for the token of the exchange, whose attempt is not among *)
(* those it signed for.                                                    *)
LEMMA DispatchStep ==
  ASSUME CustodyInv, user = "broker", user' = user, UNCHANGED clock, Dispatch
  PROVE  CustodyInv'
<1> DEFINE t == exchange.token
           a == entries[t].request.attempt
<1>0. /\ exchange \in Exchange /\ exchange.at = "dispatch" /\ exchange.action = "SIGN"
      /\ t \in DOMAIN entries /\ entries[t].used /\ entries[t].result = NoResult
      /\ entries \in Seq(Entry) /\ dispatched \in Seq(Attempts) /\ clock \in Int
  BY InProgress DEF CustodyInv, Dispatch, Stands, Types
<1>h. PICK h : /\ h = Handoff(t, entries[t].request, Remaining)
               /\ h.request.attempt = a
  <2> DEFINE g == Handoff(t, entries[t].request, Remaining)
  <2>1. g.request.attempt = a
    BY DEF Handoff
  <2> QED BY <2>1
<1>H. \E S : handoffs' \in Seq(S)
  <2>1. CASE UNCHANGED handoffs
    BY <2>1 DEF CustodyInv, Types
  <2>2. CASE handoffs' = Append(handoffs, [h EXCEPT !.used = TRUE])
    <3>1. PICK S : handoffs \in Seq(S)
      BY DEF CustodyInv, Types
    <3> DEFINE g == [h EXCEPT !.used = TRUE]
    <3> HIDE DEF g
    <3>2. Append(handoffs, g) \in Seq(S \cup {g})
      BY <3>1
    <3> QED BY <2>2, <3>2 DEF g
  <2> QED BY <1>h, <2>1, <2>2 DEF Dispatch
<1>R. CASE \E status \in Outcomes : Record(t, status) /\ UNCHANGED dispatched
  BY <1>0, <1>H, <1>R, RecordStep DEF Dispatch
<1>S. CASE /\ dispatched' = Append(dispatched, a) /\ UNCHANGED entries
           /\ exchange' = [exchange EXCEPT !.at = "signing", !.began = Second(clock)]
  <2> DEFINE n == Len(dispatched) + 1
  <2>1. Second(clock) \in Int
    BY <1>0, CustodyConstants DEF Second
  <2>2. exchange' \in Exchange /\ exchange'.at = "signing" /\ exchange'.action = "SIGN"
        /\ exchange'.token = t
    BY <1>0, <1>S, <2>1 DEF Exchange, Stages
  <2>3. a \in Attempts
    <3>1. entries[t] \in Entry
      BY <1>0
    <3> QED BY <3>1, EntryFields
  <2>4. /\ dispatched' \in Seq(Attempts) /\ DOMAIN dispatched' = DOMAIN dispatched \cup {n}
        /\ \A i \in DOMAIN dispatched : dispatched'[i] = dispatched[i]
        /\ dispatched'[n] = a
    BY <1>0, <1>S, <2>3
  <2> HIDE DEF n
  <2>5. Types'
    BY <1>H, <1>S, <2>2, <2>4 DEF CustodyInv, Types, Dispatch
  <2>6. Stands'
    BY <1>0, <1>S, <2>2 DEF Stands
  <2>7. Tokens' /\ ToldAsRecorded'
    BY <1>S DEF CustodyInv, Tokens, ToldAsRecorded, Dispatch
  <2>8. \A i \in DOMAIN dispatched : dispatched[i] # a
    BY <1>0 DEF CustodyInv, DispatchedByBroker, Tokens
  <2>9. OneDispatchPerAttempt'
    BY <2>4, <2>8 DEF CustodyInv, OneDispatchPerAttempt
  <2>10. DispatchedByBroker'
    <3>1. ASSUME NEW i \in DOMAIN dispatched'
          PROVE  \E s \in DOMAIN entries :
                   entries[s].used /\ entries[s].request.attempt = dispatched'[i]
      <4>1. CASE i = n
        BY <1>0, <2>4, <4>1
      <4>2. CASE i \in DOMAIN dispatched
        <5>1. DispatchedByBroker
          BY DEF CustodyInv
        <5> QED BY <2>4, <4>2, <5>1 DEF DispatchedByBroker
      <4> QED BY <2>4, <3>1, <4>1, <4>2
    <3> QED BY <1>S, <2>2, <3>1 DEF DispatchedByBroker
  <2> QED BY <2>5, <2>6, <2>7, <2>9, <2>10 DEF CustodyInv, Dispatch
<1>4. {"ACCESS_DENIED", "DEADLINE_EXCEEDED", "OUTCOME_UNKNOWN", "NOT_SIGNED"} \subseteq Outcomes
  BY DEF Outcomes
<1> QED BY <1>h, <1>R, <1>S, <1>4 DEF Dispatch

(* What the provider comes to is an outcome.                               *)
LEMMA ProviderReturnsStep ==
  ASSUME CustodyInv, user = "broker", user' = user, UNCHANGED clock,
         NEW outcome \in KeyOutcomes, ProviderReturns(outcome)
  PROVE  CustodyInv'
<1>0. exchange \in Exchange
  BY InProgress DEF CustodyInv, ProviderReturns
<1>1. PICK status \in Outcomes :
        exchange' = [exchange EXCEPT !.at = "returned", !.status = status]
  BY SignEndsInOutcomes DEF ProviderReturns
<1>2. exchange' \in Exchange /\ exchange'.at = "returned" /\ exchange'.status \in Outcomes
      /\ exchange'.token = exchange.token /\ exchange'.action = exchange.action
  BY <1>0, <1>1 DEF Exchange, Stages
<1>3. Stands'
  BY <1>2 DEF CustodyInv, Stands, ProviderReturns
<1> QED BY <1>2, <1>3, ExchangeMoves DEF ProviderReturns

(* ... and is written down, or the reason for which it is discarded.       *)
LEMMA SignEndsStep ==
  ASSUME CustodyInv, user = "broker", user' = user, UNCHANGED clock, SignEndsAtBroker
  PROVE  CustodyInv'
<1>1. /\ exchange.action = "SIGN" /\ exchange.token \in DOMAIN entries
      /\ entries[exchange.token].result = NoResult /\ exchange.status \in Outcomes
  BY DEF CustodyInv, SignEndsAtBroker, Stands
<1>2. PICK status \in Outcomes : Record(exchange.token, status)
  BY <1>1 DEF SignEndsAtBroker, Outcomes
<1>3. \E S : handoffs' \in Seq(S)
  BY DEF CustodyInv, Types, SignEndsAtBroker, custodyVars
<1> QED BY <1>1, <1>2, <1>3, RecordStep DEF SignEndsAtBroker, custodyVars

(* A recovery answers what is on record.                                   *)
LEMMA RecoverStep ==
  ASSUME CustodyInv, user = "broker", user' = user, UNCHANGED clock, Recover
  PROVE  CustodyInv'
<1>0. exchange \in Exchange /\ exchange.action = "RECOVER" /\ entries \in Seq(Entry)
  BY InProgress DEF CustodyInv, Recover, Stands, Types
<1>1. CASE \E status \in OtherAnswers : exchange' = Answer(status)
  <2>1. exchange' \in Exchange /\ exchange'.at = "answer" /\ exchange'.status \in OtherAnswers
    BY <1>0, <1>1 DEF Answer, Exchange, Stages
  <2>2. Stands'
    BY <2>1 DEF Stands, Outcomes, OtherAnswers
  <2> QED BY <2>1, <2>2, ExchangeMoves DEF Recover
<1>2. CASE /\ Owned(exchange.token) /\ entries[exchange.token].result # NoResult
           /\ exchange' = Answer(entries[exchange.token].result)
  <2>1. /\ exchange.token \in DOMAIN entries
        /\ entries[exchange.token].result \in Outcomes
    <3>1. exchange.token \in DOMAIN entries /\ entries[exchange.token] \in Entry
      BY <1>0, <1>2 DEF Owned
    <3> QED BY <1>2, <3>1, EntryFields
  <2>2. /\ exchange' \in Exchange /\ exchange'.at = "answer" /\ exchange'.action = "RECOVER"
        /\ exchange'.status = entries[exchange.token].result
        /\ exchange'.token = exchange.token
    BY <1>0, <1>2, <2>1 DEF Answer, Exchange, Stages
  <2>3. Stands'
    BY <2>1, <2>2 DEF Stands, Recover
  <2> QED BY <2>2, <2>3, ExchangeMoves DEF Recover
<1> QED BY <1>1, <1>2 DEF Recover, OtherAnswers

(* The answer leaves, or is lost.  A signature that is withheld was told   *)
(* to nobody, and is on record as discarded before anything is told.       *)
LEMMA ReplyStep ==
  ASSUME CustodyInv, user = "broker", user' = user, UNCHANGED clock,
         NEW arrives \in BOOLEAN, Reply(arrives)
  PROVE  CustodyInv'
<1> DEFINE t == exchange.token
<1>0. exchange \in Exchange /\ exchange.at = "answer" /\ exchange' = Idle
      /\ entries \in Seq(Entry) /\ Len(entries) <= MaxTokens
  BY InProgress DEF CustodyInv, Reply, Types
<1>1. Withheld => /\ t \in DOMAIN entries /\ entries[t].result = "VERIFIED" /\ told[t] = {}
                  /\ entries[t].used
  <2>1. ASSUME Withheld
        PROVE  t \in DOMAIN entries /\ entries[t].result = "VERIFIED" /\ told[t] = {}
    BY <1>0, <2>1 DEF Withheld, CustodyInv, Stands, Outcomes
  <2>2. ASSUME Withheld PROVE entries[t].used
    BY <2>1, <2>2 DEF CustodyInv, Tokens, NoResult
  <2> QED BY <2>1, <2>2
<1>2. /\ entries' \in Seq(Entry) /\ DOMAIN entries' = DOMAIN entries /\ Len(entries') = Len(entries)
      /\ \A s \in DOMAIN entries : entries'[s].request = entries[s].request
      /\ \A s \in DOMAIN entries : entries'[s].used = entries[s].used
      /\ Withheld => /\ entries'[t].result = "RESULT_DISCARDED"
                     /\ \A s \in DOMAIN entries \ {t} : entries'[s] = entries[s]
      /\ ~Withheld => UNCHANGED entries
  <2>1. CASE ~Withheld
    BY <1>0, <2>1 DEF Reply, OnRecord
  <2>2. CASE Withheld
    <3> DEFINE e == [entries[t] EXCEPT !.result = "RESULT_DISCARDED"]
    <3>d. entries[t] \in Entry
      BY <1>0, <1>1, <2>2
    <3>e. e \in Entry /\ e.request = entries[t].request /\ e.used = entries[t].used
          /\ e.result = "RESULT_DISCARDED"
      BY <3>d, EntryIsDiscarded
    <3>f. entries' = [entries EXCEPT ![t] = e]
      BY <2>2 DEF Reply, OnRecord
    <3> HIDE DEF e
    <3> QED BY <1>0, <1>1, <2>2, <3>e, <3>f
  <2> QED BY <2>1, <2>2
<1>3. ASSUME Released \in Outcomes
      PROVE  t \in DOMAIN entries /\ entries'[t].result = Released
  <2>1. CASE Withheld
    BY <1>1, <1>2, <2>1 DEF Released
  <2>2. CASE ~Withheld
    <3>1. Released = exchange.status
      BY <1>3, <2>2 DEF Released, Outcomes
    <3> QED BY <1>0, <1>2, <1>3, <2>2, <3>1 DEF CustodyInv, Stands
  <2> QED BY <2>1, <2>2
<1>4. told' \in [1..MaxTokens -> SUBSET Outcomes]
  BY DEF Reply, CustodyInv, Types
<1>5. Types'
  BY <1>0, <1>2, <1>4 DEF CustodyInv, Types, Reply, custodyVars
<1>6. Stands'
  BY <1>0 DEF Stands, Idle
<1>7. Tokens'
  <2> SUFFICES ASSUME NEW s \in DOMAIN entries, ~entries'[s].used
               PROVE  entries'[s].result = NoResult
    BY <1>2 DEF CustodyInv, Tokens
  <2>1. ~entries[s].used /\ entries[s].result = NoResult
    BY <1>2 DEF CustodyInv, Tokens
  <2>2. entries'[s] = entries[s]
    BY <1>1, <1>2, <2>1
  <2> QED BY <2>1, <2>2
<1>8. ToldAsRecorded'
  <2> SUFFICES ASSUME NEW s \in 1..MaxTokens, NEW o \in told'[s]
               PROVE  s \in DOMAIN entries' /\ entries'[s].result = o
    BY DEF ToldAsRecorded
  <2>1. CASE o \in told[s]
    <3>1. s \in DOMAIN entries /\ entries[s].result = o
      BY <2>1 DEF CustodyInv, ToldAsRecorded
    <3>2. entries'[s] = entries[s]
      BY <1>1, <1>2, <2>1, <3>1
    <3> QED BY <1>2, <3>1, <3>2
  <2>2. CASE o \notin told[s]
    <3>1. s = t /\ o = Released /\ Released \in Outcomes
      BY <2>2 DEF Reply, CustodyInv, Types
    <3> QED BY <1>2, <1>3, <3>1
  <2> QED BY <2>1, <2>2
<1>9. OneDispatchPerAttempt'
  BY DEF CustodyInv, OneDispatchPerAttempt, Reply, custodyVars
<1>10. DispatchedByBroker'
  <2> SUFFICES ASSUME NEW i \in DOMAIN dispatched
               PROVE  \E s \in DOMAIN entries' :
                        entries'[s].used /\ entries'[s].request.attempt = dispatched[i]
    BY <1>0 DEF DispatchedByBroker, Reply, custodyVars, Idle
  <2>1. PICK s \in DOMAIN entries :
          entries[s].used /\ entries[s].request.attempt = dispatched[i]
    BY DEF CustodyInv, DispatchedByBroker
  <2> QED BY <1>2, <2>1
<1> QED BY <1>5, <1>6, <1>7, <1>8, <1>9, <1>10 DEF CustodyInv

(* No step of the broker breaks it.                                        *)
LEMMA BrokerKeepsCustodyInv ==
  ASSUME CustodyInv, user = "broker", user' = user, BrokerNext
  PROVE  CustodyInv'
<1>1. CASE UNCHANGED clock /\ (IssueBegins \/ IssueEnds \/ SignBegins \/ Dispatch)
  BY <1>1, IssueBeginsStep, IssueEndsStep, SignBeginsStep, DispatchStep
<1>2. CASE UNCHANGED clock /\ (SignEndsAtBroker \/ Recover)
  BY <1>2, SignEndsStep, RecoverStep
<1>3. CASE UNCHANGED clock /\ \E outcome \in KeyOutcomes : ProviderReturns(outcome)
  BY <1>3, ProviderReturnsStep
<1>4. CASE UNCHANGED clock /\ \E arrives \in BOOLEAN : Reply(arrives)
  BY <1>4, ReplyStep
<1>5. CASE UNCHANGED clock /\ \E c \in Clients, r \in CustodyRequests, left \in 1..ConnectionBudget :
          \/ Receive(c, "ISSUE", 0, r, left)
          \/ \E action \in {"SIGN", "RECOVER"}, t \in 1..MaxTokens : Receive(c, action, t, r, left)
  <2>1. 0 \in 0..MaxTokens /\ 1..MaxTokens \subseteq 0..MaxTokens
    BY BrokerConstants
  <2> QED BY <1>5, <2>1, ReceiveStep
<1>6. CASE UNCHANGED clock /\ SetPermissions
  BY <1>6, QuietSteps DEF SetPermissions, custodyVars, CustodyInv, Types
<1>7. CASE UNCHANGED clock /\ (Tick \/ CloseProvider) /\ UNCHANGED brokerVars
  BY <1>7, QuietSteps DEF Tick, CloseProvider, brokerVars, CustodyInv, Types
<1>8. CASE SetClock /\ UNCHANGED <<custodyVars, brokerVars>>
  <2>1. clock' \in Int
    BY <1>8, ClockConstants DEF SetClock, Times
  <2> QED BY <1>8, <2>1, QuietSteps DEF custodyVars, brokerVars, CustodyInv, Types
<1> QED BY <1>1, <1>2, <1>3, <1>4, <1>5, <1>6, <1>7, <1>8 DEF BrokerNext

(* Behind the bridge an attempt is dispatched under the number of the      *)
(* handoff minted for it.                                                  *)
LEMMA BridgeDispatchesStep ==
  ASSUME CustodyInv, user = "bridge", user' = user, UNCHANGED clock, UNCHANGED brokerVars,
         BridgeDispatches
  PROVE  CustodyInv'
<1> USE DEF brokerVars
<1>1. PICK S : handoffs \in Seq(S)
  BY DEF CustodyInv, Types
<1>2. PICK x, a : /\ a = Len(handoffs) + 1
                  /\ handoffs' \in {handoffs, Append(handoffs, x)}
                  /\ \/ UNCHANGED dispatched
                     \/ dispatched' = Append(dispatched, a) /\ handoffs' # handoffs
  <2> DEFINE c == candidates[job.candidate]
             r == CustodyRequest(job.payload, job.pins)
             h == Handoff(r.attempt, r, c.deadline)
             y == [h EXCEPT !.used = TRUE]
  <2>1. r.attempt = Len(handoffs) + 1
    BY DEF CustodyRequest
  <2>2. handoffs' = IF Unchanged(c) /\ CanMint(h.id, h.deadline)
                    THEN Append(handoffs, y) ELSE handoffs
    BY DEF BridgeDispatches
  <2>3. \/ UNCHANGED dispatched
        \/ dispatched' = Append(dispatched, r.attempt) /\ handoffs' # handoffs
    BY DEF BridgeDispatches
  <2> HIDE DEF r, y
  <2> QED BY <2>1, <2>2, <2>3
<1>3. /\ handoffs' \in Seq(S \cup {x})
      /\ Len(handoffs') \in {Len(handoffs), Len(handoffs) + 1}
      /\ handoffs' # handoffs => Len(handoffs') = a
      /\ Len(handoffs) \in Nat /\ a \in Nat
  <2>1. CASE UNCHANGED handoffs
    BY <1>1, <1>2, <2>1
  <2>2. CASE handoffs' = Append(handoffs, x)
    BY <1>1, <1>2, <2>2
  <2> QED BY <1>2, <2>1, <2>2
<1>4. CASE UNCHANGED dispatched
  <2>1. Types' /\ Stands' /\ Tokens' /\ ToldAsRecorded' /\ OneDispatchPerAttempt'
    BY <1>3, <1>4 DEF CustodyInv, Types, Stands, Tokens, ToldAsRecorded, OneDispatchPerAttempt,
                      BridgeDispatches
  <2>2. DispatchedByBridge'
    BY <1>3, <1>4 DEF CustodyInv, DispatchedByBridge
  <2> QED BY <2>1, <2>2 DEF CustodyInv
<1>5. CASE dispatched' = Append(dispatched, a) /\ handoffs' # handoffs
  <2> DEFINE n == Len(dispatched) + 1
  <2>1. dispatched \in Seq(Attempts) /\ a \in Attempts
    BY <1>3 DEF CustodyInv, Types, Attempts
  <2>2. /\ dispatched' \in Seq(Attempts) /\ DOMAIN dispatched' = DOMAIN dispatched \cup {n}
        /\ \A i \in DOMAIN dispatched : dispatched'[i] = dispatched[i]
        /\ dispatched'[n] = a
    BY <1>5, <2>1
  <2> HIDE DEF n
  <2>3. \A i \in DOMAIN dispatched : dispatched[i] \in Nat /\ dispatched[i] < a
    BY <1>2, <1>3 DEF CustodyInv, DispatchedByBridge
  <2>4. Types' /\ Stands' /\ Tokens' /\ ToldAsRecorded'
    BY <1>3, <2>2 DEF CustodyInv, Types, Stands, Tokens, ToldAsRecorded, BridgeDispatches
  <2>5. OneDispatchPerAttempt'
    BY <2>2, <2>3 DEF CustodyInv, OneDispatchPerAttempt
  <2>6. DispatchedByBridge'
    BY <1>3, <1>5, <2>2, <2>3 DEF DispatchedByBridge
  <2> QED BY <2>4, <2>5, <2>6 DEF CustodyInv
<1> QED BY <1>2, <1>4, <1>5

(* No step of the observation path breaks it.                              *)
LEMMA PathKeepsCustodyInv ==
  ASSUME CustodyInv, user = "bridge", user' = user, ObservationNext, UNCHANGED brokerVars
  PROVE  CustodyInv'
<1> USE DEF brokerVars
<1>1. CASE UNCHANGED clock /\ BridgeDispatches
  BY <1>1, BridgeDispatchesStep
<1>2. CASE UNCHANGED <<clock, custodyVars>>
  BY <1>2, QuietSteps DEF custodyVars, CustodyInv, Types
<1>3. CASE UNCHANGED clock /\ (Tick \/ CloseProvider)
  BY <1>3, QuietSteps DEF Tick, CloseProvider, CustodyInv, Types
<1>4. CASE SetClock /\ UNCHANGED custodyVars
  <2>1. clock' \in Int
    BY <1>4, ClockConstants DEF SetClock, Times
  <2> QED BY <1>4, <2>1, QuietSteps DEF custodyVars, CustodyInv, Types
<1>5. ObservationNext =>
        \/ UNCHANGED clock /\ (BridgeDispatches \/ UNCHANGED custodyVars \/ Tick \/ CloseProvider)
        \/ SetClock /\ UNCHANGED custodyVars
  BY DEF ObservationNext, AwaitFrame, ReadFrame, BindFrame, Observe, PrepareSigning, AdapterSign,
         BridgeTakes, AdapterReturns, BridgeRechecks, BridgeReturned, BridgeVerifies,
         BridgeReleases, StartDelivery, SendPiece, HostChanges
<1> QED BY <1>1, <1>2, <1>3, <1>4, <1>5

(* The invariant of the service is an invariant.                           *)
THEOREM CustodyInvHolds == Spec => []CustodyInv
<1>1. CustodyInv /\ [Next]_vars => CustodyInv'
  <2> SUFFICES ASSUME CustodyInv, [Next]_vars PROVE CustodyInv'
    OBVIOUS
  <2>1. CASE UNCHANGED vars
    BY <2>1, QuietSteps DEF vars, custodyVars, brokerVars, CustodyInv, Types
  <2>2. CASE Next
    BY <2>2, BrokerKeepsCustodyInv, PathKeepsCustodyInv DEF Next
  <2> QED BY <2>1, <2>2
<1> QED BY CustodyInitially, <1>1, PTL DEF Spec

(* However often a request is presented, retried or recovered, through     *)
(* the broker (key_custody_ipc.py _sign) or the bridge                     *)
(* (key_custody_bridge.py), the provider signs for an attempt once.        *)
THEOREM SignedOncePerAttempt == Spec => []OneDispatchPerAttempt
BY CustodyInvHolds, PTL DEF CustodyInv

(* What clients are told of a token (key_custody_ipc.py serve_connection   *)
(* and _recover) never contradicts itself, whatever answers were lost and  *)
(* whatever permissions were withdrawn in between.                         *)
THEOREM ToldOneOutcome == Spec => []OneOutcomePerToken
<1>1. CustodyInv => OneOutcomePerToken
  <2> SUFFICES ASSUME CustodyInv, NEW t \in DOMAIN told PROVE Cardinality(told[t]) <= 1
    BY DEF OneOutcomePerToken
  <2>1. t \in 1..MaxTokens
    BY DEF CustodyInv, Types
  <2>2. \A o \in told[t] : told[t] = {o}
    BY <2>1 DEF CustodyInv, ToldAsRecorded
  <2>3. CASE told[t] = {}
    BY <2>3, FS_EmptySet
  <2>4. CASE \E o : told[t] = {o}
    BY <2>4, FS_Singleton
  <2> QED BY <2>2, <2>3, <2>4
<1> QED BY <1>1, CustodyInvHolds, PTL

-----------------------------------------------------------------------------
(* The path of an observation.  Each gate keeps inside the window that the *)
(* gate before it left, and a frame or candidate is presented once.        *)

HostSays == {HostStates[h] : h \in DOMAIN HostStates}

Bindings ==
  [request : {r.name : r \in Requests}, registry : {s.registry : s \in HostSays},
   principal : {s.principal : s \in HostSays}, policy : {s.policy.revision : s \in HostSays},
   grant : Nat, from : Nat, until : Nat]

Frame == [request : Requests, binding : Bindings, used : BOOLEAN, deadline : Nat]
Candidate ==
  [frame : Nat, request : Requests, binding : Bindings, from : Nat, until : Nat,
   deadline : Nat, used : BOOLEAN]

Within(b, prior) == prior.from <= b.from /\ b.until <= prior.until /\ SameBinding(prior, b)

\* A candidate is about the frame it came from.
FromFrame(c, f) ==
  /\ f.used /\ c.request = f.request /\ c.deadline = f.deadline
  /\ Within(c.binding, f.binding) /\ f.binding.from <= c.from

PayloadFits(p, f) ==
  /\ p.from \in Nat /\ p.until \in Nat
  /\ f.binding.from <= p.from * Unit /\ p.until * Unit <= f.binding.until
  /\ p.until * Unit <= Envelope.until /\ p.until <= Trust.until
  /\ SameBinding(p.binding, f.binding)

AtBridge == {"taken", "dispatch", "signing", "signed", "verified"}

BridgeJob(P, Q) ==
  [at : AtBridge, candidate : Nat, binding : Bindings, payload : P, pins : Q, began : Int]

CandidatesFit ==
  /\ \A k \in DOMAIN candidates :
       /\ candidates[k].frame \in DOMAIN requested
       /\ FromFrame(candidates[k], requested[candidates[k].frame])
  /\ \A k, l \in DOMAIN candidates : candidates[k].frame = candidates[l].frame => k = l

JobFits ==
  /\ job.at \in {"reading", "bound"} => job.deadline \in Nat
  /\ job.at = "bound" => job.request \in Requests
  /\ job.at = "observed" =>
       LET f == requested[job.frame] IN
       /\ job.frame \in DOMAIN requested /\ f.used
       /\ job.request = f.request /\ job.deadline = f.deadline
       /\ job.binding \in Bindings /\ Within(job.binding, f.binding) /\ job.until \in Nat
       /\ \A k \in DOMAIN candidates : candidates[k].frame # job.frame
  /\ job.at \in AtBridge \cup {"adapter"} =>
       LET c == candidates[job.candidate] IN
       /\ job.candidate \in DOMAIN candidates /\ c.used
       /\ job.binding \in Bindings /\ Within(job.binding, c.binding)
       /\ PayloadFits(job.payload, requested[c.frame])
       /\ job.payload.from <= Second(job.binding.from)
       /\ \A x \in released : x.frame # c.frame
  /\ job.at \in AtBridge => \E P, Q : job \in BridgeJob(P, Q)

ReleasedFit ==
  /\ \A x \in released :
       LET f == requested[x.frame] IN
       /\ \E k \in DOMAIN candidates : candidates[k].used /\ candidates[k].frame = x.frame
       /\ x.tick < f.deadline
       /\ f.binding.from <= x.at /\ x.at < f.binding.until
       /\ x.payload.from <= Second(x.at) /\ Second(x.at) < x.payload.until
       /\ PayloadFits(x.payload, f)
  /\ \A x, y \in released : x.frame = y.frame => x = y

PathInv ==
  /\ clock \in Nat /\ tick \in Nat /\ host \in DOMAIN HostStates
  /\ requested \in Seq(Frame) /\ candidates \in Seq(Candidate)
  /\ CandidatesFit /\ JobFits /\ ReleasedFit

(* Numbers                                                                 *)
LEMMA LeastNumber ==
  ASSUME NEW T \in SUBSET Nat, T # {}
  PROVE  Min(T) \in T /\ \A k \in T : Min(T) <= k
<1> DEFINE R == OpToRel(<, Nat)
<1>1. IsWellFoundedOn(R, Nat)
  BY NatLessThanWellFounded
<1>2. \A i, j \in Nat : <<i, j>> \in R <=> i < j
  BY DEF OpToRel
<1> HIDE DEF R
<1>3. PICK m \in T : \A k \in T : ~ (<<k, m>> \in R)
  BY <1>1, WFMin
<1>4. \A k \in T : ~(k < m)
  BY <1>2, <1>3, Zenon
<1>5. \A k \in T : m <= k
  BY <1>4
<1> QED
  BY <1>5 DEF Min

LEMMA GreatestOfFive ==
  ASSUME NEW a \in Nat, NEW b \in Nat, NEW c \in Nat, NEW d \in Nat, NEW e \in Nat
  PROVE  Max({a, b, c, d, e}) \in Nat /\ b <= Max({a, b, c, d, e})
<1>1. \E x \in {a, b, c, d, e} : \A y \in {a, b, c, d, e} : x >= y
  OBVIOUS
<1> QED
  BY <1>1 DEF Max

LEMMA Seconds ==
  ASSUME NEW t \in Nat
  PROVE  /\ Second(t) \in Nat /\ Second(t) * Unit <= t
         /\ SecondAfter(t) \in Nat /\ t <= SecondAfter(t) * Unit
         /\ \A u \in Nat : t <= u => Second(t) <= Second(u) /\ t * Unit <= u * Unit
<1>1. Second(t) \in Nat /\ Second(t) * Unit <= t
  BY CustodyConstants, SMT DEF Second
<1>2. SecondAfter(t) \in Nat /\ t <= SecondAfter(t) * Unit
  <2>1. t + Unit - 1 \in Nat
    BY CustodyConstants
  <2> QED
    BY <2>1, CustodyConstants, SMT DEF SecondAfter
<1>3. ASSUME NEW u \in Nat, t <= u
      PROVE  Second(t) <= Second(u)
  BY <1>3, CustodyConstants, SMT DEF Second
<1>4. ASSUME NEW u \in Nat, t <= u
      PROVE  t * Unit <= u * Unit
  BY <1>4, CustodyConstants, SMT
<1> QED
  BY <1>1, <1>2, <1>3, <1>4

\* Of finitely many grants there is a longest.
LEMMA LongestGrant ==
  ASSUME NEW S, IsFiniteSet(S), S # {}, \A g \in S : g.until \in Nat
  PROVE  \E g \in S : \A h \in S : h.until <= g.until
<1> DEFINE Bad == {n \in Nat : \E T \in SUBSET S :
                     /\ T # {} /\ Cardinality(T) = n
                     /\ ~ \E g \in T : \A h \in T : h.until <= g.until}
<1>1. ASSUME Bad # {}
      PROVE  FALSE
  <2>1. Bad \in SUBSET Nat
    OBVIOUS
  <2>2. PICK n \in Bad : \A k \in Bad : n <= k
    BY <1>1, <2>1, LeastNumber
  <2>3. PICK T \in SUBSET S : /\ T # {} /\ Cardinality(T) = n
                              /\ ~ \E g \in T : \A h \in T : h.until <= g.until
    BY <2>2
  <2>4. PICK x \in T : TRUE
    BY <2>3
  <2>5. IsFiniteSet(T)
    BY FS_Subset
  <2>6. /\ IsFiniteSet(T \ {x}) /\ Cardinality(T \ {x}) = n - 1 /\ n \in Nat
    BY <2>3, <2>4, <2>5, FS_RemoveElement, FS_CardinalityType
  <2>7. Cardinality(T \ {x}) \in Nat
    BY <2>6, FS_CardinalityType
  <2>8. n - 1 \notin Bad
    BY <2>2, <2>6, <2>7
  <2>9. T \ {x} # {} => \E g \in T \ {x} : \A h \in T \ {x} : h.until <= g.until
    BY <2>6, <2>7, <2>8
  <2>10. CASE T \ {x} = {}
    BY <2>3, <2>4, <2>10
  <2>11. CASE T \ {x} # {}
    <3>1. PICK g \in T \ {x} : \A h \in T \ {x} : h.until <= g.until
      BY <2>9, <2>11
    <3>2. g.until \in Nat /\ x.until \in Nat /\ \A h \in T : h.until \in Nat
      BY <2>4
    <3>3. CASE x.until <= g.until
      BY <2>3, <3>1, <3>3
    <3>4. CASE g.until <= x.until
      BY <2>3, <2>4, <3>1, <3>2, <3>4
    <3> QED
      BY <3>2, <3>3, <3>4
  <2> QED
    BY <2>10, <2>11
<1>2. Cardinality(S) \in Nat
  BY FS_CardinalityType
<1> QED
  BY <1>1, <1>2

(* What a validation finds                                                 *)
LEMMA HostTyped ==
  ASSUME host \in DOMAIN HostStates
  PROVE  /\ Says \in HostSays
         /\ {Says.enrolledUntil, Says.policy.until, Says.context.until, Says.custody.from,
             Says.custody.until} \subseteq Nat
         /\ IsFiniteSet(Says.policy.grants)
         /\ \A g \in Says.policy.grants : g.id \in Nat /\ g.until \in Nat
<1>1. Says \in HostSays
  BY DEF Says, HostSays
<1> QED
  BY <1>1, ObservationConstants DEF Says

LEMMA GrantTyped ==
  ASSUME host \in DOMAIN HostStates, NEW identity,
         \E g \in Says.policy.grants : Applies(g, identity)
  PROVE  GrantFor(identity).id \in Nat /\ GrantFor(identity).until \in Nat
<1> DEFINE grants == Says.policy.grants
           matches == {g \in grants : Applies(g, identity)}
           longest == {g \in matches : \A h \in matches : h.until <= g.until}
           ids == {g.id : g \in longest}
<1>1. IsFiniteSet(grants) /\ \A g \in grants : g.id \in Nat /\ g.until \in Nat
  BY HostTyped
<1> HIDE DEF grants
<1>2. matches # {} /\ \A g \in matches : g.id \in Nat /\ g.until \in Nat
  BY <1>1 DEF grants
<1>3. IsFiniteSet(matches)
  BY <1>1, FS_Subset
<1> HIDE DEF matches
<1>4. \E g \in matches : \A h \in matches : h.until <= g.until
  BY <1>2, <1>3, LongestGrant
<1>5. ids # {} /\ ids \in SUBSET Nat
  BY <1>2, <1>4
<1>6. Min(ids) \in ids /\ \A k \in ids : Min(ids) <= k
  BY <1>5, LeastNumber
<1>7. PICK g \in longest : \A h \in longest : g.id <= h.id
  BY <1>6
<1>8. GrantFor(identity) = CHOOSE y \in longest : \A h \in longest : y.id <= h.id
  BY DEF GrantFor, matches, grants
<1>9. GrantFor(identity) \in longest
  BY <1>7, <1>8
<1> QED
  BY <1>2, <1>9

LEMMA BindingTyped ==
  ASSUME clock \in Nat, host \in DOMAIN HostStates, NEW r \in Requests, Bindable(Identity, r)
  PROVE  Binding(Identity, r) \in Bindings /\ Binding(Identity, r).from = clock
<1> DEFINE g == GrantFor(Identity)
           S == {r.until * Unit, Identity.until, Says.policy.until, Says.context.until, g.until}
<1>1. g.id \in Nat /\ g.until \in Nat
  BY GrantTyped DEF Bindable
<1>2. /\ Says \in HostSays /\ Says.enrolledUntil \in Nat /\ Says.policy.until \in Nat
      /\ Says.context.until \in Nat
  BY HostTyped
<1>3. Identity.until \in Nat /\ Identity.registry = Says.registry /\ Identity.principal = Says.principal
  <2> DEFINE T == {Says.enrolledUntil, clock + AttestedFor}
  <2>1. T \in SUBSET Nat /\ T # {}
    BY <1>2, ObservationConstants
  <2>2. Min(T) \in Nat
    BY <2>1, LeastNumber
  <2> QED
    BY <2>2 DEF Identity
<1>4. r.until * Unit \in Nat
  BY ObservationConstants, CustodyConstants
<1> HIDE DEF g
<1>5. S \in SUBSET Nat /\ S # {}
  BY <1>1, <1>2, <1>3, <1>4
<1>6. Min(S) \in Nat
  BY <1>5, LeastNumber
<1> DEFINE u == Min(S)
<1>7. Binding(Identity, r) =
        [request |-> r.name, registry |-> Says.registry, principal |-> Says.principal,
         policy |-> Says.policy.revision, grant |-> g.id, from |-> clock, until |-> u]
  BY <1>3 DEF Binding, g
<1> HIDE DEF u
<1> QED
  BY <1>1, <1>2, <1>6, <1>7 DEF Bindings, u

LEMMA Revalidates ==
  ASSUME clock \in Nat, host \in DOMAIN HostStates, NEW r \in Requests, NEW prior \in Bindings,
         NEW deadline, Live(r, prior, deadline)
  PROVE  /\ Revalidated(r, prior) \in Bindings /\ Within(Revalidated(r, prior), prior)
         /\ Revalidated(r, prior).from = clock
         /\ tick < deadline /\ prior.from <= clock /\ clock < prior.until
<1> DEFINE b == Binding(Identity, r)
           u == Min({prior.until, b.until})
<1>1. b \in Bindings /\ b.from = clock
  BY BindingTyped DEF Live
<1>2. /\ SameBinding(prior, b)
      /\ tick < deadline /\ prior.from <= clock /\ clock < prior.until
  BY DEF Live
<1>3. Revalidated(r, prior) = [b EXCEPT !.until = u]
  BY DEF Revalidated
<1> HIDE DEF b
<1>4. prior.until \in Nat /\ b.until \in Nat /\ prior.from \in Nat
  BY <1>1 DEF Bindings
<1>5. u \in Nat /\ u <= prior.until
  BY <1>4, LeastNumber
<1> HIDE DEF u
<1> QED
  BY <1>1, <1>2, <1>3, <1>5 DEF Bindings, Within, SameBinding

LEMMA WithinWithin ==
  ASSUME NEW a \in Bindings, NEW b \in Bindings, NEW c \in Bindings, Within(a, b), Within(b, c)
  PROVE  Within(a, c)
BY DEF Within, SameBinding, Bindings

(* The payload is dated inside every window.                               *)
LEMMA PayloadInside ==
  ASSUME clock \in Nat, tick \in Nat, NEW c \in Candidate, NEW b \in Bindings,
         Within(b, c.binding), NEW f \in Frame, FromFrame(c, f), tick < c.deadline,
         NEW pins, pins.until \in Nat, pins.from \in Nat, NEW limits, limits.from \in Nat,
         Dated(c, Payload(c, b, pins), limits)
  PROVE  /\ PayloadFits(Payload(c, b, pins), f)
         /\ Payload(c, b, pins).from = Second(b.from)
<1> DEFINE p == Payload(c, b, pins)
           ends == {c.request.until, Second(c.until), Second(b.until), Second(Envelope.until),
                    Trust.until, pins.until,
                    Second(b.from) + (c.deadline - tick) \div Unit}
           starts == {c.request.from, SecondAfter(c.from), SecondAfter(Envelope.from), Trust.from,
                      limits.from}
<1>1. /\ c.request \in Requests /\ c.from \in Nat /\ c.until \in Nat /\ c.deadline \in Nat
      /\ c.binding \in Bindings /\ f.binding \in Bindings
      /\ b.from \in Nat /\ b.until \in Nat /\ f.binding.from \in Nat /\ f.binding.until \in Nat
  BY DEF Candidate, Frame, Bindings
<1>2. /\ c.request.from \in Nat /\ c.request.until \in Nat /\ Envelope.from \in Nat
      /\ Envelope.until \in Nat /\ Trust.from \in Nat /\ Trust.until \in Nat
  BY <1>1, ObservationConstants
<1>3. /\ Second(c.until) \in Nat /\ Second(b.until) \in Nat /\ Second(Envelope.until) \in Nat
      /\ Second(b.from) \in Nat /\ SecondAfter(c.from) \in Nat /\ SecondAfter(Envelope.from) \in Nat
      /\ Second(b.until) * Unit <= b.until /\ Second(Envelope.until) * Unit <= Envelope.until
      /\ c.from <= SecondAfter(c.from) * Unit
  BY <1>1, <1>2, Seconds
<1>4. (c.deadline - tick) \div Unit \in Nat
  <2>1. c.deadline - tick \in Nat
    BY <1>1
  <2> QED
    BY <2>1, Seconds DEF Second
<1>5. ends \in SUBSET Nat /\ ends # {} /\ starts \in SUBSET Nat /\ starts # {}
  <2> HIDE DEF p
  <2>1. ends \in SUBSET Nat
    <3>1. Second(b.from) + (c.deadline - tick) \div Unit \in Nat
      BY <1>3, <1>4
    <3> QED
      BY <1>2, <1>3, <3>1
  <2>2. starts \in SUBSET Nat
    BY <1>1, <1>2, <1>3
  <2>3. c.request.until \in ends /\ c.request.from \in starts
    OBVIOUS
  <2> QED
    BY <2>1, <2>2, <2>3
<1>6. p.from = Second(b.from) /\ p.until = Min(ends) /\ p.binding = b
  BY DEF Payload
<1>7. /\ p.until \in Nat /\ p.until <= Second(b.until) /\ p.until <= Second(Envelope.until)
      /\ p.until <= Trust.until
  <2>1. {Second(b.until), Second(Envelope.until), Trust.until} \subseteq ends
    OBVIOUS
  <2> HIDE DEF p, ends, starts
  <2>2. Min(ends) \in Nat /\ \A k \in ends : Min(ends) <= k
    BY <1>5, LeastNumber
  <2> QED
    BY <1>6, <2>1, <2>2
<1>8. SecondAfter(c.from) <= p.from
  <2> DEFINE first == Max(starts)
  <2>1. first <= p.from
    BY DEF Dated
  <2>2. first \in Nat /\ SecondAfter(c.from) <= first
    BY <1>2, <1>3, GreatestOfFive
  <2> HIDE DEF first
  <2> QED
    BY <1>3, <1>6, <2>1, <2>2
<1> HIDE DEF p, ends, starts
<1>9. /\ SecondAfter(c.from) * Unit <= p.from * Unit
      /\ p.until * Unit <= Second(b.until) * Unit
      /\ p.until * Unit <= Second(Envelope.until) * Unit
  BY <1>3, <1>6, <1>7, <1>8, Seconds
<1>10. /\ f.binding.from <= c.from /\ Within(c.binding, f.binding)
  BY DEF FromFrame
<1>11. b.until <= f.binding.until /\ SameBinding(b, f.binding)
  BY <1>1, <1>10, WithinWithin DEF Within, SameBinding
<1>12. /\ p.from * Unit \in Nat /\ p.until * Unit \in Nat /\ SecondAfter(c.from) * Unit \in Nat
       /\ Second(b.until) * Unit \in Nat /\ Second(Envelope.until) * Unit \in Nat
  BY <1>3, <1>6, <1>7, CustodyConstants
<1> QED
  BY <1>1, <1>2, <1>3, <1>6, <1>7, <1>9, <1>10, <1>11, <1>12 DEF PayloadFits, SameBinding, p

(* Frames and candidates are only ever marked as used, and added.          *)
Kept(f, g) ==
  /\ g.request = f.request /\ g.binding = f.binding /\ g.deadline = f.deadline
  /\ f.used => g.used

FramesGo ==
  /\ requested' \in Seq(Frame)
  /\ \A i \in DOMAIN requested : i \in DOMAIN requested' /\ Kept(requested[i], requested'[i])

CandidatesGo ==
  /\ candidates' \in Seq(Candidate)
  /\ \A k \in DOMAIN candidates :
       /\ k \in DOMAIN candidates' /\ Kept(candidates[k], candidates'[k])
       /\ candidates'[k].frame = candidates[k].frame /\ candidates'[k].from = candidates[k].from

LEMMA FitsStay ==
  ASSUME NEW f, NEW g, Kept(f, g)
  PROVE  /\ \A c, d : Kept(c, d) /\ d.from = c.from /\ FromFrame(c, f) => FromFrame(d, g)
         /\ \A p : PayloadFits(p, f) => PayloadFits(p, g)
<1>1. ASSUME NEW c, NEW d, Kept(c, d), d.from = c.from, FromFrame(c, f)
      PROVE  FromFrame(d, g)
  BY <1>1 DEF Kept, FromFrame
<1>2. ASSUME NEW p, PayloadFits(p, f)
      PROVE  PayloadFits(p, g)
  BY <1>2 DEF Kept, PayloadFits
<1> QED
  BY <1>1, <1>2

LEMMA CandidatesStay ==
  ASSUME PathInv, FramesGo, CandidatesGo, DOMAIN candidates' = DOMAIN candidates
  PROVE  CandidatesFit'
<1>1. ASSUME NEW k \in DOMAIN candidates
      PROVE  /\ candidates'[k].frame \in DOMAIN requested'
             /\ FromFrame(candidates'[k], requested'[candidates'[k].frame])
  <2> DEFINE i == candidates[k].frame
  <2>1. i \in DOMAIN requested /\ FromFrame(candidates[k], requested[i])
    BY DEF PathInv, CandidatesFit
  <2>2. i \in DOMAIN requested' /\ Kept(requested[i], requested'[i])
    BY <2>1 DEF FramesGo
  <2>3. /\ Kept(candidates[k], candidates'[k]) /\ candidates'[k].frame = i
        /\ candidates'[k].from = candidates[k].from
    BY DEF CandidatesGo
  <2> HIDE DEF i
  <2>4. FromFrame(candidates'[k], requested'[i])
    BY <2>1, <2>2, <2>3, FitsStay
  <2> QED
    BY <2>2, <2>3, <2>4
<1>2. ASSUME NEW k \in DOMAIN candidates, NEW l \in DOMAIN candidates,
             candidates'[k].frame = candidates'[l].frame
      PROVE  k = l
  BY <1>2 DEF PathInv, CandidatesFit, CandidatesGo
<1> QED
  BY <1>1, <1>2 DEF CandidatesFit

LEMMA ReleasedStay ==
  ASSUME PathInv, FramesGo, CandidatesGo, UNCHANGED released
  PROVE  ReleasedFit'
<1>1. ASSUME NEW x \in released
      PROVE  LET f == requested'[x.frame] IN
             /\ \E k \in DOMAIN candidates' : candidates'[k].used /\ candidates'[k].frame = x.frame
             /\ x.tick < f.deadline
             /\ f.binding.from <= x.at /\ x.at < f.binding.until
             /\ x.payload.from <= Second(x.at) /\ Second(x.at) < x.payload.until
             /\ PayloadFits(x.payload, f)
  <2> DEFINE f == requested[x.frame]
             g == requested'[x.frame]
  <2>1. /\ x.tick < f.deadline
        /\ f.binding.from <= x.at /\ x.at < f.binding.until
        /\ x.payload.from <= Second(x.at) /\ Second(x.at) < x.payload.until
        /\ PayloadFits(x.payload, f)
    BY DEF PathInv, ReleasedFit
  <2>2. PICK k \in DOMAIN candidates : candidates[k].used /\ candidates[k].frame = x.frame
    BY DEF PathInv, ReleasedFit
  <2>3. x.frame \in DOMAIN requested
    BY <2>2 DEF PathInv, CandidatesFit
  <2>4. Kept(f, g)
    BY <2>3 DEF FramesGo
  <2>5. k \in DOMAIN candidates' /\ candidates'[k].used /\ candidates'[k].frame = x.frame
    BY <2>2 DEF CandidatesGo, Kept
  <2> HIDE DEF f, g
  <2>6. PayloadFits(x.payload, g)
    BY <2>1, <2>4, FitsStay
  <2>7. g.deadline = f.deadline /\ g.binding = f.binding
    BY <2>4 DEF Kept
  <2> QED
    BY <2>1, <2>5, <2>6, <2>7 DEF g
<1>2. \A x, y \in released' : x.frame = y.frame => x = y
  BY DEF PathInv, ReleasedFit
<1> QED
  BY <1>1, <1>2 DEF ReleasedFit

LEMMA Unmoved ==
  ASSUME PathInv
  PROVE  /\ UNCHANGED requested => FramesGo
         /\ UNCHANGED candidates => CandidatesGo
BY DEF PathInv, FramesGo, CandidatesGo, Kept

LEMMA FrameAdded ==
  ASSUME PathInv, NEW f \in Frame, requested' = Append(requested, f)
  PROVE  FramesGo
<1>1. /\ requested' \in Seq(Frame) /\ DOMAIN requested = 1..Len(requested)
      /\ DOMAIN requested' = 1..(Len(requested) + 1) /\ Len(requested) \in Nat
      /\ \A i \in 1..Len(requested) : requested'[i] = requested[i]
  BY AppendProperties, LenProperties DEF PathInv
<1> QED
  BY <1>1 DEF FramesGo, Kept

LEMMA FrameTaken ==
  ASSUME PathInv, NEW i \in DOMAIN requested,
         requested' = [requested EXCEPT ![i] = Taken(requested[i])]
  PROVE  FramesGo /\ requested'[i].used
<1> DEFINE f == requested[i]
           g == Taken(f)
<1>1. f \in Frame
  BY ElementOfSeq, LenProperties DEF PathInv
<1>2. g \in Frame /\ Kept(f, g) /\ g.used
  BY <1>1 DEF Taken, Kept, Frame
<1> HIDE DEF g
<1>3. /\ requested' \in Seq(Frame) /\ DOMAIN requested' = DOMAIN requested
      /\ \A k \in DOMAIN requested : requested'[k] = IF k = i THEN g ELSE requested[k]
  <2>1. requested \in Seq(Frame) /\ DOMAIN requested = 1..Len(requested)
    BY LenProperties DEF PathInv
  <2> QED
    BY <1>2, <2>1, ExceptSeq DEF g
<1> QED
  BY <1>2, <1>3 DEF FramesGo, Kept

LEMMA CandidateTaken ==
  ASSUME PathInv, NEW i \in DOMAIN candidates, Take(i)
  PROVE  /\ CandidatesGo /\ DOMAIN candidates' = DOMAIN candidates /\ candidates'[i].used
<1> DEFINE c == candidates[i]
           d == Taken(c)
<1>1. c \in Candidate
  BY ElementOfSeq, LenProperties DEF PathInv
<1>2. d \in Candidate /\ Kept(c, d) /\ d.used /\ d.frame = c.frame /\ d.from = c.from
  BY <1>1 DEF Taken, Kept, Candidate
<1> HIDE DEF d
<1>3. candidates' = [candidates EXCEPT ![i] = d]
  BY DEF Take, d
<1>4. /\ candidates' \in Seq(Candidate) /\ DOMAIN candidates' = DOMAIN candidates
      /\ \A k \in DOMAIN candidates : candidates'[k] = IF k = i THEN d ELSE candidates[k]
  <2>1. candidates \in Seq(Candidate) /\ DOMAIN candidates = 1..Len(candidates)
    BY LenProperties DEF PathInv
  <2> QED
    BY <1>2, <1>3, <2>1, ExceptSeq
<1> QED
  BY <1>2, <1>4 DEF CandidatesGo, Kept

(* Steps that change neither frames nor candidates nor what was released   *)
LEMMA QuietPath ==
  ASSUME PathInv, clock' \in Nat, tick' \in Nat, host' \in DOMAIN HostStates,
         UNCHANGED <<requested, candidates, released>>, JobFits'
  PROVE  PathInv'
<1>1. CandidatesFit' /\ ReleasedFit'
  BY DEF PathInv, CandidatesFit, ReleasedFit
<1> QED
  BY <1>1 DEF PathInv

LEMMA JobStays ==
  ASSUME PathInv, UNCHANGED <<requested, candidates, job, released>>
  PROVE  JobFits'
BY DEF PathInv, JobFits

LEMMA NoJobFits == job' = NoJob => JobFits'
BY DEF NoJob, JobFits, AtBridge

\* Requests and bindings of what is on record
LEMMA PathTyped ==
  ASSUME PathInv
  PROVE  /\ \A i \in DOMAIN requested : requested[i] \in Frame
         /\ \A k \in DOMAIN candidates : candidates[k] \in Candidate
BY ElementOfSeq, LenProperties DEF PathInv

(* From the frame to the candidate                                         *)
LEMMA AwaitFrameKept ==
  ASSUME PathInv, UNCHANGED clock, AwaitFrame
  PROVE  PathInv'
<1>1. tick + TransportBudget \in Nat
  BY ObservationConstants DEF PathInv
<1>2. JobFits'
  BY <1>1 DEF AwaitFrame, JobFits, AtBridge, NoJob
<1> QED
  BY <1>2, QuietPath DEF AwaitFrame, PathInv, custodyVars

LEMMA ReadFrameKept ==
  ASSUME PathInv, UNCHANGED clock, NEW r \in Requests, ReadFrame(r)
  PROVE  PathInv'
<1>1. job.deadline \in Nat
  BY DEF ReadFrame, PathInv, JobFits
<1>2. JobFits'
  BY <1>1 DEF ReadFrame, JobFits, AtBridge, NoJob
<1> QED
  BY <1>2, QuietPath DEF ReadFrame, PathInv, custodyVars

LEMMA BindFrameKept ==
  ASSUME PathInv, UNCHANGED clock, BindFrame
  PROVE  PathInv'
<1>1. /\ UNCHANGED <<tick, host, candidates, released>> /\ job' = NoJob /\ job.at = "bound"
  BY DEF BindFrame, custodyVars
<1>2. CASE UNCHANGED requested
  BY <1>1, <1>2, NoJobFits, QuietPath DEF PathInv
<1>3. CASE ~UNCHANGED requested
  <2> DEFINE b == Binding(Identity, job.request)
             S == {job.deadline, tick + HandoffBudget}
             d == Min(S)
             f == [request |-> job.request, binding |-> b, used |-> FALSE, deadline |-> d]
  <2>1. Bindable(Identity, job.request) /\ requested' = Append(requested, f)
    BY <1>3 DEF BindFrame
  <2>2. job.request \in Requests /\ job.deadline \in Nat
    BY <1>1 DEF PathInv, JobFits
  <2>3. b \in Bindings
    BY <2>1, <2>2, BindingTyped DEF PathInv
  <2>4. S \in SUBSET Nat /\ S # {}
    BY <2>2, ObservationConstants DEF PathInv
  <2>5. d \in Nat
    BY <2>4, LeastNumber
  <2> HIDE DEF b, d
  <2>6. f \in Frame
    BY <2>2, <2>3, <2>5 DEF Frame
  <2> HIDE DEF f
  <2>7. FramesGo /\ CandidatesGo
    BY <1>1, <2>1, <2>6, FrameAdded, Unmoved
  <2>8. CandidatesFit' /\ ReleasedFit' /\ JobFits'
    BY <1>1, <2>7, CandidatesStay, ReleasedStay, NoJobFits
  <2> QED
    BY <1>1, <2>7, <2>8 DEF PathInv, FramesGo
<1> QED
  BY <1>2, <1>3

LEMMA ObserveKept ==
  ASSUME PathInv, UNCHANGED clock, NEW i \in DOMAIN requested, Observe(i)
  PROVE  PathInv'
<1> DEFINE f == requested[i]
           b == Revalidated(f.request, f.binding)
<1>1. /\ UNCHANGED <<tick, host, candidates, released>> /\ ~f.used
      /\ requested' = [requested EXCEPT ![i] = Taken(requested[i])]
  BY DEF Observe, custodyVars
<1>2. FramesGo /\ CandidatesGo /\ requested'[i].used
  BY <1>1, FrameTaken, Unmoved
<1>3. CandidatesFit' /\ ReleasedFit'
  BY <1>1, <1>2, CandidatesStay, ReleasedStay
<1>4. JobFits'
  <2>1. CASE job' = NoJob
    BY <2>1, NoJobFits
  <2>2. CASE job' # NoJob
    <3> DEFINE u == ObservedUntil(b)
    <3>1. /\ Live(f.request, f.binding, f.deadline)
          /\ job' = [at |-> "observed", frame |-> i, request |-> f.request, binding |-> b,
                     until |-> u, deadline |-> f.deadline]
      BY <2>2 DEF Observe
    <3>2. f \in Frame
      BY PathTyped
    <3>3. f.request \in Requests /\ f.binding \in Bindings
      BY <3>2 DEF Frame
    <3>4. b \in Bindings /\ Within(b, f.binding)
      BY <3>1, <3>3, Revalidates DEF PathInv
    <3>5. u \in Nat
      <4>1. {b.until, Envelope.until} \in SUBSET Nat
        BY <3>4, ObservationConstants DEF Bindings
      <4> QED
        BY <4>1, LeastNumber DEF ObservedUntil
    <3>6. \A k \in DOMAIN candidates : candidates[k].frame # i
      BY <1>1 DEF PathInv, CandidatesFit, FromFrame
    <3>7. /\ i \in DOMAIN requested' /\ Kept(f, requested'[i])
      BY <1>2 DEF FramesGo
    <3> HIDE DEF b, u, f
    <3>8. /\ job'.at = "observed" /\ job'.frame = i /\ job'.request = f.request
          /\ job'.binding = b /\ job'.until = u /\ job'.deadline = f.deadline
      BY <3>1
    <3>9. /\ requested'[i].request = f.request /\ requested'[i].deadline = f.deadline
          /\ requested'[i].binding = f.binding
      BY <3>7 DEF Kept
    <3>10. \A k \in DOMAIN candidates' : candidates'[k].frame # i
      BY <1>1, <3>6
    <3> QED
      BY <1>2, <3>4, <3>5, <3>7, <3>8, <3>9, <3>10 DEF JobFits, AtBridge
  <2> QED
    BY <2>1, <2>2
<1> QED
  BY <1>1, <1>2, <1>3, <1>4 DEF PathInv, FramesGo

LEMMA PrepareSigningKept ==
  ASSUME PathInv, UNCHANGED clock, PrepareSigning
  PROVE  PathInv'
<1>1. /\ UNCHANGED <<tick, host, requested, released>> /\ job' = NoJob /\ job.at = "observed"
  BY DEF PrepareSigning, custodyVars
<1>2. JobFits'
  BY <1>1, NoJobFits
<1>3. CASE UNCHANGED candidates
  BY <1>1, <1>2, <1>3, QuietPath DEF PathInv
<1>4. CASE ~UNCHANGED candidates
  <2> DEFINE b == Revalidated(job.request, job.binding)
             u == Min({b.until, job.until})
             c == [frame |-> job.frame, request |-> job.request, binding |-> b, from |-> clock,
                   until |-> u, deadline |-> job.deadline, used |-> FALSE]
             f == requested[job.frame]
             n == Len(candidates) + 1
  <2>1. Live(job.request, job.binding, job.deadline) /\ candidates' = Append(candidates, c)
    BY <1>4 DEF PrepareSigning
  <2>2. /\ job.frame \in DOMAIN requested /\ f.used
        /\ job.request = f.request /\ job.deadline = f.deadline
        /\ job.binding \in Bindings /\ Within(job.binding, f.binding) /\ job.until \in Nat
        /\ \A k \in DOMAIN candidates : candidates[k].frame # job.frame
    BY <1>1 DEF PathInv, JobFits
  <2>3. f \in Frame
    BY <2>2, PathTyped
  <2>4. f.request \in Requests /\ f.binding \in Bindings /\ f.deadline \in Nat
    BY <2>3 DEF Frame
  <2> HIDE DEF f
  <2>5. /\ b \in Bindings /\ Within(b, job.binding) /\ job.binding.from <= clock
    BY <2>1, <2>2, <2>4, Revalidates DEF PathInv
  <2> HIDE DEF b
  <2>6. u \in Nat
    <3>1. {b.until, job.until} \in SUBSET Nat
      BY <2>2, <2>5 DEF Bindings
    <3> QED
      BY <3>1, LeastNumber
  <2> HIDE DEF u
  <2>7. job.frame \in Nat
    BY <2>2, LenProperties DEF PathInv
  <2>8. c \in Candidate
    <3>1. clock \in Nat /\ job.request \in Requests /\ job.deadline \in Nat
      BY <2>2, <2>4 DEF PathInv
    <3> QED
      BY <2>5, <2>6, <2>7, <3>1 DEF Candidate
  <2>9. Within(b, f.binding)
    BY <2>2, <2>4, <2>5, WithinWithin
  <2>10. f.binding.from <= clock
    BY <2>2, <2>4, <2>5 DEF Within, Bindings, PathInv
  <2>11. /\ c.frame = job.frame /\ ~c.used /\ FromFrame(c, f)
    BY <2>2, <2>9, <2>10 DEF FromFrame
  <2> HIDE DEF c
  <2>12. /\ candidates' \in Seq(Candidate) /\ DOMAIN candidates' = DOMAIN candidates \cup {n}
         /\ \A k \in DOMAIN candidates : candidates'[k] = candidates[k]
         /\ candidates'[n] = c
    BY <2>1, <2>8, AppendProperties, LenProperties DEF PathInv
  <2>13. FramesGo /\ CandidatesGo
    BY <1>1, <2>12, Unmoved DEF CandidatesGo, Kept
  <2>14. ReleasedFit'
    BY <1>1, <2>13, ReleasedStay
  <2> HIDE DEF n
  <2>15. CandidatesFit'
    <3>1. ASSUME NEW k \in DOMAIN candidates'
          PROVE  /\ candidates'[k].frame \in DOMAIN requested'
                 /\ FromFrame(candidates'[k], requested'[candidates'[k].frame])
      BY <1>1, <2>2, <2>11, <2>12 DEF PathInv, CandidatesFit, f
    <3>2. ASSUME NEW k \in DOMAIN candidates', NEW l \in DOMAIN candidates',
                 candidates'[k].frame = candidates'[l].frame
          PROVE  k = l
      BY <2>2, <2>11, <2>12, <3>2 DEF PathInv, CandidatesFit
    <3> QED
      BY <3>1, <3>2 DEF CandidatesFit
  <2> QED
    BY <1>1, <1>2, <2>12, <2>14, <2>15 DEF PathInv
<1> QED
  BY <1>3, <1>4

(* A candidate is taken, and signed for                                    *)
LEMMA CandidateSigned ==
  ASSUME PathInv, NEW i \in DOMAIN candidates, ~candidates[i].used, Take(i),
         UNCHANGED <<clock, tick, host, requested, released>>,
         NEW pins, pins.from \in Nat, pins.until \in Nat, NEW limits, limits.from \in Nat,
         \/ job' = NoJob
         \/ LET c == candidates[i]
                b == Revalidated(c.request, c.binding)
                p == Payload(c, b, pins)
            IN /\ Live(c.request, c.binding, c.deadline) /\ Dated(c, p, limits)
               /\ \/ job' = [at |-> "adapter", candidate |-> i, binding |-> b, payload |-> p]
                  \/ job' = [at |-> "taken", candidate |-> i, binding |-> b, payload |-> p,
                             pins |-> pins, began |-> 0]
  PROVE  PathInv'
<1> DEFINE c == candidates[i]
           f == requested[c.frame]
           b == Revalidated(c.request, c.binding)
           p == Payload(c, b, pins)
<1>1. /\ CandidatesGo /\ DOMAIN candidates' = DOMAIN candidates /\ candidates'[i].used
      /\ FramesGo
  BY CandidateTaken, Unmoved
<1>2. CandidatesFit' /\ ReleasedFit'
  BY <1>1, CandidatesStay, ReleasedStay
<1>3. JobFits'
  <2>1. CASE job' = NoJob
    BY <2>1, NoJobFits
  <2>2. CASE job' # NoJob
    <3>1. Live(c.request, c.binding, c.deadline) /\ Dated(c, p, limits)
      BY <2>2
    <3>2. /\ c.frame \in DOMAIN requested /\ FromFrame(c, f) /\ c \in Candidate
      BY PathTyped DEF PathInv, CandidatesFit
    <3>3. f \in Frame
      BY <3>2, PathTyped
    <3>4. c.request \in Requests /\ c.binding \in Bindings
      BY <3>2 DEF Candidate
    <3>5. /\ b \in Bindings /\ Within(b, c.binding) /\ tick < c.deadline
      BY <3>1, <3>4, Revalidates DEF PathInv
    <3> HIDE DEF b
    <3>6. PayloadFits(p, f) /\ p.from = Second(b.from)
      BY <3>1, <3>2, <3>3, <3>5, PayloadInside DEF PathInv, p
    <3>7. p.from <= Second(b.from)
      BY <3>5, <3>6, Seconds DEF Bindings
    <3>8. \A x \in released : x.frame # c.frame
      <4> SUFFICES ASSUME NEW x \in released, x.frame = c.frame
                   PROVE  FALSE
        OBVIOUS
      <4>1. PICK k \in DOMAIN candidates : candidates[k].used /\ candidates[k].frame = c.frame
        BY DEF PathInv, ReleasedFit
      <4>2. k = i
        BY <4>1 DEF PathInv, CandidatesFit
      <4> QED
        BY <4>1, <4>2
    <3> HIDE DEF p
    <3>9. /\ job'.at \in {"adapter", "taken"} /\ job'.candidate = i /\ job'.binding = b
          /\ job'.payload = p
          /\ job'.at = "taken" => job' = [at |-> "taken", candidate |-> i, binding |-> b,
                                          payload |-> p, pins |-> pins, began |-> 0]
      BY <2>2 DEF b, p
    <3>10. job'.at = "taken" => \E P, Q : job' \in BridgeJob(P, Q)
      <4>1. i \in Nat
        BY LenProperties DEF PathInv
      <4>2. job'.at = "taken" => job' \in BridgeJob({p}, {pins})
        BY <3>5, <3>9, <4>1 DEF BridgeJob, AtBridge
      <4> QED
        BY <4>2
    <3>11. /\ candidates'[i].frame = c.frame /\ candidates'[i].binding = c.binding
           /\ requested'[c.frame] = f
      BY <1>1 DEF CandidatesGo, Kept
    <3> HIDE DEF c, f
    <3> QED
      BY <1>1, <3>5, <3>6, <3>7, <3>8, <3>9, <3>10, <3>11 DEF JobFits, AtBridge
  <2> QED
    BY <2>1, <2>2
<1> QED
  BY <1>1, <1>2, <1>3 DEF PathInv, CandidatesGo

LEMMA AdapterSignKept ==
  ASSUME PathInv, UNCHANGED clock, NEW i \in DOMAIN candidates, AdapterSign(i)
  PROVE  PathInv'
<1> DEFINE pins == [key |-> ProviderKey, from |-> 0, until |-> Trust.until]
           limits == [from |-> 0]
<1>1. pins.from \in Nat /\ pins.until \in Nat /\ limits.from \in Nat
  BY ObservationConstants
<1>2. /\ ~candidates[i].used /\ Take(i) /\ UNCHANGED <<tick, host, requested, released>>
  BY DEF AdapterSign, custodyVars
<1>3. \/ job' = NoJob
      \/ LET c == candidates[i]
             b == Revalidated(c.request, c.binding)
             p == Payload(c, b, pins)
         IN /\ Live(c.request, c.binding, c.deadline) /\ Dated(c, p, limits)
            /\ job' = [at |-> "adapter", candidate |-> i, binding |-> b, payload |-> p]
  BY DEF AdapterSign
<1> HIDE DEF pins, limits
<1> QED
  BY <1>1, <1>2, <1>3, CandidateSigned

LEMMA BridgeTakesKept ==
  ASSUME PathInv, UNCHANGED clock, NEW i \in DOMAIN candidates, BridgeTakes(i)
  PROVE  PathInv'
<1> DEFINE pins == Says.custody
<1>1. pins.from \in Nat /\ pins.until \in Nat
  BY HostTyped DEF PathInv
<1>2. /\ ~candidates[i].used /\ Take(i) /\ UNCHANGED <<tick, host, requested, released>>
  BY DEF BridgeTakes, custodyVars
<1>3. \/ job' = NoJob
      \/ LET c == candidates[i]
             b == Revalidated(c.request, c.binding)
             p == Payload(c, b, pins)
         IN /\ Live(c.request, c.binding, c.deadline) /\ Dated(c, p, pins)
            /\ job' = [at |-> "taken", candidate |-> i, binding |-> b, payload |-> p,
                       pins |-> pins, began |-> 0]
  BY DEF BridgeTakes
<1> HIDE DEF pins
<1> QED
  BY <1>1, <1>2, <1>3, CandidateSigned


(* The bridge                                                              *)
LEMMA NumbersInOrder ==
  ASSUME NEW x \in Nat, NEW y \in Nat, NEW z \in Nat, x <= y, y <= z
  PROVE  x <= z
OBVIOUS

LEMMA WithinItself ==
  ASSUME NEW b \in Bindings
  PROVE  Within(b, b)
<1>1. b.from \in Nat /\ b.until \in Nat
  BY DEF Bindings
<1>2. b.from <= b.from /\ b.until <= b.until
  <2> DEFINE x == b.from
             y == b.until
  <2>1. x \in Nat /\ y \in Nat
    BY <1>1
  <2> HIDE DEF x, y
  <2>2. x <= x /\ y <= y
    BY <2>1
  <2> QED
    BY <2>2 DEF x, y
<1> QED
  BY <1>2 DEF Within, SameBinding

\* A job at the bridge goes on, with its binding or one inside it.
LEMMA BridgeGoesOn ==
  ASSUME PathInv, job.at \in AtBridge,
         UNCHANGED <<clock, tick, host, requested, candidates, released>>,
         NEW P, NEW Q, NEW b \in Bindings, Within(b, job.binding),
         job' \in BridgeJob(P, Q), job'.candidate = job.candidate, job'.binding = b,
         job'.payload = job.payload
  PROVE  PathInv'
<1> DEFINE c == candidates[job.candidate]
           f == requested[c.frame]
<1>1. /\ job.candidate \in DOMAIN candidates /\ c.used
      /\ job.binding \in Bindings /\ Within(job.binding, c.binding)
      /\ PayloadFits(job.payload, f)
      /\ job.payload.from <= Second(job.binding.from)
      /\ \A x \in released : x.frame # c.frame
  BY DEF PathInv, JobFits
<1>2. c.binding \in Bindings
  BY <1>1, PathTyped DEF Candidate
<1> HIDE DEF c, f
<1>3. Within(b, c.binding)
  BY <1>1, <1>2, WithinWithin
<1>4. /\ job.binding.from \in Nat /\ b.from \in Nat /\ job.payload.from \in Nat
      /\ job.binding.from <= b.from
  BY <1>1 DEF Bindings, PayloadFits, Within
<1>5. /\ Second(job.binding.from) <= Second(b.from) /\ Second(b.from) \in Nat
      /\ Second(job.binding.from) \in Nat
  BY <1>4, Seconds
<1>6. job.payload.from <= Second(b.from)
  BY <1>1, <1>4, <1>5, NumbersInOrder
<1>7. job'.at \in AtBridge
  BY DEF BridgeJob
<1>8. /\ job'.candidate \in DOMAIN candidates' /\ candidates'[job'.candidate] = c
      /\ requested'[c.frame] = f
  BY <1>1 DEF c, f
<1>9. JobFits'
  BY <1>1, <1>3, <1>6, <1>7, <1>8 DEF JobFits, AtBridge
<1> QED
  BY <1>9, QuietPath DEF PathInv

LEMMA BridgeRechecked ==
  ASSUME PathInv, job.at \in AtBridge, NEW stage \in AtBridge,
         UNCHANGED <<clock, tick, host, requested, candidates, released>>,
         LET c == candidates[job.candidate] IN
         job' = IF StillLive(c)
                THEN [job EXCEPT !.at = stage, !.binding = Revalidated(c.request, @)]
                ELSE NoJob
  PROVE  PathInv'
<1> DEFINE c == candidates[job.candidate]
           b == Revalidated(c.request, job.binding)
<1>1. PICK P, Q : job \in BridgeJob(P, Q)
  BY DEF PathInv, JobFits
<1>2. job.candidate \in DOMAIN candidates /\ job.binding \in Bindings
  BY DEF PathInv, JobFits
<1>3. c.request \in Requests
  BY <1>2, PathTyped DEF Candidate
<1>4. CASE StillLive(c)
  <2>1. Live(c.request, job.binding, c.deadline)
    BY <1>4 DEF StillLive
  <2>2. b \in Bindings /\ Within(b, job.binding)
    BY <1>2, <1>3, <2>1, Revalidates DEF PathInv
  <2>3. job' = [job EXCEPT !.at = stage, !.binding = b]
    BY <1>4
  <2> HIDE DEF b, c
  <2>4. /\ job' \in BridgeJob(P, Q) /\ job'.candidate = job.candidate
        /\ job'.binding = b /\ job'.payload = job.payload
    BY <1>1, <2>2, <2>3 DEF BridgeJob
  <2> QED
    BY <2>2, <2>4, BridgeGoesOn
<1>5. CASE ~StillLive(c)
  <2>1. job' = NoJob
    BY <1>5
  <2> QED
    BY <2>1, NoJobFits, QuietPath DEF PathInv
<1> QED
  BY <1>4, <1>5

LEMMA BridgeRechecksKept ==
  ASSUME PathInv, UNCHANGED clock, BridgeRechecks
  PROVE  PathInv'
<1>1. job.at \in AtBridge /\ "dispatch" \in AtBridge
  BY DEF BridgeRechecks, AtBridge
<1>2. UNCHANGED <<tick, host, requested, candidates, released>>
  BY DEF BridgeRechecks, custodyVars
<1>3. LET c == candidates[job.candidate] IN
      job' = IF StillLive(c)
             THEN [job EXCEPT !.at = "dispatch", !.binding = Revalidated(c.request, @)]
             ELSE NoJob
  BY DEF BridgeRechecks
<1> QED
  BY <1>1, <1>2, <1>3, BridgeRechecked

LEMMA BridgeVerifiesKept ==
  ASSUME PathInv, UNCHANGED clock, BridgeVerifies
  PROVE  PathInv'
<1>1. job.at \in AtBridge /\ "verified" \in AtBridge
  BY DEF BridgeVerifies, AtBridge
<1>2. UNCHANGED <<tick, host, requested, candidates, released>>
  BY DEF BridgeVerifies, custodyVars
<1> DEFINE c == candidates[job.candidate]
<1>3. CASE Verified(job.payload, c.request, Second(clock))
  <2>1. LET d == candidates[job.candidate] IN
        job' = IF StillLive(d)
               THEN [job EXCEPT !.at = "verified", !.binding = Revalidated(d.request, @)]
               ELSE NoJob
    BY <1>3 DEF BridgeVerifies
  <2> QED
    BY <1>1, <1>2, <2>1, BridgeRechecked
<1>4. CASE ~Verified(job.payload, c.request, Second(clock))
  <2>1. job' = NoJob
    BY <1>4 DEF BridgeVerifies
  <2> QED
    BY <1>2, <2>1, NoJobFits, QuietPath DEF PathInv
<1> QED
  BY <1>3, <1>4

LEMMA BridgeDispatchesKept ==
  ASSUME PathInv, UNCHANGED clock, BridgeDispatches
  PROVE  PathInv'
<1> DEFINE now == Second(clock)
<1>1. job.at \in AtBridge
  BY DEF BridgeDispatches, AtBridge
<1>2. UNCHANGED <<tick, host, requested, candidates, released>>
  BY DEF BridgeDispatches
<1>3. now \in Int
  BY Seconds DEF PathInv
<1>4. job' = NoJob \/ job' = [job EXCEPT !.at = "signing", !.began = now]
  BY DEF BridgeDispatches
<1> HIDE DEF now
<1>5. PICK P, Q : job \in BridgeJob(P, Q)
  BY <1>1 DEF PathInv, JobFits
<1>6. job.binding \in Bindings
  BY <1>1 DEF PathInv, JobFits
<1>7. CASE job' = [job EXCEPT !.at = "signing", !.began = now]
  <2>1. /\ job' \in BridgeJob(P, Q) /\ job'.candidate = job.candidate
        /\ job'.binding = job.binding /\ job'.payload = job.payload
    BY <1>3, <1>5, <1>7 DEF BridgeJob, AtBridge
  <2> QED
    BY <1>1, <1>2, <1>6, <2>1, WithinItself, BridgeGoesOn
<1>8. CASE job' = NoJob
  BY <1>2, <1>8, NoJobFits, QuietPath DEF PathInv
<1> QED
  BY <1>4, <1>7, <1>8

LEMMA BridgeReturnedKept ==
  ASSUME PathInv, UNCHANGED clock, NEW outcome, BridgeReturned(outcome)
  PROVE  PathInv'
<1>1. job.at \in AtBridge
  BY DEF BridgeReturned, AtBridge
<1>2. UNCHANGED <<tick, host, requested, candidates, released>>
  BY DEF BridgeReturned, custodyVars
<1>3. job' = NoJob \/ job' = [job EXCEPT !.at = "signed"]
  BY DEF BridgeReturned
<1>4. PICK P, Q : job \in BridgeJob(P, Q)
  BY <1>1 DEF PathInv, JobFits
<1>5. job.binding \in Bindings
  BY <1>1 DEF PathInv, JobFits
<1>6. CASE job' = [job EXCEPT !.at = "signed"]
  <2>1. /\ job' \in BridgeJob(P, Q) /\ job'.candidate = job.candidate
        /\ job'.binding = job.binding /\ job'.payload = job.payload
    BY <1>4, <1>6 DEF BridgeJob, AtBridge
  <2> QED
    BY <1>1, <1>2, <1>5, <2>1, WithinItself, BridgeGoesOn
<1>7. CASE job' = NoJob
  BY <1>2, <1>7, NoJobFits, QuietPath DEF PathInv
<1> QED
  BY <1>3, <1>6, <1>7

(* What is released, and delivered                                         *)
LEMMA ReleaseFits ==
  ASSUME PathInv, job.at \in AtBridge \cup {"adapter"}, job' = NoJob,
         UNCHANGED <<clock, tick, host, requested, candidates>>,
         LET c == candidates[job.candidate] IN
         /\ Live(c.request, job.binding, c.deadline)
         /\ Second(clock) < job.payload.until
         /\ ReleaseObservation(job.payload, c.frame)
  PROVE  PathInv'
<1> DEFINE c == candidates[job.candidate]
           f == requested[c.frame]
           p == job.payload
           x == [payload |-> p, frame |-> c.frame, at |-> clock, tick |-> tick]
<1>1. /\ job.candidate \in DOMAIN candidates /\ c.used
      /\ job.binding \in Bindings /\ Within(job.binding, c.binding)
      /\ PayloadFits(p, f) /\ p.from <= Second(job.binding.from)
      /\ \A y \in released : y.frame # c.frame
  BY DEF PathInv, JobFits
<1>2. c \in Candidate /\ c.frame \in DOMAIN requested /\ FromFrame(c, f)
  BY <1>1, PathTyped DEF PathInv, CandidatesFit
<1>3. f \in Frame
  BY <1>2, PathTyped
<1>4. /\ tick < c.deadline /\ job.binding.from <= clock /\ clock < job.binding.until
      /\ Second(clock) < p.until
  BY DEF Live
<1>5. released' = released \cup {x}
  BY DEF ReleaseObservation
<1>6. clock \in Nat
  BY DEF PathInv
<1> HIDE DEF c, f, p, x
<1>7. tick < f.deadline
  BY <1>2, <1>4 DEF FromFrame
<1>8. f.binding.from <= clock /\ clock < f.binding.until
  <2>1. c.binding \in Bindings /\ f.binding \in Bindings
    BY <1>2, <1>3 DEF Candidate, Frame
  <2>2. Within(job.binding, f.binding)
    BY <1>1, <1>2, <2>1, WithinWithin DEF FromFrame
  <2> QED
    BY <1>1, <1>4, <1>6, <2>1, <2>2 DEF Within, Bindings
<1>9. p.from <= Second(clock)
  <2>1. job.binding.from \in Nat /\ p.from \in Nat
    BY <1>1 DEF Bindings, PayloadFits
  <2>2. /\ Second(job.binding.from) <= Second(clock)
        /\ Second(job.binding.from) \in Nat /\ Second(clock) \in Nat
    BY <1>4, <1>6, <2>1, Seconds
  <2> QED
    BY <1>1, <2>1, <2>2, NumbersInOrder
<1>10. x.payload = p /\ x.frame = c.frame /\ x.at = clock /\ x.tick = tick
  BY DEF x
<1>11. \E k \in DOMAIN candidates' : candidates'[k].used /\ candidates'[k].frame = x.frame
  BY <1>1, <1>10 DEF c
<1>12. requested'[x.frame] = f
  BY <1>10 DEF f
<1>13. ReleasedFit'
  <2>1. ASSUME NEW y \in released
        PROVE  LET g == requested'[y.frame] IN
               /\ \E k \in DOMAIN candidates' : candidates'[k].used /\ candidates'[k].frame = y.frame
               /\ y.tick < g.deadline
               /\ g.binding.from <= y.at /\ y.at < g.binding.until
               /\ y.payload.from <= Second(y.at) /\ Second(y.at) < y.payload.until
               /\ PayloadFits(y.payload, g)
    BY DEF PathInv, ReleasedFit
  <2>2. LET g == requested'[x.frame] IN
        /\ x.tick < g.deadline
        /\ g.binding.from <= x.at /\ x.at < g.binding.until
        /\ x.payload.from <= Second(x.at) /\ Second(x.at) < x.payload.until
        /\ PayloadFits(x.payload, g)
    BY <1>1, <1>4, <1>7, <1>8, <1>9, <1>10, <1>12
  <2>3. \A y, z \in released' : y.frame = z.frame => y = z
    BY <1>1, <1>5, <1>10 DEF PathInv, ReleasedFit
  <2> QED
    BY <1>5, <1>11, <2>1, <2>2, <2>3 DEF ReleasedFit
<1>14. CandidatesFit' /\ JobFits'
  BY NoJobFits DEF PathInv, CandidatesFit
<1> QED
  BY <1>13, <1>14 DEF PathInv

LEMMA AdapterReturnsKept ==
  ASSUME PathInv, UNCHANGED clock, AdapterReturns
  PROVE  PathInv'
<1> DEFINE c == candidates[job.candidate]
<1>1. /\ job.at \in AtBridge \cup {"adapter"} /\ job' = NoJob
      /\ UNCHANGED <<tick, host, requested, candidates>>
  BY DEF AdapterReturns, custodyVars
<1>2. CASE /\ Live(c.request, job.binding, c.deadline)
           /\ Verified(job.payload, c.request, Second(clock))
  <2>1. ReleaseObservation(job.payload, c.frame) /\ Second(clock) < job.payload.until
    BY <1>2 DEF AdapterReturns, Verified
  <2> QED
    BY <1>1, <1>2, <2>1, ReleaseFits
<1>3. CASE ~(/\ Live(c.request, job.binding, c.deadline)
             /\ Verified(job.payload, c.request, Second(clock)))
  <2>1. UNCHANGED released
    BY <1>3 DEF AdapterReturns
  <2> QED
    BY <1>1, <2>1, NoJobFits, QuietPath DEF PathInv
<1> QED
  BY <1>2, <1>3

LEMMA BridgeReleasesKept ==
  ASSUME PathInv, UNCHANGED clock, BridgeReleases
  PROVE  PathInv'
<1> DEFINE c == candidates[job.candidate]
<1>1. /\ job.at \in AtBridge \cup {"adapter"} /\ job' = NoJob
      /\ UNCHANGED <<tick, host, requested, candidates>>
  BY DEF BridgeReleases, custodyVars, AtBridge
<1>2. CASE StillLive(c) /\ Second(clock) < job.payload.until
  <2>1. ReleaseObservation(job.payload, c.frame)
    BY <1>2 DEF BridgeReleases
  <2>2. Live(c.request, job.binding, c.deadline)
    BY <1>2 DEF StillLive
  <2> QED
    BY <1>1, <1>2, <2>1, <2>2, ReleaseFits
<1>3. CASE ~(StillLive(c) /\ Second(clock) < job.payload.until)
  <2>1. UNCHANGED released
    BY <1>3 DEF BridgeReleases
  <2> QED
    BY <1>1, <2>1, NoJobFits, QuietPath DEF PathInv
<1> QED
  BY <1>2, <1>3

LEMMA DeliveryKept ==
  ASSUME PathInv, UNCHANGED clock,
         \/ \E x \in released, left \in 1..HandoffBudget : StartDelivery(x, left)
         \/ \E last \in BOOLEAN : SendPiece(last)
  PROVE  PathInv'
<1>1. UNCHANGED <<tick, host, requested, candidates, released>>
  BY DEF StartDelivery, SendPiece, custodyVars
<1>2. job' = job \/ job' = NoJob \/ job'.at = "sending"
  BY DEF StartDelivery, SendPiece
<1>3. JobFits'
  <2>1. CASE job' = job
    BY <1>1, <2>1, JobStays
  <2>2. CASE job' = NoJob
    BY <2>2, NoJobFits
  <2>3. CASE job'.at = "sending"
    BY <2>3 DEF JobFits, AtBridge
  <2> QED
    BY <1>2, <2>1, <2>2, <2>3
<1> QED
  BY <1>1, <1>3, QuietPath DEF PathInv

(* The whole path                                                          *)
LEMMA PathInitially == Init => PathInv
<1> SUFFICES ASSUME Init
             PROVE  PathInv
  OBVIOUS
<1>1. /\ clock = 0 /\ tick = 0 /\ host = 1 /\ requested = <<>> /\ candidates = <<>>
      /\ job = NoJob /\ released = {}
  BY DEF Init, ObservationInit, CustodyInit
<1>2. 1 \in DOMAIN HostStates
  BY ObservationConstants
<1>3. requested \in Seq(Frame) /\ candidates \in Seq(Candidate) /\ DOMAIN candidates = {}
  BY <1>1
<1>4. JobFits
  BY <1>1 DEF JobFits, NoJob, AtBridge
<1>5. CandidatesFit
  BY <1>3 DEF CandidatesFit
<1>6. ReleasedFit
  BY <1>1 DEF ReleasedFit
<1> QED
  BY <1>1, <1>2, <1>3, <1>4, <1>5, <1>6 DEF PathInv

LEMMA ObservationKept ==
  ASSUME PathInv, tick' \in Nat, ObservationNext
  PROVE  PathInv'
<1>1. clock' \in Nat
  BY ClockConstants DEF ObservationNext, SetClock, Times, PathInv
<1>2. CASE UNCHANGED clock /\ AwaitFrame
  BY <1>2, AwaitFrameKept
<1>3. ASSUME UNCHANGED clock, NEW r \in Requests, ReadFrame(r)
      PROVE  PathInv'
  BY <1>3, ReadFrameKept
<1>4. CASE UNCHANGED clock /\ BindFrame
  BY <1>4, BindFrameKept
<1>5. ASSUME UNCHANGED clock, NEW i \in DOMAIN requested, Observe(i)
      PROVE  PathInv'
  BY <1>5, ObserveKept
<1>6. CASE UNCHANGED clock /\ PrepareSigning
  BY <1>6, PrepareSigningKept
<1>7. ASSUME UNCHANGED clock, NEW i \in DOMAIN candidates, AdapterSign(i) \/ BridgeTakes(i)
      PROVE  PathInv'
  BY <1>7, AdapterSignKept, BridgeTakesKept
<1>8. CASE UNCHANGED clock /\ AdapterReturns
  BY <1>8, AdapterReturnsKept
<1>9. CASE UNCHANGED clock /\ BridgeRechecks
  BY <1>9, BridgeRechecksKept
<1>10. CASE UNCHANGED clock /\ BridgeDispatches
  BY <1>10, BridgeDispatchesKept
<1>11. ASSUME UNCHANGED clock, NEW outcome \in KeyOutcomes, BridgeReturned(outcome)
       PROVE  PathInv'
  BY <1>11, BridgeReturnedKept
<1>12. CASE UNCHANGED clock /\ (BridgeVerifies \/ BridgeReleases)
  BY <1>12, BridgeVerifiesKept, BridgeReleasesKept
<1>13. CASE /\ UNCHANGED clock
            /\ \/ \E x \in released, left \in 1..HandoffBudget : StartDelivery(x, left)
               \/ \E last \in BOOLEAN : SendPiece(last)
  BY <1>13, DeliveryKept
<1>14. CASE HostChanges
  <2>1. host' \in DOMAIN HostStates
    BY <1>14, ObservationConstants DEF HostChanges, PathInv
  <2>2. UNCHANGED <<requested, candidates, job, released>>
    BY <1>14 DEF HostChanges
  <2> QED
    BY <1>1, <2>1, <2>2, JobStays, QuietPath
<1>15. CASE UNCHANGED observationVars
  <2>1. UNCHANGED <<host, requested, candidates, job, released>>
    BY <1>15 DEF observationVars
  <2> QED
    BY <1>1, <2>1, JobStays, QuietPath DEF PathInv
<1> QED
  BY <1>2, <1>3, <1>4, <1>5, <1>6, <1>7, <1>8, <1>9, <1>10, <1>11, <1>12, <1>13, <1>14,
     <1>15 DEF ObservationNext

LEMMA BrokerLeavesPath ==
  ASSUME PathInv, tick' \in Nat, BrokerNext, UNCHANGED observationVars
  PROVE  PathInv'
<1>1. clock' \in Nat
  BY ClockConstants DEF BrokerNext, SetClock, Times, PathInv
<1>2. UNCHANGED <<host, requested, candidates, job, released>>
  BY DEF observationVars
<1> QED
  BY <1>1, <1>2, JobStays, QuietPath DEF PathInv

LEMMA PathKept ==
  ASSUME PathInv, tick' \in Nat, [Next]_vars
  PROVE  PathInv'
<1>1. CASE BrokerNext /\ UNCHANGED observationVars
  BY <1>1, BrokerLeavesPath
<1>2. CASE ObservationNext
  BY <1>2, ObservationKept
<1>3. CASE UNCHANGED vars
  <2>1. UNCHANGED <<clock, host, requested, candidates, job, released>>
    BY <1>3 DEF vars, observationVars
  <2> QED
    BY <2>1, JobStays, QuietPath DEF PathInv
<1> QED
  BY <1>1, <1>2, <1>3 DEF Next

\* What PathInv says of an observation that was released.
LEMMA PathReleases == PathInv => ReleasedWithinEveryLease
<1> SUFFICES ASSUME PathInv
             PROVE  ReleasedWithinEveryLease
  OBVIOUS
<1>1. ASSUME NEW x \in released
      PROVE  LET f == requested[x.frame]
                 p == x.payload
             IN /\ x.tick < f.deadline
                /\ f.binding.from <= x.at /\ x.at < f.binding.until
                /\ p.from <= Second(x.at) /\ Second(x.at) < p.until
                /\ f.binding.from <= p.from * Unit
                /\ p.until * Unit <= Min({f.binding.until, Envelope.until, Trust.until * Unit})
                /\ SameBinding(p.binding, f.binding)
  <2> DEFINE f == requested[x.frame]
             p == x.payload
             ends == {f.binding.until, Envelope.until, Trust.until * Unit}
  <2>1. /\ x.tick < f.deadline
        /\ f.binding.from <= x.at /\ x.at < f.binding.until
        /\ p.from <= Second(x.at) /\ Second(x.at) < p.until
        /\ PayloadFits(p, f)
    BY DEF PathInv, ReleasedFit
  <2>2. f \in Frame
    <3>1. x.frame \in DOMAIN requested
      BY DEF PathInv, ReleasedFit, CandidatesFit
    <3> QED
      BY <3>1, PathTyped
  <2>3. /\ p.until \in Nat /\ p.until <= Trust.until
        /\ Trust.until \in Nat /\ Envelope.until \in Nat /\ f.binding.until \in Nat
    BY <2>1, <2>2, ObservationConstants DEF PayloadFits, Frame, Bindings
  <2>4. p.until * Unit <= Trust.until * Unit /\ Trust.until * Unit \in Nat
    BY <2>3, Seconds, CustodyConstants
  <2>5. Min(ends) \in ends
    <3>1. ends \in SUBSET Nat /\ ends # {}
      BY <2>3, <2>4
    <3> QED
      BY <3>1, LeastNumber
  <2>6. p.until * Unit <= Min(ends)
    BY <2>1, <2>4, <2>5 DEF PayloadFits
  <2> QED
    BY <2>1, <2>6 DEF PayloadFits
<1>2. \A x, y \in released : x.frame = y.frame => x = y
  BY DEF PathInv, ReleasedFit
<1> QED
  BY <1>1, <1>2 DEF ReleasedWithinEveryLease

LEMMA PathInvHolds == Spec => []PathInv
<1>1. PathInv /\ CustodyInv' /\ [Next]_vars => PathInv'
  BY PathKept DEF CustodyInv, Types
<1> QED
  BY PathInitially, <1>1, CustodyInvHolds, PTL DEF Spec

(* A frame leads to one signed observation at most, and it is handed over  *)
(* inside every lease it went through (observation_handoff.py,             *)
(* observation_bridge.py, observation_signer_adapter.py,                   *)
(* key_custody_bridge.py), whatever the clocks and the host did meanwhile. *)
THEOREM ReleasedInsideLeases == Spec => []ReleasedWithinEveryLease
BY PathInvHolds, PathReleases, PTL

=============================================================================
