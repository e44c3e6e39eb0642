--------------------------- MODULE MCCustodyHost ---------------------------
(***************************************************************************)
(* Half seconds.  Alice asks for a token, and bob for one of the same      *)
(* attempt; permission is had in full, or alice may only recover and bob   *)
(* only sign.  The host of the bridge replaces its policy, then the        *)
(* enrollment and the custody key, then the principal of the credential.   *)
(***************************************************************************)
EXTENDS CustodyHost

Pins(usable) ==
  [handle |-> "v1", anchor |-> "v1", key |-> "k", usable |-> usable,
   signers |-> {"alice", "bob"}, signer |-> "alice", from |-> 0, until |-> 3]

MCClients == {"alice", "bob"}
MCPermissionSets ==
  {MCClients \X {"SIGN", "RECOVER"}, {<<"alice", "RECOVER">>, <<"bob", "SIGN">>}}
MCBrokerPins == Pins(TRUE)
MCBrokerExpected == [name |-> "o", from |-> 0, until |-> 2]

Request(attempt, signer) ==
  [attempt |-> attempt, signer |-> signer, handle |-> "v1", from |-> 0, until |-> 1,
   payload |-> [key |-> "k", request |-> "o", from |-> 0, until |-> 2]]
MCCustodyRequests == {Request(1, "alice"), Request(1, "bob")}

Policy(revision, until) ==
  [revision |-> revision, until |-> until,
   grants |-> {[id |-> 1, principal |-> "p", until |-> 2],
               [id |-> 2, principal |-> "p", until |-> 4]}]

State(registry, principal, policy, custody) ==
  [registry |-> registry, principal |-> principal, enrolledUntil |-> 4, policy |-> policy,
   context |-> [registry |-> registry, policy |-> policy, until |-> 4], custody |-> custody]

MCHostStates ==
  <<State(1, "p", Policy(1, 4), Pins(TRUE)), State(1, "p", Policy(2, 3), Pins(TRUE)),
    State(2, "p", Policy(2, 3), Pins(FALSE)), State(3, "q", Policy(2, 3), Pins(TRUE))>>

MCRequests == {[name |-> "r", principal |-> "p", from |-> 0, until |-> 2]}
MCEnvelope == [from |-> 1, until |-> 4]
MCTrust == [key |-> "k", from |-> 0, until |-> 3]
=============================================================================
