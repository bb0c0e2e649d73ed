----------------------------- MODULE MCTreasury -----------------------------
(***************************************************************************)
(* Small instances of GatewayTreasury and TreasuryGateway, one per         *)
(* scenario: what is signed, by whom and for how long.  Four watch the     *)
(* treasury alone and three the treasury with Gateway.  Addresses: owners  *)
(* 1, 2, 3; payees 4, 5; token 7; the GatewayWallet 8; the treasury 9.     *)
(***************************************************************************)
EXTENDS TreasuryGateway, TLC

CONSTANTS n1, n2, n3
VARIABLE scenario

MCAddress == {0, 1, 2, 3, 4, 5, 7, 8, 9}
MCDomain == {5, 26}

Alice == toBytes32(4)
Bob == toBytes32(5)
SolanaKey == [upper |-> 1, addr |-> 4]   \* truncates to Alice's address
USDC == toBytes32(7)
SolanaUSDC == [upper |-> 1, addr |-> 7]

-----------------------------------------------------------------------------
(* Deployments *)

MCPolicy ==
    [allowedDestinationDomains |-> {5},
     allowedTokens |-> [t \in MCAddress |-> IF t = 7 THEN "USDC" ELSE ""],
     allowedDestinationTokens |-> {},
     allowedDestinationCallers |-> {},
     destinationMinters |-> [d \in MCDomain |-> toBytes32(8)],
     perIntentCap |-> 2, maxFeeCap |-> 1, maxExpiryBlocks |-> 2]

\* For the scenarios with Gateway: one that admits intents.
OpenPolicy ==
    [MCPolicy EXCEPT !.allowedDestinationDomains = MCDomain,
                     !.allowedDestinationTokens = {USDC, SolanaUSDC},
                     !.maxExpiryBlocks = 3]

Deployment(p, th, timelock) ==
    [owners |-> <<1, 2>>, weights |-> <<1, 1>>, threshold |-> th,
     recipients |-> {Alice, SolanaKey}, policy |-> p, adminTimelock |-> timelock]

\* The last one is refused by the constructor: its threshold is out of reach.
MCGenesis == {Deployment(MCPolicy, 2, 2), Deployment(MCPolicy, 2, 1),
              Deployment(OpenPolicy, 2, 1), Deployment(MCPolicy, 3, 1)}

-----------------------------------------------------------------------------
(* Calls *)

SetOwners(o, w, th) == [sel |-> "setOwners", newOwners |-> o,
                        newWeights |-> w, newThreshold |-> th]
SetRecipient(r, b) ==
    [sel |-> "setAllowedRecipient", recipient |-> r, allowed |-> b]
Unpause == [sel |-> "setPaused", paused |-> FALSE]

\* Rotation: a new owner set, an invalid one, a shorter timelock.
RotationCalls ==
    {SetOwners(<<2, 3>>, <<1, 1>>, 1), SetOwners(<<3, 3>>, <<1, 1>>, 2),
     [sel |-> "setAdminTimelock", secs |-> 1]}

\* Both removals from the allowlist, additions to it, unpausing.
AllowlistCalls ==
    {SetRecipient(Alice, FALSE), SetRecipient(SolanaKey, FALSE),
     SetRecipient(Bob, TRUE), SetRecipient(Alice, TRUE), Unpause}

\* Every policy setter, valid and not.
PolicyCalls ==
    {SetRecipient(Alice, FALSE), Unpause,
     [sel |-> "setAllowedDestinationDomain", domain |-> 26, allowed |-> TRUE],
     [sel |-> "setAllowedToken", token |-> 7, name |-> "", allowed |-> FALSE],
     [sel |-> "setAllowedToken", token |-> 0, name |-> "USDC",
      allowed |-> TRUE],
     [sel |-> "setDestinationMinter", domain |-> 5, minter |-> ZeroWord],
     [sel |-> "setAllowedDestinationCaller", caller |-> Bob, allowed |-> TRUE],
     [sel |-> "setAllowedDestinationToken", tok |-> Bob, allowed |-> TRUE],
     [sel |-> "setPerIntentCap", cap |-> 0],
     [sel |-> "setPerIntentCap", cap |-> 1],
     [sel |-> "setMaxFeeCap", cap |-> 0],
     [sel |-> "setMaxExpiryBlocks", blocks |-> 1],
     [sel |-> "other"]}

\* Money: into Gateway, back out of it, and to a payee.
PayAlice == [sel |-> "transferToRecipient", token |-> 7, recipient |-> Alice,
             amount |-> 1]
WithdrawCalls ==
    {[sel |-> "gatewayInitiateWithdrawal", token |-> 7, value |-> 1],
     [sel |-> "gatewayWithdraw", token |-> 7], PayAlice}

\* The payee may be removed between the queueing and the execution.
FundsCalls == WithdrawCalls \cup {[PayAlice EXCEPT !.recipient = SolanaKey],
                                  SetRecipient(Alice, FALSE)}

\* What changes the answer to an intent already signed.
BurnCalls ==
    {[sel |-> "setPerIntentCap", cap |-> 1], SetRecipient(Alice, FALSE),
     SetOwners(<<2, 3>>, <<1, 1>>, 2)}

MCCall == RotationCalls \cup AllowlistCalls \cup PolicyCalls \cup FundsCalls \cup BurnCalls

-----------------------------------------------------------------------------
(* Intents *)

ToAlice ==
    [maxBlockHeight |-> 4, maxFee |-> 1,
     spec |-> [version |-> 1, sourceDomain |-> 26, destinationDomain |-> 26,
               sourceContract |-> toBytes32(8),
               destinationContract |-> toBytes32(8),
               sourceToken |-> USDC, destinationToken |-> USDC,
               sourceDepositor |-> toBytes32(9),
               destinationRecipient |-> Alice,
               sourceSigner |-> toBytes32(9), destinationCaller |-> ZeroWord,
               value |-> 1, salt |-> 1, hookData |-> FALSE]]

ToSolana == [ToAlice EXCEPT !.spec.destinationDomain = 5,
                            !.spec.destinationRecipient = SolanaKey,
                            !.spec.destinationToken = SolanaUSDC]

\* Two that the policy admits; each other differs from one of them in a field.
BurnIntents ==
    {[ToAlice EXCEPT !.spec.value = 2], ToSolana,
     [ToAlice EXCEPT !.spec.value = 3],
     [ToAlice EXCEPT !.maxFee = 2],
     [ToAlice EXCEPT !.spec.destinationRecipient = SolanaKey],
     [ToSolana EXCEPT !.spec.destinationRecipient = Alice]}

MCIntent == BurnIntents \cup {ToAlice}
MCAuth == {[from |-> 9, to |-> 8, value |-> 1, validAfter |-> 0,
            validBefore |-> 3, nonce |-> 1]}

-----------------------------------------------------------------------------
(* Scenarios *)

Rotation == INSTANCE GatewayTreasury WITH
    Call <- RotationCalls, Intent <- {}, Nonce <- {n1, n2},
    Coalition <- {{1, 2}, {2, 3}}, Deadline <- {3}, MaxTime <- 5,
    MaxSignatures <- 3, MaxIncome <- 0
Allowlist == INSTANCE GatewayTreasury WITH
    Call <- AllowlistCalls, Intent <- {}, Nonce <- {n1, n2},
    Coalition <- {{1, 2}}, Deadline <- {3}, MaxTime <- 3,
    MaxSignatures <- 3, MaxIncome <- 0
Policies == INSTANCE GatewayTreasury WITH
    Call <- PolicyCalls, Intent <- {}, Nonce <- {n1, n2},
    Coalition <- {{1, 2}}, Deadline <- {3}, MaxTime <- 3,
    MaxSignatures <- 2, MaxIncome <- 0
Payments == INSTANCE GatewayTreasury WITH
    Call <- FundsCalls, Intent <- {}, Nonce <- {n1, n2, n3},
    Coalition <- {{1, 2}}, Deadline <- {3}, MaxTime <- 4,
    MaxSignatures <- 3, MaxIncome <- 2
Stops == INSTANCE TreasuryGateway WITH
    Call <- {Unpause}, Intent <- {ToAlice}, Auth <- {}, Nonce <- {n1, n2},
    Coalition <- {{1, 2}}, Deadline <- {9}, MaxTime <- 4,
    MaxSignatures <- 4, MaxIncome <- 1
Burning == INSTANCE TreasuryGateway WITH
    Call <- BurnCalls, Intent <- BurnIntents, Auth <- {}, Nonce <- {n1},
    Coalition <- {{1, 2}, {2, 3}}, Deadline <- {9}, MaxTime <- 4,
    MaxSignatures <- 2, MaxIncome <- 3
Funding == INSTANCE TreasuryGateway WITH
    Call <- WithdrawCalls, Intent <- {ToAlice}, Auth <- MCAuth, Nonce <- {n1, n2},
    Coalition <- {{1, 2}}, Deadline <- {9}, MaxTime <- 4,
    MaxSignatures <- 3, MaxIncome <- 2

\* The scenario is chosen with the deployment and stays.
Chosen(scenarios) == GatewayInit /\ scenario \in scenarios

TreasuryInit ==
    /\ Chosen({"rotation", "allowlist", "policies", "payments"})
    /\ policy = MCPolicy
    /\ scenario = "rotation" <=> adminTimelock = 2

TreasuryNext ==
    /\ UNCHANGED <<scenario, gatewayVars>>
    /\ \/ scenario = "rotation" /\ Rotation!Next
       \/ scenario = "allowlist" /\ Allowlist!Next
       \/ scenario = "policies" /\ Policies!Next
       \/ scenario = "payments" /\ Payments!Next

TreasurySpec == TreasuryInit /\ [][TreasuryNext]_<<vars, gatewayVars, scenario>>

WithGatewayInit ==
    /\ Chosen({"stops", "burning", "funding"})
    /\ policy = OpenPolicy

WithGatewayNext ==
    /\ UNCHANGED scenario
    /\ \/ scenario = "stops" /\ Stops!GatewayNext
       \/ scenario = "burning" /\ Burning!GatewayNext
       \/ scenario = "funding" /\ Funding!GatewayNext

WithGatewaySpec == WithGatewayInit /\ [][WithGatewayNext]_<<vars, gatewayVars, scenario>>

\* Nonces are never compared or computed with.  A scenario with two of them uses
\* n1 and n2: two of its states that a permutation of all three maps to one
\* another are mapped to one another by one of those two as well.
NonceSymmetry == Permutations(Nonce)
=============================================================================
