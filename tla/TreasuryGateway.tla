--------------------------- MODULE TreasuryGateway ---------------------------
(***************************************************************************)
(* The treasury together with the two parties that ask its ERC-1271 view:  *)
(* Circle Gateway, which evaluates it off-chain against a block up to      *)
(* MaxLag ticks old before it burns the treasury's balance, and an         *)
(* ERC-3009 token, which evaluates it on-chain while it moves tokens into  *)
(* the GatewayWallet (depositWithAuthorization).  Both are external; what  *)
(* they ask, GatewayTreasury.isValidSignature, is the code's.              *)
(***************************************************************************)
EXTENDS GatewayTreasury

CONSTANTS
    MaxLag,     \* ticks Gateway's view of the chain may lag behind
    Auth        \* the ReceiveWithAuthorization structs owners may sign

VARIABLES
    recent,     \* the treasury as it was at the end of the last MaxLag ticks
    burned,     \* intents Gateway has accepted and burned
    usedAuths   \* authorizations the token has consumed

gatewayVars == <<recent, burned, usedAuths>>

\* All that isValidSignature reads.
View == [policy : Policy, allowedRecipients : SUBSET Word, paused : BOOLEAN,
         revokedIntents : SUBSET Intent, weights : [Address -> Nat],
         thresholdWeight : Nat, block : Nat]

CurrentView ==
    [policy |-> policy, allowedRecipients |-> allowedRecipients,
     paused |-> paused, revokedIntents |-> revokedIntents,
     weights |-> weights, thresholdWeight |-> thresholdWeight,
     block |-> now]

AuthType == [from : Address, to : Address, value : Nat, validAfter : Nat,
             validBefore : Nat, nonce : Nat]

ASSUME GatewayAssumption ==
    /\ MaxLag \in Nat
    /\ Auth \subseteq AuthType
    /\ IsFiniteSet(Address)     \* 160 bits

-----------------------------------------------------------------------------
(* GatewayTreasury.isValidSignature, by the kind of its payload.           *)

\* Mutant: the payee's shape is not checked against the domain.
recipientAllowed_anyShape(v, d, w) == w \in v.allowedRecipients

recipientAllowed(v, d, w) ==
    w \in v.allowedRecipients /\ matchesDomainShape(d, w)

destinationAllowed(v, spec) ==
    LET d == spec.destinationDomain
        minter == v.policy.destinationMinters[d]
    IN
    /\ d \in v.policy.allowedDestinationDomains
    /\ minter # ZeroWord /\ spec.destinationContract = minter
    /\ spec.destinationToken \in v.policy.allowedDestinationTokens
    /\ matchesDomainShape(d, spec.destinationToken)
    /\ recipientAllowed(v, d, spec.destinationRecipient)
    /\ spec.destinationCaller # ZeroWord =>
          /\ spec.destinationCaller \in v.policy.allowedDestinationCallers
          /\ matchesDomainShape(d, spec.destinationCaller)

\* Mutant: a revoked intent is not refused.
stopped_pauseOnly(v, i) == v.paused

stopped(v, i) == v.paused \/ i \in v.revokedIntents

\* Kind 0: the owners S signed the burn intent i, and the policy admits it.
validateBurnIntent(v, i, S) ==
    /\ ~stopped(v, i)
    /\ checkIntentShape(i,
          [gatewayWallet |-> GatewayWallet, sourceDomain |-> LocalDomain,
           depositor |-> Self, maxExpiryBlocks |-> v.policy.maxExpiryBlocks,
           perIntentCap |-> v.policy.perIntentCap,
           maxFeeCap |-> v.policy.maxFeeCap],
          v.block)
    /\ v.policy.allowedTokens[truncate(i.spec.sourceToken)] # ""
    /\ destinationAllowed(v, i.spec)
    /\ S \subseteq SignersOf(burnIntentDigest(i))
    /\ checkWeightedSigs(v.weights, v.thresholdWeight, S)

\* Kind 1: the owners S signed a deposit of the calling token into Gateway.
\* The digest is rebuilt with the name the policy holds for the token.
validateReceiveWithAuth(token, auth, S) ==
    /\ isTokenAllowed(token)
    /\ auth.from = Self
    /\ auth.to = GatewayWallet
    /\ QuorumSigned(receiveWithAuthorizationDigest(
                        policy.allowedTokens[token], token, auth), S)

-----------------------------------------------------------------------------
(* External parties.                                                       *)

\* Gateway accepts an intent the view admitted at most MaxLag ticks ago, that
\* has not expired and was not used, and burns value + fee from the available
\* and then from the withdrawing balance.
GatewayBurn(i, v, fee, S) ==
    LET t == truncate(i.spec.sourceToken)
        debit == i.spec.value + fee
        fromAvailable == IF debit <= wallet[t].available
                         THEN debit ELSE wallet[t].available
    IN
    /\ i \notin burned
    /\ now <= i.maxBlockHeight
    /\ validateBurnIntent(v, i, S)
    /\ fee <= i.maxFee
    /\ debit <= wallet[t].available + wallet[t].withdrawing
    /\ wallet' = [wallet EXCEPT
          ![t].available = @ - fromAvailable,
          ![t].withdrawing = @ - (debit - fromAvailable)]
    /\ burned' = burned \cup {i}
    /\ UNCHANGED <<now, ownerVars, recipientVars, policy, paused,
                   revokedIntents, adminTimelock, adminEpoch, queueVars,
                   balance, income, signatures, recent, usedAuths>>

DepositWithAuthorization(token, auth, S) ==
    /\ now > auth.validAfter /\ now < auth.validBefore
    /\ <<token, auth.nonce>> \notin usedAuths
    /\ validateReceiveWithAuth(token, auth, S)
    /\ auth.value <= balance[token]
    /\ usedAuths' = usedAuths \cup {<<token, auth.nonce>>}
    /\ balance' = [balance EXCEPT ![token] = @ - auth.value]
    /\ wallet' = [wallet EXCEPT ![token].available = @ + auth.value]
    /\ UNCHANGED <<now, ownerVars, recipientVars, policy, paused,
                   revokedIntents, adminTimelock, adminEpoch, queueVars,
                   income, signatures, recent, burned>>

\* Any step of the treasury; when the clock advances, the view that ends the
\* tick joins the recent ones.
TreasuryStep ==
    /\ Next
    /\ recent' = IF now' = now THEN recent
                 ELSE LET all == Append(recent, CurrentView)
                      IN IF Len(all) > MaxLag THEN Tail(all) ELSE all
    /\ UNCHANGED <<burned, usedAuths>>

SignAuth(token, name, auth, S) ==
    /\ Sign(receiveWithAuthorizationDigest(name, token, auth), S)
    /\ UNCHANGED gatewayVars

GatewayInit == Init /\ recent = <<>> /\ burned = {} /\ usedAuths = {}

GatewayNext ==
    \/ TreasuryStep
    \/ \E a \in Auth, t \in Token, S \in Coalition, nm \in TokenName :
          SignAuth(t, nm, a, S)
    \/ \E i \in Intent, v \in Range(recent) \cup {CurrentView} :
       \E fee \in 0 .. i.maxFee, S \in SUBSET SignersOf(burnIntentDigest(i)) :
          GatewayBurn(i, v, fee, S)
    \/ \E a \in Auth, t \in Token : \E S \in SUBSET SignersOf(
             receiveWithAuthorizationDigest(policy.allowedTokens[t], t, a)) :
          DepositWithAuthorization(t, a, S)

GatewaySpec == GatewayInit /\ [][GatewayNext]_<<vars, gatewayVars>>

-----------------------------------------------------------------------------
(* Correctness.                                                            *)

\* What Gateway may be looking at.
Window == Range(recent) \cup {CurrentView}

Burns(i) == i \in burned' \ burned

\* The emergency stops reach Gateway after its lag and then hold: no intent
\* burns while every view Gateway may still hold is paused, and an intent
\* revoked in the oldest of them never burns, whoever signed it and whatever
\* happened to owners and policy since.
StopsTakeHold ==
    [][ \A i \in Intent : Burns(i) =>
           /\ \E v \in Window : ~v.paused
           /\ i \notin (IF recent = <<>> THEN revokedIntents
                        ELSE recent[1].revokedIntents)
      ]_<<vars, gatewayVars>>

\* What an intent costs and whom it pays was admitted by one single policy at
\* most MaxLag old: within perIntentCap + maxFeeCap of it (maxDebitPerIntent),
\* to a payee then on the allowlist, in a form the domain's minter pays out
\* unchanged, and signed by a quorum of the owners of that same moment.
BurnsStayWithinPolicy ==
    [][ \A i \in Intent : Burns(i) =>
           \E v \in Window :
              LET spec == i.spec
                  t == spec.sourceToken.addr
                  payee == spec.destinationRecipient
              IN
              /\ Funds(t)' < Funds(t)
              /\ Funds(t) - Funds(t)'
                    <= v.policy.perIntentCap + v.policy.maxFeeCap
              /\ \A u \in Address \ {t} : Funds(u)' = Funds(u)
              /\ payee \in v.allowedRecipients
              /\ IF spec.destinationDomain = SOLANA_DOMAIN
                 THEN payee # toBytes32(payee.addr)
                 ELSE payee = toBytes32(payee.addr)
              /\ \E S \in SUBSET SignersOf(burnIntentDigest(i)) :
                    checkWeightedSigs(v.weights, v.thresholdWeight, S)
      ]_<<vars, gatewayVars>>

\* No sequence of sweeps, withdrawals, deposits by authorization, transfers and
\* burns makes money: what the treasury holds, as tokens and at Gateway, and
\* what was burned for it never exceeds what it received.
FundsAreBacked ==
    SumFunctionOnSet([t \in Address |-> Funds(t)], Address)
    + SumFunctionOnSet([i \in Intent |-> i.spec.value], burned) <= income
=============================================================================
