------------------------ MODULE TreasuryGatewayProofs ------------------------
(***************************************************************************)
(* Theorems about the treasury composed with Circle Gateway, for any lag   *)
(* of Gateway's view, any intents and any authorizations.                  *)
(***************************************************************************)
EXTENDS TreasuryGateway, GatewayTreasuryProofs, SumTheorems

USE DEF ownerVars, recipientVars, queueVars, moneyVars, gatewayVars

all == <<vars, gatewayVars>>

-----------------------------------------------------------------------------
(* Types.                                                                  *)

\* What Gateway looks at, and what it has accepted.
GatewayType == recent \in Seq(View) /\ burned \subseteq Intent /\ IsFiniteSet(burned)

LEMMA ViewType == TypeOK => CurrentView \in View
  BY DEF TypeOK, CurrentView, View

LEMMA IntentType ==
    ASSUME NEW i \in Intent
    PROVE  /\ i.maxFee \in Nat /\ i.spec \in TransferSpec /\ i.spec.value \in Nat
           /\ i.spec.sourceToken \in Word /\ i.spec.destinationRecipient \in Word
           /\ truncate(i.spec.sourceToken) \in Address
           /\ truncate(i.spec.sourceToken) = i.spec.sourceToken.addr
  <1>1. i.maxFee \in Nat /\ i.spec \in TransferSpec
    BY TreasuryAssumption DEF BurnIntent
  <1>2. /\ i.spec.value \in Nat /\ i.spec.sourceToken \in Word
        /\ i.spec.destinationRecipient \in Word
    BY <1>1 DEF TransferSpec
  <1> QED
    BY <1>1, <1>2 DEF Word, truncate

\* What the treasury holds of a token.
LEMMA FundsType ==
    ASSUME TypeOK, NEW t \in Address
    PROVE  /\ balance[t] \in Nat /\ wallet[t] \in WalletAccount
           /\ wallet[t].available \in Nat /\ wallet[t].withdrawing \in Nat
           /\ Funds(t) \in Nat
           /\ Funds(t) = balance[t] + wallet[t].available + wallet[t].withdrawing
  <1>1. balance[t] \in Nat /\ wallet[t] \in WalletAccount
    BY DEF TypeOK
  <1>2. wallet[t].available \in Nat /\ wallet[t].withdrawing \in Nat
    BY <1>1 DEF WalletAccount
  <1> QED
    BY <1>1, <1>2 DEF Funds

\* A burn takes value and fee from one token's Gateway balance, first from
\* what is available and then from what is being withdrawn.
LEMMA BurnEffect ==
    ASSUME TypeOK, NEW i \in Intent, NEW v, NEW fee \in 0 .. i.maxFee, NEW S,
           GatewayBurn(i, v, fee, S)
    PROVE  LET t == truncate(i.spec.sourceToken) IN
           /\ wallet' \in [Address -> WalletAccount]
           /\ Funds(t)' = Funds(t) - (i.spec.value + fee)
           /\ \A u \in Address \ {t} : Funds(u)' = Funds(u)
  <1> DEFINE t == truncate(i.spec.sourceToken)
             debit == i.spec.value + fee
             a == wallet[t].available
             w == wallet[t].withdrawing
             part == IF debit <= a THEN debit ELSE a
             acc == [wallet[t] EXCEPT !.available = a - part,
                                      !.withdrawing = w - (debit - part)]
  <1>1. t \in Address /\ debit \in Nat
    BY IntentType
  <1>2. balance[t] \in Nat /\ wallet[t] \in WalletAccount /\ a \in Nat /\ w \in Nat
    BY <1>1, FundsType
  <1>3. debit <= a + w /\ UNCHANGED balance
    BY DEF GatewayBurn
  <1>4. wallet' = [wallet EXCEPT ![t] = acc]
    <2>1. wallet' = [wallet EXCEPT ![t].available = a - part,
                                   ![t].withdrawing = w - (debit - part)]
      BY DEF GatewayBurn
    <2>2. wallet \in [Address -> WalletAccount]
      BY DEF TypeOK
    <2> HIDE DEF part, debit, t
    <2> QED
      BY <1>1, <1>2, <2>1, <2>2 DEF WalletAccount
  <1>5. part \in Nat /\ a - part \in Nat /\ w - (debit - part) \in Nat
    BY <1>1, <1>2, <1>3, SMTT(30)
  <1>6. acc \in WalletAccount /\ acc.available = a - part
        /\ acc.withdrawing = w - (debit - part)
    <2> HIDE DEF part, debit, t
    <2> QED
      BY <1>2, <1>5 DEF WalletAccount
  <1> HIDE DEF acc, t
  <1>7. wallet' \in [Address -> WalletAccount]
    BY <1>1, <1>4, <1>6 DEF TypeOK
  <1>8. wallet'[t] = acc /\ \A u \in Address \ {t} : wallet'[u] = wallet[u]
    BY <1>1, <1>4 DEF TypeOK
  <1>9. Funds(t)' = Funds(t) - debit
    <2>1. Funds(t)' = balance[t] + acc.available + acc.withdrawing
      BY <1>3, <1>8 DEF Funds
    <2>2. Funds(t) = balance[t] + a + w
      BY DEF Funds
    <2> HIDE DEF part, debit, a, w
    <2> QED
      BY <1>1, <1>2, <1>5, <1>6, <2>1, <2>2
  <1>10. \A u \in Address \ {t} : Funds(u)' = Funds(u)
    BY <1>3, <1>8 DEF Funds
  <1> QED
    BY <1>7, <1>9, <1>10 DEF t

\* A deposit by authorization moves tokens into Gateway.
LEMMA DepositEffect ==
    ASSUME TypeOK, NEW t \in Token, NEW auth \in Auth, NEW S,
           DepositWithAuthorization(t, auth, S)
    PROVE  /\ wallet' \in [Address -> WalletAccount] /\ balance' \in [Address -> Nat]
           /\ \A u \in Address : Funds(u)' = Funds(u)
  <1> DEFINE acc == [wallet[t] EXCEPT !.available = @ + auth.value]
  <1>1. t \in Address /\ auth.value \in Nat
    BY TreasuryAssumption, GatewayAssumption DEF AuthType
  <1>2. /\ balance[t] \in Nat /\ wallet[t] \in WalletAccount
        /\ wallet[t].available \in Nat /\ wallet[t].withdrawing \in Nat
    BY <1>1, FundsType
  <1>3. auth.value <= balance[t] /\ balance' = [balance EXCEPT ![t] = @ - auth.value]
    BY DEF DepositWithAuthorization
  <1>4. wallet' = [wallet EXCEPT ![t] = acc]
    BY DEF DepositWithAuthorization
  <1>5. /\ acc \in WalletAccount /\ acc.available = wallet[t].available + auth.value
        /\ acc.withdrawing = wallet[t].withdrawing
    BY <1>1, <1>2 DEF WalletAccount
  <1> HIDE DEF acc
  <1>6. wallet' \in [Address -> WalletAccount]
    BY <1>1, <1>4, <1>5 DEF TypeOK
  <1>7. balance' \in [Address -> Nat]
    BY <1>1, <1>2, <1>3 DEF TypeOK
  <1>8. ASSUME NEW u \in Address PROVE Funds(u)' = Funds(u)
    <2>1. CASE u = t
      <3>1. balance'[t] = balance[t] - auth.value /\ wallet'[t] = acc
        BY <1>1, <1>3, <1>4 DEF TypeOK
      <3> QED
        BY <1>1, <1>2, <1>5, <2>1, <3>1 DEF Funds
    <2>2. CASE u # t
      <3>1. balance'[u] = balance[u] /\ wallet'[u] = wallet[u]
        BY <1>3, <1>4, <2>2 DEF TypeOK
      <3> QED
        BY <3>1 DEF Funds
    <2> QED
      BY <2>1, <2>2
  <1> QED
    BY <1>6, <1>7, <1>8

LEMMA GatewayTypeInit == GatewayInit => TypeOK /\ GatewayType
  BY TypeInit, FS_EmptySet DEF GatewayInit, GatewayType

\* The views that a step adds or drops.
LEMMA RecentStep ==
    ASSUME TypeOK, recent \in Seq(View), TreasuryStep
    PROVE  /\ recent' \in Seq(View)
           /\ \/ recent' = recent
              \/ recent' = Append(recent, CurrentView)
              \/ recent' = Tail(Append(recent, CurrentView))
  <1>1. CurrentView \in View
    BY ViewType
  <1>2. /\ Append(recent, CurrentView) \in Seq(View)
        /\ Tail(Append(recent, CurrentView)) \in Seq(View)
    <2>1. Append(recent, CurrentView) \in Seq(View)
      BY <1>1
    <2>2. Len(Append(recent, CurrentView)) = Len(recent) + 1 /\ Len(recent) \in Nat
      BY <1>1
    <2>3. \A s \in Seq(View) : Len(s) > 0 => Tail(s) \in Seq(View)
      OBVIOUS
    <2> QED
      BY <2>1, <2>2, <2>3
  <1> QED
    BY <1>2 DEF TreasuryStep

LEMMA GatewayTypeStep == TypeOK /\ GatewayType /\ [GatewayNext]_all
                           => TypeOK' /\ GatewayType'
  <1> SUFFICES ASSUME TypeOK, GatewayType, [GatewayNext]_all
               PROVE  TypeOK' /\ GatewayType'
    OBVIOUS
  <1>1. CASE TreasuryStep
    <2>1. TypeOK'
      BY <1>1, TypeStep DEF TreasuryStep
    <2> QED
      BY <1>1, <2>1, RecentStep DEF TreasuryStep, GatewayType
  <1>2. ASSUME NEW a \in Auth, NEW t \in Token, NEW S \in Coalition, NEW nm \in TokenName,
               SignAuth(t, nm, a, S)
        PROVE  TypeOK' /\ GatewayType'
    <2>1. \A s \in signatures' : s.by \subseteq Address /\ s.epoch \in Nat
      <3>1. S \subseteq Address
        BY TreasuryAssumption
      <3> DEFINE m == receiveWithAuthorizationDigest(nm, t, a)
      <3>2. Sign(m, S)
        BY <1>2 DEF SignAuth
      <3> HIDE DEF m
      <3> QED
        BY <3>1, <3>2 DEF Sign, TypeOK
    <2> QED
      BY <1>2, <2>1 DEF SignAuth, Sign, TypeOK, GatewayType
  <1>3. ASSUME NEW i \in Intent, NEW v, NEW fee \in 0 .. i.maxFee, NEW S,
               GatewayBurn(i, v, fee, S)
        PROVE  TypeOK' /\ GatewayType'
    <2>1. TypeOK'
      <3>1. wallet' \in [Address -> WalletAccount]
        BY <1>3, BurnEffect
      <3> QED
        BY <1>3, <3>1 DEF GatewayBurn, TypeOK
    <2>2. IsFiniteSet(burned')
      BY <1>3, FS_AddElement DEF GatewayBurn, GatewayType
    <2> QED
      BY <1>3, <2>1, <2>2 DEF GatewayBurn, GatewayType
  <1>4. ASSUME NEW a \in Auth, NEW t \in Token, NEW S, DepositWithAuthorization(t, a, S)
        PROVE  TypeOK' /\ GatewayType'
    <2>1. wallet' \in [Address -> WalletAccount] /\ balance' \in [Address -> Nat]
      BY <1>4, DepositEffect
    <2> QED
      BY <1>4, <2>1 DEF DepositWithAuthorization, TypeOK, GatewayType
  <1>5. CASE UNCHANGED all
    BY <1>5 DEF all, vars, TypeOK, GatewayType
  <1> QED
    BY <1>1, <1>2, <1>3, <1>4, <1>5 DEF GatewayNext

LEMMA GatewayTypes == GatewaySpec => [](TypeOK /\ GatewayType)
  BY GatewayTypeInit, GatewayTypeStep, PTL DEF GatewaySpec, all

-----------------------------------------------------------------------------
(* Burns.                                                                  *)

\* An intent that burns was admitted by a view in Gateway's window.
LEMMA BurnIsAdmitted ==
    ASSUME TypeOK, [GatewayNext]_all, NEW i \in Intent, Burns(i)
    PROVE  \E v \in Window : \E fee \in 0 .. i.maxFee :
           \E S \in SUBSET SignersOf(burnIntentDigest(i)) : GatewayBurn(i, v, fee, S)
  <1>1. burned' # burned /\ i \in burned' /\ i \notin burned
    BY DEF Burns
  <1>2. ~TreasuryStep /\ ~UNCHANGED all
    BY <1>1 DEF TreasuryStep, all
  <1>3. \A a, t, S, nm : ~SignAuth(t, nm, a, S) /\ ~DepositWithAuthorization(t, a, S)
    BY <1>1 DEF SignAuth, DepositWithAuthorization
  <1>4. PICK j \in Intent, v \in Window :
            \E fee \in 0 .. j.maxFee, S \in SUBSET SignersOf(burnIntentDigest(j)) :
               GatewayBurn(j, v, fee, S)
    BY <1>2, <1>3 DEF GatewayNext, Window
  <1>5. j = i
    BY <1>1, <1>4 DEF GatewayBurn
  <1> QED
    BY <1>4, <1>5

\* Revocations only accumulate: each view holds those of the views before it.
RevocationsGrow ==
    /\ \A k, l \in 1 .. Len(recent) :
          k <= l => recent[k].revokedIntents \subseteq recent[l].revokedIntents
    /\ \A k \in 1 .. Len(recent) : recent[k].revokedIntents \subseteq revokedIntents

LEMMA RevocationsGrowStep ==
    TypeOK /\ GatewayType /\ RevocationsGrow /\ [GatewayNext]_all => RevocationsGrow'
  <1> SUFFICES ASSUME TypeOK, GatewayType, RevocationsGrow, [GatewayNext]_all
               PROVE  RevocationsGrow'
    OBVIOUS
  <1>1. CASE TreasuryStep
    <2>1. revokedIntents \subseteq revokedIntents'
      BY <1>1 DEF TreasuryStep, Next, Tick, ReceiveTokens, sweepToGateway, Sign,
                  queueAdmin, cancelAdmin, pause, revokeIntent, executeAdmin
    <2> DEFINE s == Append(recent, CurrentView)
               n == Len(recent)
    <2>2. recent \in Seq(View) /\ CurrentView \in View /\ n \in Nat
      BY ViewType DEF GatewayType
    <2>3. CurrentView.revokedIntents = revokedIntents
      BY DEF CurrentView
    <2>4. /\ s \in Seq(View) /\ Len(s) = n + 1 /\ s[n + 1] = CurrentView
          /\ \A k \in 1 .. n : s[k] = recent[k]
      BY <2>2
    <2> HIDE DEF s
    <2>5. /\ \A k, l \in 1 .. Len(s) :
                k <= l => s[k].revokedIntents \subseteq s[l].revokedIntents
          /\ \A k \in 1 .. Len(s) : s[k].revokedIntents \subseteq revokedIntents
      <3>1. \A k \in 1 .. Len(s) : k \in 1 .. n \/ k = n + 1
        BY <2>2, <2>4
      <3>2. \A k \in 1 .. Len(s) : s[k].revokedIntents \subseteq revokedIntents
        BY <2>3, <2>4, <3>1 DEF RevocationsGrow
      <3>3. ASSUME NEW k \in 1 .. Len(s), NEW l \in 1 .. Len(s), k <= l
            PROVE  s[k].revokedIntents \subseteq s[l].revokedIntents
        <4>1. CASE l = n + 1
          BY <2>3, <2>4, <3>2, <4>1
        <4>2. CASE l \in 1 .. n
          <5>1. k \in 1 .. n
            BY <2>2, <2>4, <3>3, <4>2
          <5> QED
            BY <2>4, <3>3, <4>2, <5>1 DEF RevocationsGrow
        <4> QED
          BY <3>1, <4>1, <4>2
      <3> QED
        BY <3>2, <3>3
    <2>6. Len(Tail(s)) = n /\ \A k \in 1 .. n : Tail(s)[k] = s[k + 1] /\ k + 1 \in 1 .. Len(s)
      BY <2>2, <2>4
    <2>7. \/ recent' = recent \/ recent' = s \/ recent' = Tail(s)
      BY <1>1, <2>2, RecentStep DEF s
    <2>8. CASE recent' = recent
      BY <2>1, <2>8 DEF RevocationsGrow
    <2>9. CASE recent' = s
      BY <2>1, <2>5, <2>9 DEF RevocationsGrow
    <2>10. CASE recent' = Tail(s)
      <3>1. \A k \in 1 .. n : Tail(s)[k].revokedIntents \subseteq revokedIntents'
        BY <2>1, <2>5, <2>6
      <3>2. \A k, l \in 1 .. n :
               k <= l => Tail(s)[k].revokedIntents \subseteq Tail(s)[l].revokedIntents
        <4>1. \A k, l \in 1 .. n : k <= l => k + 1 <= l + 1
          BY <2>2
        <4> QED
          BY <2>5, <2>6, <4>1
      <3> QED
        BY <2>6, <2>10, <3>1, <3>2 DEF RevocationsGrow
    <2> QED
      BY <2>7, <2>8, <2>9, <2>10
  <1>2. CASE UNCHANGED <<recent, revokedIntents>>
    BY <1>2 DEF RevocationsGrow
  <1> QED
    BY <1>1, <1>2, ZenonT(40) DEF GatewayNext, SignAuth, Sign, GatewayBurn,
                      DepositWithAuthorization, all, vars

\* Whatever Gateway looks at, it never burns an intent that was revoked in the
\* oldest view it may hold, nor any intent when all these views are paused.
THEOREM StopsAlwaysTakeHold == GatewaySpec => StopsTakeHold
  <1> DEFINE Oldest == IF recent = <<>> THEN revokedIntents ELSE recent[1].revokedIntents
             A == \A i \in Intent : Burns(i) =>
                     /\ \E v \in Window : ~v.paused
                     /\ i \notin Oldest
  <1>1. RevocationsGrow /\ GatewayType => \A v \in Window : Oldest \subseteq v.revokedIntents
    <2> SUFFICES ASSUME RevocationsGrow, GatewayType, NEW v \in Window
                 PROVE  Oldest \subseteq v.revokedIntents
      OBVIOUS
    <2>1. recent \in Seq(View) /\ (recent # <<>> => 1 \in 1 .. Len(recent))
      BY DEF GatewayType
    <2>2. CASE v = CurrentView
      BY <2>1, <2>2 DEF CurrentView, RevocationsGrow
    <2>3. ASSUME NEW k \in 1 .. Len(recent), v = recent[k]
          PROVE  Oldest \subseteq v.revokedIntents
      <3>1. recent # <<>> /\ 1 <= k
        BY <2>1, <2>3
      <3> QED
        BY <2>1, <2>3, <3>1 DEF RevocationsGrow
    <2>4. v \in Range(recent) => \E k \in 1 .. Len(recent) : v = recent[k]
      BY <2>1 DEF Range
    <2> QED
      BY <2>2, <2>3, <2>4 DEF Window
  <1>2. TypeOK /\ GatewayType /\ RevocationsGrow /\ [GatewayNext]_all => [A]_all
    <2> SUFFICES ASSUME TypeOK, GatewayType, RevocationsGrow, [GatewayNext]_all,
                        NEW i \in Intent, Burns(i)
                 PROVE  (\E v \in Window : ~v.paused) /\ i \notin Oldest
      OBVIOUS
    <2>1. PICK v \in Window : \E fee, S : GatewayBurn(i, v, fee, S)
      BY BurnIsAdmitted
    <2>2. ~v.paused /\ i \notin v.revokedIntents
      BY <2>1 DEF GatewayBurn, validateBurnIntent, stopped
    <2> QED
      BY <1>1, <2>2
  <1>3. GatewayInit => RevocationsGrow
    BY DEF GatewayInit, RevocationsGrow
  <1> QED
    BY <1>2, <1>3, GatewayTypes, RevocationsGrowStep, PTL
       DEF GatewaySpec, StopsTakeHold, all

\* A burn stays within the caps and the allowlist of one view at most MaxLag
\* old, touches one token, pays out in a form the domain's minter keeps, and
\* was signed by a quorum of the owners of that view.
THEOREM BurnsWithinPolicy == GatewaySpec => BurnsStayWithinPolicy
  <1> DEFINE Admits(i, v) ==
                LET spec == i.spec
                    t == spec.sourceToken.addr
                    payee == spec.destinationRecipient
                IN
                /\ Funds(t)' < Funds(t)
                /\ Funds(t) - Funds(t)' <= v.policy.perIntentCap + v.policy.maxFeeCap
                /\ \A u \in Address \ {t} : Funds(u)' = Funds(u)
                /\ payee \in v.allowedRecipients
                /\ IF spec.destinationDomain = SOLANA_DOMAIN
                   THEN payee # toBytes32(payee.addr)
                   ELSE payee = toBytes32(payee.addr)
                /\ \E S \in SUBSET SignersOf(burnIntentDigest(i)) :
                      checkWeightedSigs(v.weights, v.thresholdWeight, S)
             A == \A i \in Intent : Burns(i) => \E v \in Window : Admits(i, v)
  <1>1. TypeOK /\ GatewayType /\ [GatewayNext]_all => [A]_all
    <2> SUFFICES ASSUME TypeOK, GatewayType, [GatewayNext]_all, NEW i \in Intent, Burns(i)
                 PROVE  \E v \in Window : Admits(i, v)
      OBVIOUS
    <2>1. PICK v \in Window, fee \in 0 .. i.maxFee,
               S \in SUBSET SignersOf(burnIntentDigest(i)) : GatewayBurn(i, v, fee, S)
      BY BurnIsAdmitted
    <2> DEFINE t == i.spec.sourceToken.addr
               payee == i.spec.destinationRecipient
    <2>2. /\ i.maxFee \in Nat /\ i.spec.value \in Nat /\ payee \in Word
          /\ t \in Address /\ t = truncate(i.spec.sourceToken)
      BY IntentType
    <2>3. v \in View
      BY ViewType DEF Window, GatewayType, Range
    <2>4. v.policy.perIntentCap \in Nat /\ v.policy.maxFeeCap \in Nat
      BY <2>3 DEF View, Policy
    <2>5. validateBurnIntent(v, i, S)
      BY <2>1 DEF GatewayBurn
    <2>6. i.spec.value \in 1 .. v.policy.perIntentCap /\ i.maxFee <= v.policy.maxFeeCap
      BY <2>5 DEF validateBurnIntent, checkIntentShape
    <2>7. /\ Funds(t)' = Funds(t) - (i.spec.value + fee)
          /\ \A u \in Address \ {t} : Funds(u)' = Funds(u)
      BY <2>1, <2>2, BurnEffect
    <2>8. Funds(t) \in Nat
      BY <2>2, FundsType
    <2>9. /\ Funds(t)' < Funds(t)
          /\ Funds(t) - Funds(t)' <= v.policy.perIntentCap + v.policy.maxFeeCap
      <3> DEFINE before == Funds(t)
                 after == Funds(t)'
      <3>1. before \in Nat /\ after = before - (i.spec.value + fee)
        BY <2>7, <2>8
      <3> HIDE DEF before, after
      <3>2. after < before /\ before - after <= v.policy.perIntentCap + v.policy.maxFeeCap
        BY <2>2, <2>4, <2>6, <3>1
      <3> QED
        BY <3>2 DEF before, after
    <2>10. /\ payee \in v.allowedRecipients
           /\ matchesDomainShape(i.spec.destinationDomain, payee)
      BY <2>5 DEF validateBurnIntent, destinationAllowed, recipientAllowed
    <2>11. IF i.spec.destinationDomain = SOLANA_DOMAIN
           THEN payee # toBytes32(payee.addr) ELSE payee = toBytes32(payee.addr)
      BY <2>2, <2>10, SMTT(30) DEF matchesDomainShape, isEvmDomain, isCanonicalAddress,
                         toBytes32, Word
    <2>12. checkWeightedSigs(v.weights, v.thresholdWeight, S)
      BY <2>5 DEF validateBurnIntent
    <2>13. Admits(i, v)
      BY <2>1, <2>7, <2>9, <2>10, <2>11, <2>12
    <2> QED
      BY <2>13
  <1> QED
    BY <1>1, GatewayTypes, PTL DEF GatewaySpec, BurnsStayWithinPolicy, all

-----------------------------------------------------------------------------
(* Money.                                                                  *)

FundsOf == [t \in Address |-> Funds(t)]
ValueOf == [i \in Intent |-> i.spec.value]

Held == SumFunctionOnSet(FundsOf, Address)
Spent == SumFunctionOnSet(ValueOf, burned)

LEMMA FundsNat == ASSUME TypeOK, NEW t \in Address PROVE Funds(t) \in Nat
  BY FundsType

LEMMA FundsOfToken == ASSUME NEW t \in Address PROVE FundsOf[t] = Funds(t)
  BY DEF FundsOf

LEMMA HeldType ==
    TypeOK => Held \in Int /\ \A t \in Address : FundsOf[t] = Funds(t) /\ FundsOf[t] \in Int
  <1> SUFFICES ASSUME TypeOK
               PROVE  /\ Held \in Int
                      /\ \A t \in Address : FundsOf[t] = Funds(t) /\ FundsOf[t] \in Int
    OBVIOUS
  <1>1. \A t \in Address : FundsOf[t] = Funds(t)
    BY FundsOfToken
  <1>2. \A t \in Address : FundsOf[t] \in Int
    <2> SUFFICES ASSUME NEW t \in Address PROVE FundsOf[t] \in Int
      OBVIOUS
    <2>1. Funds(t) \in Nat
      BY FundsNat
    <2> QED
      BY <1>1, <2>1
  <1> QED
    BY <1>1, <1>2, GatewayAssumption, SumInt DEF Held

LEMMA HeldTypeNext ==
    TypeOK' => (Held \in Int /\ \A t \in Address : FundsOf[t] = Funds(t) /\ FundsOf[t] \in Int)'
  BY HeldType, PTL

LEMMA SpentType ==
    ASSUME GatewayType
    PROVE  Spent \in Int /\ \A i \in Intent : ValueOf[i] = i.spec.value /\ ValueOf[i] \in Int
  <1>1. \A i \in Intent : ValueOf[i] = i.spec.value /\ ValueOf[i] \in Int
    BY IntentType DEF ValueOf
  <1>2. \A i \in burned : ValueOf[i] \in Int
    BY <1>1 DEF GatewayType
  <1> QED
    BY <1>1, <1>2, SumInt DEF Spent, GatewayType

LEMMA HeldFalls ==
    ASSUME TypeOK, TypeOK', \A t \in Address : Funds(t)' <= Funds(t)
    PROVE  Held' <= Held
  <1>1. \A t \in Address : /\ FundsOf[t] = Funds(t) /\ FundsOf[t] \in Int
                           /\ FundsOf'[t] = Funds(t)' /\ FundsOf'[t] \in Int
    BY HeldType, HeldTypeNext
  <1>2. \A t \in Address : FundsOf[t] \in Int /\ FundsOf'[t] \in Int
                           /\ FundsOf'[t] <= FundsOf[t]
    BY <1>1
  <1> QED
    BY <1>2, GatewayAssumption, SumMonotone DEF Held

LEMMA HeldChanges ==
    ASSUME TypeOK, TypeOK', NEW u \in Address,
           \A t \in Address \ {u} : Funds(t)' = Funds(t)
    PROVE  Held' = Held - Funds(u) + Funds(u)'
  <1>1. \A t \in Address : /\ FundsOf[t] = Funds(t) /\ FundsOf[t] \in Int
                           /\ FundsOf'[t] = Funds(t)' /\ FundsOf'[t] \in Int
    BY HeldType, HeldTypeNext
  <1>2. /\ \A t \in Address : FundsOf[t] \in Int /\ FundsOf'[t] \in Int
        /\ \A t \in Address \ {u} : FundsOf'[t] = FundsOf[t]
        /\ FundsOf[u] = Funds(u) /\ FundsOf'[u] = Funds(u)'
    BY <1>1
  <1>3. Held' = Held - FundsOf[u] + FundsOf'[u]
    BY <1>2, GatewayAssumption, SumChange DEF Held
  <1> QED
    BY <1>2, <1>3

\* No admin call raises what the treasury holds of any token.
LEMMA AdminKeepsFunds ==
    ASSUME TypeOK, NEW n \in Nonce, executeAdmin(n), NEW t \in Address
    PROVE  Funds(t)' <= Funds(t)
  <1> DEFINE c == adminOps[n].call
  <1>1. c \in Call /\ WellTyped(c)
    BY TreasuryAssumption DEF executeAdmin, Live, TypeOK, AdminOp
  <1>2. /\ balance[t] \in Nat /\ wallet[t] \in WalletAccount
        /\ wallet[t].available \in Nat /\ wallet[t].withdrawing \in Nat
        /\ Funds(t) \in Nat
    BY FundsType
  <1>3. SelfCall(c)
    BY DEF executeAdmin
  <1> HIDE DEF c
  <1>4. CASE balance'[t] = balance[t] /\ wallet'[t] = wallet[t]
    BY <1>2, <1>4 DEF Funds
  <1>5. CASE gatewayInitiateWithdrawal(c) /\ t = c.token
    <2>1. c.value \in Nat
      BY <1>1, <1>5 DEF gatewayInitiateWithdrawal, WellTyped
    <2>2. /\ balance'[t] = balance[t]
          /\ wallet'[t].available = wallet[t].available - c.value
          /\ wallet'[t].withdrawing = wallet[t].withdrawing + c.value
      BY <1>5 DEF gatewayInitiateWithdrawal, TypeOK, WalletAccount
    <2> QED
      BY <1>2, <2>1, <2>2 DEF Funds
  <1>6. CASE gatewayWithdraw(c) /\ t = c.token
    <2>1. /\ balance'[t] = balance[t] + wallet[t].withdrawing
          /\ wallet'[t].available = wallet[t].available
          /\ wallet'[t].withdrawing = 0
      BY <1>6 DEF gatewayWithdraw, TypeOK, WalletAccount
    <2> QED
      BY <1>2, <2>1 DEF Funds
  <1>7. CASE transferToRecipient(c) /\ t = c.token
    <2>1. c.amount \in Nat
      BY <1>1, <1>7 DEF transferToRecipient, WellTyped
    <2>2. /\ wallet'[t] = wallet[t]
          /\ balance'[t] = balance[t] \/ balance'[t] = balance[t] - c.amount
      BY <1>7 DEF transferToRecipient, TypeOK
    <2> QED
      BY <1>2, <2>1, <2>2 DEF Funds
  <1>8. \/ balance'[t] = balance[t] /\ wallet'[t] = wallet[t]
        \/ /\ t = c.token
           /\ gatewayInitiateWithdrawal(c) \/ gatewayWithdraw(c) \/ transferToRecipient(c)
    BY <1>3 DEF SelfCall, setOwners, setAllowedRecipient, setPolicy, setPaused,
       setAdminTimelock, gatewayInitiateWithdrawal, gatewayWithdraw,
       transferToRecipient, TypeOK
  <1> QED
    BY <1>4, <1>5, <1>6, <1>7, <1>8

\* Of the treasury's steps only the receipt of tokens raises what it holds.
LEMMA TreasuryKeepsFunds ==
    ASSUME TypeOK, TypeOK', Next
    PROVE  Held' + income <= Held + income'
  <1>0. Held \in Int /\ Held' \in Int /\ income \in Nat
    BY HeldType, HeldTypeNext DEF TypeOK
  <1>1. ASSUME NEW t \in Token, ReceiveTokens(t)
        PROVE  Held' + income <= Held + income'
    <2>1. t \in Address
      BY TreasuryAssumption
    <2>2. /\ balance[t] \in Nat /\ wallet[t].available \in Nat
          /\ wallet[t].withdrawing \in Nat
      BY <2>1, FundsType
    <2>3. /\ balance'[t] = balance[t] + 1 /\ wallet' = wallet /\ income' = income + 1
          /\ \A u \in Address \ {t} : balance'[u] = balance[u]
      BY <1>1, <2>1 DEF ReceiveTokens, TypeOK
    <2>4. /\ Funds(t)' = Funds(t) + 1 /\ Funds(t) \in Nat
          /\ \A u \in Address \ {t} : Funds(u)' = Funds(u)
      BY <2>2, <2>3, SMTT(30) DEF Funds
    <2>5. Held' = Held - Funds(t) + Funds(t)'
      BY <2>1, <2>4, HeldChanges
    <2> QED
      BY <1>0, <2>3, <2>4, <2>5
  <1>2. ASSUME \A t \in Address : Funds(t)' <= Funds(t), income' = income
        PROVE  Held' + income <= Held + income'
    <2>1. Held' <= Held
      BY <1>2, HeldFalls
    <2>2. PICK h \in Int, k \in Int : h = Held /\ k = Held'
      BY <1>0
    <2>3. k <= h /\ income \in Nat
      BY <1>0, <2>1, <2>2
    <2>4. k + income <= h + income
      BY <2>3
    <2> QED
      BY <1>2, <2>2, <2>4
  <1>3. ASSUME NEW t \in Token, sweepToGateway(t)
        PROVE  Held' + income <= Held + income'
    <2>1. t \in Address
      BY TreasuryAssumption
    <2>2. \A u \in Address : /\ balance[u] \in Nat /\ wallet[u].available \in Nat
                             /\ wallet[u].withdrawing \in Nat /\ wallet[u] \in WalletAccount
      BY FundsType
    <2>3. /\ balance'[t] = 0 /\ wallet'[t].available = wallet[t].available + balance[t]
          /\ wallet'[t].withdrawing = wallet[t].withdrawing
          /\ \A u \in Address \ {t} : balance'[u] = balance[u] /\ wallet'[u] = wallet[u]
      BY <1>3, <2>1, <2>2 DEF sweepToGateway, TypeOK, WalletAccount
    <2>4. \A u \in Address : Funds(u)' <= Funds(u)
      BY <2>2, <2>3 DEF Funds
    <2> QED
      BY <1>2, <1>3, <2>4 DEF sweepToGateway
  <1>4. ASSUME NEW n \in Nonce, executeAdmin(n)
        PROVE  Held' + income <= Held + income'
    BY <1>2, <1>4, AdminKeepsFunds DEF executeAdmin
  <1>5. CASE UNCHANGED moneyVars
    <2>1. \A u \in Address : Funds(u)' <= Funds(u)
      BY <1>5, FundsType DEF Funds
    <2> QED
      BY <1>2, <1>5, <2>1
  <1> QED
    BY <1>1, <1>3, <1>4, <1>5 DEF Next, Tick, Sign, cancelAdmin, pause, queueAdmin,
                                  revokeIntent

LEMMA BackedStep ==
    TypeOK /\ TypeOK' /\ GatewayType /\ FundsAreBacked /\ [GatewayNext]_all
      => FundsAreBacked'
  <1> SUFFICES ASSUME TypeOK, TypeOK', GatewayType, FundsAreBacked, [GatewayNext]_all
               PROVE  FundsAreBacked'
    OBVIOUS
  <1>1. /\ Held \in Int /\ Held' \in Int /\ Spent \in Int
        /\ income \in Nat /\ income' \in Nat
    BY HeldType, HeldTypeNext, SpentType DEF TypeOK
  <1>2. Held + Spent <= income
    BY DEF FundsAreBacked, Held, Spent, FundsOf, ValueOf
  <1>3. SUFFICES Held' + Spent' <= income'
    BY DEF FundsAreBacked, Held, Spent, FundsOf, ValueOf
  <1>4. CASE TreasuryStep
    <2>1. Held' + income <= Held + income'
      BY <1>4, TreasuryKeepsFunds DEF TreasuryStep
    <2>2. Spent' = Spent
      BY <1>4 DEF TreasuryStep, Spent, ValueOf
    <2>3. PICK h \in Int, k \in Int, s \in Int : h = Held /\ k = Held' /\ s = Spent
      BY <1>1
    <2>4. PICK i \in Int, j \in Int : i = income /\ j = income'
      BY <1>1
    <2>5. h + s <= i /\ k + i <= h + j
      BY <1>2, <2>1, <2>3, <2>4
    <2>6. k + s <= j
      BY ONLY <2>5, h \in Int, k \in Int, s \in Int, i \in Int, j \in Int
    <2> QED
      BY <2>2, <2>3, <2>4, <2>6
  <1>5. ASSUME NEW i \in Intent, NEW v, NEW fee \in 0 .. i.maxFee, NEW S,
               GatewayBurn(i, v, fee, S)
        PROVE  Held' + Spent' <= income'
    <2> DEFINE t == truncate(i.spec.sourceToken)
    <2>1. t \in Address /\ i.spec.value \in Nat /\ i.maxFee \in Nat
      BY IntentType
    <2>2. /\ Funds(t)' = Funds(t) - (i.spec.value + fee)
          /\ \A u \in Address \ {t} : Funds(u)' = Funds(u)
      BY <1>5, BurnEffect
    <2>3. Funds(t) \in Nat
      BY <2>1, FundsType
    <2>4. Held' = Held - Funds(t) + Funds(t)'
      <3> HIDE DEF t
      <3> QED
        BY <2>1, <2>2, HeldChanges
    <2>5. Held' = Held - (i.spec.value + fee)
      <3> DEFINE f == Funds(t)
      <3>1. Held' = Held - f + (f - (i.spec.value + fee)) /\ f \in Nat
        BY <2>2, <2>3, <2>4
      <3> HIDE DEF f
      <3> QED
        BY <1>1, <2>1, <3>1, SMTT(30)
    <2>6. Spent' = Spent + i.spec.value
      <3>1. /\ burned' = burned \cup {i} /\ i \notin burned /\ IsFiniteSet(burned)
            /\ burned \subseteq Intent
        BY <1>5 DEF GatewayBurn, GatewayType
      <3>2. /\ IsFiniteSet(burned') /\ i \in burned' /\ burned' \ {i} = burned
            /\ burned' \subseteq Intent
        BY <3>1, FS_AddElement
      <3>3. \A j \in burned' : ValueOf[j] \in Int
        BY <3>2, SpentType
      <3>4. SumFunctionOnSet(ValueOf, burned')
               = ValueOf[i] + SumFunctionOnSet(ValueOf, burned' \ {i})
        BY <3>2, <3>3, SumElement
      <3>5. Spent' = SumFunctionOnSet(ValueOf, burned') /\ ValueOf[i] = i.spec.value
        BY DEF Spent, ValueOf
      <3>6. Spent' = i.spec.value + Spent
        BY <3>2, <3>4, <3>5 DEF Spent
      <3> QED
        BY <1>1, <2>1, <3>6
    <2>7. income' = income
      BY <1>5 DEF GatewayBurn
    <2> QED
      BY <1>1, <1>2, <2>1, <2>5, <2>6, <2>7
  <1>6. ASSUME \A u \in Address : Funds(u)' = Funds(u), UNCHANGED <<income, burned>>
        PROVE  Held' + Spent' <= income'
    <2>1. Held' = Held
      BY <1>6 DEF Held, FundsOf
    <2>2. Spent' = Spent
      BY <1>6 DEF Spent, ValueOf
    <2> QED
      BY <1>1, <1>2, <1>6, <2>1, <2>2
  <1>7. ASSUME NEW a \in Auth, NEW t \in Token, NEW S, DepositWithAuthorization(t, a, S)
        PROVE  Held' + Spent' <= income'
    BY <1>6, <1>7, DepositEffect DEF DepositWithAuthorization
  <1>8. CASE UNCHANGED <<balance, wallet, income, burned>>
    BY <1>6, <1>8 DEF Funds
  <1> QED
    BY <1>4, <1>5, <1>7, <1>8 DEF GatewayNext, SignAuth, Sign, all, vars

\* No sequence of sweeps, withdrawals, deposits by authorization, transfers and
\* burns makes money, for any number of tokens and intents.
THEOREM FundsAlwaysBacked == GatewaySpec => []FundsAreBacked
  <1>1. GatewayInit => FundsAreBacked
    <2> SUFFICES ASSUME GatewayInit PROVE FundsAreBacked
      OBVIOUS
    <2>1. burned = {} /\ income = 0 /\ \A t \in Address : Funds(t) = 0
      BY SMTT(30) DEF GatewayInit, Init, Constructor, Funds
    <2>2. \A t \in Address : FundsOf[t] = 0
      BY <2>1, FundsOfToken
    <2>3. Held = 0
      BY <2>2, GatewayAssumption, SumZero DEF Held
    <2>4. SumFunctionOnSet(ValueOf, {}) = 0
      BY SumEmpty
    <2> QED
      BY <2>1, <2>3, <2>4 DEF FundsAreBacked, Held, FundsOf, ValueOf
  <1> QED
    BY <1>1, GatewayTypes, BackedStep, PTL DEF GatewaySpec, all
=============================================================================
