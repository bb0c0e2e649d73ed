------------------------ MODULE GatewayTreasuryProofs ------------------------
(***************************************************************************)
(* Theorems about GatewayTreasury, for every set of owners, calls, nonces, *)
(* policies and timelocks.                                                 *)
(***************************************************************************)
EXTENDS GatewayTreasury, FiniteSetTheorems, TLAPS

USE DEF ownerVars, recipientVars, queueVars, moneyVars, bumpEpoch, newEta,
        timelockExpired, canRemoveRecipient, clearedWeights, isPayee

-----------------------------------------------------------------------------
(* Type correctness.                                                       *)

\* The weights that setOwners and the constructor write are numbers.
LEMMA AssignType ==
    ASSUME NEW w \in [Address -> Nat], NEW o \in Seq(Address),
           NEW ws \in Seq(Nat), Len(ws) = Len(o)
    PROVE  Assign(w, o, ws) \in [Address -> Nat]
  <1> SUFFICES ASSUME NEW a \in Address
               PROVE  Assign(w, o, ws)[a] \in Nat
    BY DEF Assign
  <1>1. CASE \E i \in 1 .. Len(o) : o[i] = a
    <2> DEFINE k == CHOOSE i \in 1 .. Len(o) : o[i] = a
    <2>1. k \in 1 .. Len(o)
      BY <1>1
    <2>2. ws[k] \in Nat
      BY <2>1
    <2>3. Assign(w, o, ws)[a] = ws[k]
      BY <1>1 DEF Assign
    <2> QED
      BY <2>2, <2>3
  <1>2. CASE ~ \E i \in 1 .. Len(o) : o[i] = a
    BY <1>2 DEF Assign
  <1> QED
    BY <1>1, <1>2

LEMMA TypeInit == Init => TypeOK
  <1> SUFFICES ASSUME Init PROVE TypeOK
    OBVIOUS
  <1> PICK g \in Genesis : Constructor(g)
    BY DEF Init
  <1>1. g \in GenesisType
    BY TreasuryAssumption
  <1>2. weights \in [Address -> Nat]
    BY <1>1, AssignType DEF Constructor, GenesisType, ConstructorAccepts, ValidOwnerSet
  <1>3. recipientCount \in Nat
    BY TreasuryAssumption, FS_CardinalityType DEF Constructor
  <1>4. adminOps \in [Nonce -> AdminOp]
    BY DEF Constructor, NoOp, AdminOp
  <1>5. wallet \in [Address -> WalletAccount]
    BY DEF Constructor, WalletAccount
  <1> QED
    BY <1>1, <1>2, <1>3, <1>4, <1>5 DEF Constructor, TypeOK, GenesisType

\* Each setter keeps the types of the state a self-call can reach.
LEMMA SelfCallType ==
    ASSUME TypeOK, NEW c \in Call, SelfCall(c)
    PROVE  /\ owners' \in Seq(Address)
           /\ weights' \in [Address -> Nat]
           /\ thresholdWeight' \in Nat
           /\ allowedRecipients' \subseteq Word
           /\ recipientCount' \in Nat
           /\ policy' \in Policy
           /\ paused' \in BOOLEAN
           /\ adminTimelock' \in Nat
           /\ adminEpoch' \in Nat
           /\ balance' \in [Address -> Nat]
           /\ wallet' \in [Address -> WalletAccount]
  <1>0. WellTyped(c)
    BY TreasuryAssumption
  <1>1. CASE setOwners(c)
    <2> DEFINE cleared == [o \in Address |->
                              IF o \in Range(owners) THEN 0 ELSE weights[o]]
    <2>1. cleared \in [Address -> Nat]
      BY DEF TypeOK
    <2>2. /\ c.newOwners \in Seq(Address)
          /\ c.newWeights \in Seq(Nat)
          /\ c.newThreshold \in Nat
          /\ Len(c.newWeights) = Len(c.newOwners)
      BY <1>0, <1>1 DEF WellTyped, setOwners, ValidOwnerSet
    <2>3. Assign(cleared, c.newOwners, c.newWeights) \in [Address -> Nat]
      BY <2>1, <2>2, AssignType
    <2> QED
      BY <1>1, <2>2, <2>3 DEF setOwners, TypeOK
  <1>2. CASE setAllowedRecipient(c)
    BY <1>0, <1>2 DEF setAllowedRecipient, WellTyped, TypeOK
  <1>3. CASE setPolicy(c)
    <2>1. policy' \in Policy
      <3>1. CASE setAllowedDestinationDomain(c)
        BY <1>0, <3>1
           DEF setAllowedDestinationDomain, WellTyped, TypeOK, Policy, Toggle
      <3>2. CASE setAllowedToken(c)
        BY <1>0, <3>2 DEF setAllowedToken, WellTyped, TypeOK, Policy
      <3>3. CASE setDestinationMinter(c)
        BY <1>0, <3>3 DEF setDestinationMinter, WellTyped, TypeOK, Policy
      <3>4. CASE setAllowedDestinationCaller(c)
        BY <1>0, <3>4
           DEF setAllowedDestinationCaller, WellTyped, TypeOK, Policy, Toggle
      <3>5. CASE setAllowedDestinationToken(c)
        BY <1>0, <3>5
           DEF setAllowedDestinationToken, WellTyped, TypeOK, Policy, Toggle
      <3>6. CASE setPerIntentCap(c) \/ setMaxFeeCap(c)
        BY <1>0, <3>6
           DEF setPerIntentCap, setMaxFeeCap, WellTyped, TypeOK, Policy
      <3>7. CASE setMaxExpiryBlocks(c)
        BY <1>0, <3>7 DEF setMaxExpiryBlocks, WellTyped, TypeOK, Policy
      <3> QED
        BY <1>3, <3>1, <3>2, <3>3, <3>4, <3>5, <3>6, <3>7 DEF setPolicy
    <2> QED
      BY <1>3, <2>1 DEF setPolicy, TypeOK
  <1>4. CASE setPaused(c)
    BY <1>0, <1>4 DEF setPaused, WellTyped, TypeOK
  <1>5. CASE setAdminTimelock(c)
    BY <1>0, <1>5 DEF setAdminTimelock, WellTyped, TypeOK
  <1>6. CASE gatewayInitiateWithdrawal(c)
    <2>1. c.token \in Address /\ c.value \in Nat
      BY <1>0, <1>6 DEF gatewayInitiateWithdrawal, WellTyped
    <2>2. wallet[c.token] \in WalletAccount /\ now + WITHDRAWAL_DELAY \in Nat
      BY <2>1, BoundsAssumption DEF TypeOK
    <2>3. [available |-> wallet[c.token].available - c.value,
           withdrawing |-> wallet[c.token].withdrawing + c.value,
           readyAt |-> now + WITHDRAWAL_DELAY] \in WalletAccount
      BY <1>6, <2>1, <2>2 DEF gatewayInitiateWithdrawal, WalletAccount
    <2>4. wallet' \in [Address -> WalletAccount]
      BY <1>6, <2>3 DEF gatewayInitiateWithdrawal, TypeOK
    <2> QED
      BY <1>6, <2>4 DEF gatewayInitiateWithdrawal, TypeOK
  <1>7. CASE gatewayWithdraw(c)
    <2>1. c.token \in Address
      BY <1>0, <1>7 DEF gatewayWithdraw, WellTyped
    <2>2. wallet[c.token] \in WalletAccount
      BY <2>1 DEF TypeOK
    <2>3. [wallet[c.token] EXCEPT !.withdrawing = 0] \in WalletAccount
      BY <2>2 DEF WalletAccount
    <2>4. wallet' \in [Address -> WalletAccount]
      BY <1>7, <2>3 DEF gatewayWithdraw, TypeOK
    <2>5. balance' \in [Address -> Nat]
      <3>1. wallet[c.token].withdrawing \in Nat
        BY <2>2 DEF WalletAccount
      <3> QED
        BY <1>7, <2>1, <3>1 DEF gatewayWithdraw, TypeOK
    <2> QED
      BY <1>7, <2>4, <2>5 DEF gatewayWithdraw, TypeOK
  <1>8. CASE transferToRecipient(c)
    BY <1>0, <1>8 DEF transferToRecipient, WellTyped, TypeOK
  <1> QED
    BY <1>1, <1>2, <1>3, <1>4, <1>5, <1>6, <1>7, <1>8 DEF SelfCall

LEMMA TypeStep == TypeOK /\ [Next]_vars => TypeOK'
  <1> SUFFICES ASSUME TypeOK, [Next]_vars PROVE TypeOK'
    OBVIOUS
  <1>1. CASE Tick
    BY <1>1 DEF Tick, TypeOK
  <1>2. ASSUME NEW t \in Token, ReceiveTokens(t)
        PROVE  TypeOK'
    <2>1. t \in Address
      BY TreasuryAssumption
    <2> QED
      BY <1>2, <2>1 DEF ReceiveTokens, TypeOK
  <1>3. ASSUME NEW t \in Token, sweepToGateway(t)
        PROVE  TypeOK'
    <2>1. wallet[t] \in WalletAccount /\ balance[t] \in Nat
      BY <1>3, TreasuryAssumption DEF TypeOK
    <2>2. [wallet[t] EXCEPT !.available = @ + balance[t]] \in WalletAccount
      BY <2>1 DEF WalletAccount
    <2>3. wallet' \in [Address -> WalletAccount]
      BY <1>3, <2>2 DEF sweepToGateway, TypeOK
    <2> QED
      BY <1>3, <2>3 DEF sweepToGateway, TypeOK
  <1>4. ASSUME NEW m \in Signable, NEW S \in Coalition, Sign(m, S)
        PROVE  TypeOK'
    <2>1. S \subseteq Address
      BY TreasuryAssumption
    <2>2. \A s \in signatures' : s.by \subseteq Address /\ s.epoch \in Nat
      BY <1>4, <2>1 DEF Sign, TypeOK
    <2> QED
      BY <1>4, <2>2 DEF Sign, TypeOK
  <1>5. ASSUME NEW n \in Nonce, executeAdmin(n)
        PROVE  TypeOK'
    <2>1. adminOps[n].call \in Call
      BY <1>5 DEF executeAdmin, Live, TypeOK, AdminOp
    <2>2. adminOps' \in [Nonce -> AdminOp]
      BY <1>5 DEF executeAdmin, TypeOK, AdminOp
    <2> QED
      BY <1>5, <2>1, <2>2, SelfCallType DEF executeAdmin, TypeOK
  <1>6. ASSUME NEW n \in Nonce, NEW S, cancelAdmin(n, S)
        PROVE  TypeOK'
    <2>1. adminOps' \in [Nonce -> AdminOp]
      BY <1>6, ZenonT(40) DEF cancelAdmin, TypeOK, AdminOp
    <2> QED
      BY <1>6, <2>1 DEF cancelAdmin, TypeOK
  <1>7. ASSUME NEW n \in Nonce, NEW S, pause(n, S)
        PROVE  TypeOK'
    BY <1>7 DEF pause, TypeOK
  <1>8. ASSUME NEW n \in Nonce, NEW c \in Call, NEW d \in Deadline, NEW S,
               queueAdmin(c, n, d, S)
        PROVE  TypeOK'
    <2>1. S \subseteq Address
      BY <1>8 DEF queueAdmin, QuorumSigned, SignersOf, TypeOK
    <2>2. adminOps' \in [Nonce -> AdminOp]
      BY <1>8 DEF queueAdmin, TypeOK, AdminOp
    <2>3. approval' \in [Nonce -> [at : Nat, by : SUBSET Address]]
      BY <1>8, <2>1 DEF queueAdmin, TypeOK
    <2> QED
      BY <1>8, <2>2, <2>3 DEF queueAdmin, TypeOK
  <1>9. ASSUME NEW i \in Intent, NEW S, revokeIntent(i, S)
        PROVE  TypeOK'
    BY <1>9 DEF revokeIntent, TypeOK
  <1>10. CASE UNCHANGED vars
    BY <1>10 DEF vars, TypeOK
  <1> QED
    BY <1>1, <1>2, <1>3, <1>4, <1>5, <1>6, <1>7, <1>8, <1>9, <1>10 DEF Next

\* The storage of the treasury keeps its types under every operation.
THEOREM TypeCorrect == Spec => []TypeOK
  BY TypeInit, TypeStep, PTL DEF Spec

-----------------------------------------------------------------------------
(* The owner set.                                                          *)

\* The listed owners, and nobody else, carry weight, and reach the threshold.
Reachable(o, W, th) ==
    /\ \A a \in Address : W[a] # 0 <=> a \in Range(o)
    /\ \A i, j \in 1 .. Len(o) : o[i] = o[j] => i = j
    /\ Range(o) \cap {0, Self} = {}
    /\ th \in 1 .. SumFunction([i \in 1 .. Len(o) |-> W[o[i]]])

LEMMA ReachableDef == QuorumReachable <=> Reachable(owners, weights, thresholdWeight)
  BY Zenon DEF QuorumReachable, TotalWeight, Reachable

\* Storing a valid owner set over a mapping that holds no weight puts weight
\* exactly on its members, and enough of it to reach the threshold.
LEMMA ValidOwnerSetStored ==
    ASSUME NEW o \in Seq(Address), NEW ws \in Seq(Nat), NEW th \in Nat,
           NEW w \in [Address -> Nat], \A a \in Address : w[a] = 0,
           ValidOwnerSet(o, ws, th)
    PROVE  Reachable(o, Assign(w, o, ws), th)
  <1> DEFINE W == Assign(w, o, ws)
  <1>1. /\ Len(ws) = Len(o) /\ Len(o) \in Nat
        /\ DOMAIN o = 1 .. Len(o) /\ DOMAIN ws = 1 .. Len(o)
        /\ \A i \in 1 .. Len(o) : o[i] \in Address /\ ws[i] \in Nat
    BY DEF ValidOwnerSet
  <1>2. \A i, j \in 1 .. Len(o) : o[i] = o[j] => i = j
    <2> SUFFICES ASSUME NEW i \in 1 .. Len(o), NEW j \in 1 .. Len(o),
                        i # j
                 PROVE  o[i] # o[j]
      OBVIOUS
    <2>1. CASE i < j
      BY <2>1, <1>1 DEF ValidOwnerSet
    <2>2. CASE j < i
      BY <2>2, <1>1 DEF ValidOwnerSet
    <2> QED
      BY <2>1, <2>2, <1>1
  <1>3. \A i \in 1 .. Len(o) : W[o[i]] = ws[i]
    <2> SUFFICES ASSUME NEW i \in 1 .. Len(o) PROVE W[o[i]] = ws[i]
      OBVIOUS
    <2> DEFINE k == CHOOSE j \in 1 .. Len(o) : o[j] = o[i]
    <2>1. \E j \in 1 .. Len(o) : o[j] = o[i]
      OBVIOUS
    <2>2. k \in 1 .. Len(o) /\ o[k] = o[i]
      BY <2>1
    <2>3. W[o[i]] = ws[k]
      BY <1>1, <2>1 DEF Assign
    <2> HIDE DEF k
    <2>4. k = i
      BY <2>2, <1>2
    <2> QED
      BY <2>3, <2>4
  <1>4. \A a \in Address : a \notin Range(o) => W[a] = 0
    BY <1>1 DEF Assign, Range
  <1>5. \A a \in Address : W[a] # 0 <=> a \in Range(o)
    <2>1. \A i \in 1 .. Len(o) : ws[i] # 0
      BY <1>1 DEF ValidOwnerSet
    <2> HIDE DEF W
    <2> SUFFICES ASSUME NEW a \in Address, a \in Range(o) PROVE W[a] # 0
      BY <1>4
    <2> PICK i \in 1 .. Len(o) : a = o[i]
      BY <1>1 DEF Range
    <2> QED
      BY <2>1, <1>3
  <1>6. Range(o) \cap {0, Self} = {}
    BY <1>1 DEF Range, ValidOwnerSet
  <1>7. [i \in 1 .. Len(o) |-> W[o[i]]] = ws
    BY <1>1, <1>3
  <1>8. th \in 1 .. SumFunction([i \in 1 .. Len(o) |-> W[o[i]]])
    BY <1>7 DEF ValidOwnerSet
  <1> QED
    BY <1>2, <1>5, <1>6, <1>8, Zenon DEF Reachable

LEMMA QuorumInit == Init => QuorumReachable
  <1> SUFFICES ASSUME Init PROVE QuorumReachable
    OBVIOUS
  <1> PICK g \in Genesis : Constructor(g)
    BY DEF Init
  <1>1. /\ g.owners \in Seq(Address) /\ g.weights \in Seq(Nat)
        /\ g.threshold \in Nat
    BY TreasuryAssumption DEF GenesisType
  <1>2. ValidOwnerSet(g.owners, g.weights, g.threshold)
    BY DEF Constructor, ConstructorAccepts
  <1> DEFINE w == [o \in Address |-> 0]
  <1>3. w \in [Address -> Nat] /\ \A a \in Address : w[a] = 0
    OBVIOUS
  <1> HIDE DEF w
  <1>4. /\ owners = g.owners /\ thresholdWeight = g.threshold
        /\ weights = Assign(w, g.owners, g.weights)
    BY DEF Constructor, w
  <1>5. Reachable(g.owners, Assign(w, g.owners, g.weights), g.threshold)
    BY <1>1, <1>2, <1>3, ValidOwnerSetStored
  <1> QED
    BY <1>4, <1>5, ReachableDef, Zenon

LEMMA QuorumStep ==
    TypeOK /\ QuorumReachable /\ [Next]_vars => QuorumReachable'
  <1> SUFFICES ASSUME TypeOK, QuorumReachable, [Next]_vars
               PROVE  QuorumReachable'
    OBVIOUS
  <1>1. CASE UNCHANGED ownerVars
    BY <1>1 DEF QuorumReachable, TotalWeight
  <1>2. ASSUME NEW n \in Nonce, executeAdmin(n), setOwners(adminOps[n].call)
        PROVE  QuorumReachable'
    <2> DEFINE c == adminOps[n].call
               w == [o \in Address |->
                        IF o \in Range(owners) THEN 0 ELSE weights[o]]
    <2>1. c \in Call
      BY <1>2 DEF executeAdmin, Live, TypeOK, AdminOp
    <2>2. WellTyped(c) /\ c.sel = "setOwners"
      BY <1>2, <2>1, TreasuryAssumption DEF setOwners
    <2>3. /\ c.newOwners \in Seq(Address) /\ c.newWeights \in Seq(Nat)
          /\ c.newThreshold \in Nat
      BY <2>2 DEF WellTyped
    <2>4. w \in [Address -> Nat] /\ \A a \in Address : w[a] = 0
      BY DEF TypeOK, QuorumReachable
    <2>5. /\ owners' = c.newOwners /\ thresholdWeight' = c.newThreshold
          /\ weights' = Assign(w, c.newOwners, c.newWeights)
          /\ ValidOwnerSet(c.newOwners, c.newWeights, c.newThreshold)
      BY <1>2 DEF setOwners
    <2> HIDE DEF w, c
    <2> QED
      <3>1. Reachable(c.newOwners, Assign(w, c.newOwners, c.newWeights), c.newThreshold)
        BY <2>3, <2>4, <2>5, ValidOwnerSetStored
      <3>2. Reachable(owners', weights', thresholdWeight')
        BY <2>5, <3>1, Zenon
      <3> QED
        BY <3>2, Zenon DEF QuorumReachable, TotalWeight, Reachable
  <1>3. ASSUME NEW n \in Nonce, executeAdmin(n), ~setOwners(adminOps[n].call)
        PROVE  UNCHANGED ownerVars
    BY <1>3 DEF executeAdmin, SelfCall, setAllowedRecipient, setPolicy,
       setPaused, setAdminTimelock, gatewayInitiateWithdrawal,
       gatewayWithdraw, transferToRecipient
  <1>4. (~ \E n \in Nonce : executeAdmin(n)) => UNCHANGED ownerVars
    BY ZenonT(40) DEF Next, vars, Tick, ReceiveTokens, sweepToGateway, Sign,
       cancelAdmin, pause, queueAdmin, revokeIntent
  <1> QED
    BY <1>1, <1>2, <1>3, <1>4

\* Through any sequence of owner rotations the owners keep a reachable quorum
\* and nobody else keeps a weight.
THEOREM QuorumAlwaysReachable == Spec => []QuorumReachable
  BY TypeCorrect, QuorumInit, QuorumStep, PTL DEF Spec

-----------------------------------------------------------------------------
(* The payee allowlist.                                                    *)

RecipientInv == IsFiniteSet(allowedRecipients) /\ AllowlistNeverEmpty

LEMMA RecipientInit == Init => RecipientInv
  <1> SUFFICES ASSUME Init PROVE RecipientInv
    OBVIOUS
  <1> PICK g \in Genesis : Constructor(g)
    BY DEF Init
  <1>1. IsFiniteSet(g.recipients) /\ g.recipients # {}
    BY TreasuryAssumption DEF Constructor, ConstructorAccepts
  <1>2. Cardinality(g.recipients) \in Nat /\ Cardinality(g.recipients) # 0
    BY <1>1, FS_CardinalityType, FS_EmptySet
  <1> QED
    BY <1>1, <1>2, SMTT(30) DEF Constructor, RecipientInv, AllowlistNeverEmpty

LEMMA RecipientStep ==
    TypeOK /\ RecipientInv /\ [Next]_vars => RecipientInv'
  <1> SUFFICES ASSUME TypeOK, RecipientInv, [Next]_vars
               PROVE  RecipientInv'
    OBVIOUS
  <1>1. CASE UNCHANGED recipientVars
    BY <1>1 DEF RecipientInv, AllowlistNeverEmpty
  <1>2. ASSUME NEW n \in Nonce, setAllowedRecipient(adminOps[n].call)
        PROVE  RecipientInv'
    <2> DEFINE r == adminOps[n].call.recipient
    <2>1. CASE /\ r \notin allowedRecipients
               /\ recipientCount' = recipientCount + 1
               /\ allowedRecipients' = allowedRecipients \cup {r}
      <3>1. IsFiniteSet(allowedRecipients')
            /\ Cardinality(allowedRecipients')
                  = Cardinality(allowedRecipients) + 1
        BY <2>1, FS_AddElement DEF RecipientInv
      <3> QED
        BY <2>1, <3>1 DEF RecipientInv, AllowlistNeverEmpty, TypeOK
    <2>2. CASE /\ r \in allowedRecipients /\ recipientCount > 1
               /\ recipientCount' = recipientCount - 1
               /\ allowedRecipients' = allowedRecipients \ {r}
      <3>1. IsFiniteSet(allowedRecipients')
            /\ Cardinality(allowedRecipients')
                  = Cardinality(allowedRecipients) - 1
        BY <2>2, FS_RemoveElement DEF RecipientInv
      <3> QED
        BY <2>2, <3>1 DEF RecipientInv, AllowlistNeverEmpty, TypeOK
    <2> QED
      BY <1>1, <1>2, <2>1, <2>2 DEF setAllowedRecipient
  <1>3. ASSUME NEW n \in Nonce, executeAdmin(n),
               ~setAllowedRecipient(adminOps[n].call)
        PROVE  UNCHANGED recipientVars
    BY <1>3 DEF executeAdmin, SelfCall, setOwners, setPolicy, setPaused,
       setAdminTimelock, gatewayInitiateWithdrawal, gatewayWithdraw,
       transferToRecipient
  <1>4. (~ \E n \in Nonce : executeAdmin(n)) => UNCHANGED recipientVars
    BY ZenonT(40) DEF Next, vars, Tick, ReceiveTokens, sweepToGateway, Sign,
       cancelAdmin, pause, queueAdmin, revokeIntent
  <1> QED
    BY <1>1, <1>2, <1>3, <1>4

\* However many removals are queued, the counter is exact and one payee stays.
THEOREM AllowlistKept == Spec => []AllowlistNeverEmpty
  <1>1. RecipientInv => AllowlistNeverEmpty
    BY DEF RecipientInv
  <1> QED
    BY <1>1, TypeCorrect, RecipientInit, RecipientStep, PTL DEF Spec

-----------------------------------------------------------------------------
(* Authority does not outlive its epoch.                                   *)

\* The strengthening: NoInheritedAuthority speaks of live ops only, but an op
\* that has expired or was cancelled keeps the same tie to its epoch, and no
\* op comes from an epoch that has not begun.
EpochInv ==
    \A n \in Nonce : adminOps[n].call # NoCall =>
        /\ n \in usedNonces
        /\ adminOps[n].epoch <= adminEpoch
        /\ adminOps[n].epoch = adminEpoch =>
              /\ checkWeightedSigs(weights, thresholdWeight, approval[n].by)
              /\ adminOps[n].eta = approval[n].at + adminTimelock

LEMMA EpochInit == Init => EpochInv
  BY SMTT(30) DEF Init, Constructor, EpochInv, NoOp

\* A self-call leaves owners and timelock alone or begins a new epoch.
LEMMA SelfCallEpoch ==
    ASSUME NEW c, SelfCall(c)
    PROVE  \/ adminEpoch' = adminEpoch + 1
           \/ UNCHANGED <<ownerVars, adminTimelock, adminEpoch>>
  BY DEF SelfCall, setOwners, setAllowedRecipient, setPolicy, setPaused,
     setAdminTimelock, gatewayInitiateWithdrawal, gatewayWithdraw,
     transferToRecipient

LEMMA EpochStep == TypeOK /\ EpochInv /\ [Next]_vars => EpochInv'
  <1> SUFFICES ASSUME TypeOK, EpochInv, [Next]_vars PROVE EpochInv'
    OBVIOUS
  <1>1. ASSUME UNCHANGED <<ownerVars, adminTimelock, adminEpoch, approval>>,
               usedNonces \subseteq usedNonces',
               \A n \in Nonce :
                  /\ adminOps'[n].call = adminOps[n].call
                  /\ adminOps'[n].eta = adminOps[n].eta
                  /\ adminOps'[n].epoch = adminOps[n].epoch
        PROVE  EpochInv'
    BY <1>1 DEF EpochInv, checkWeightedSigs, WeightOf
  <1>2. ASSUME NEW m \in Nonce, executeAdmin(m)
        PROVE  EpochInv'
    <2>1. \A n \in Nonce :
             /\ adminOps'[n].call = adminOps[n].call
             /\ adminOps'[n].eta = adminOps[n].eta
             /\ adminOps'[n].epoch = adminOps[n].epoch
      BY <1>2 DEF executeAdmin, TypeOK, AdminOp
    <2>2. CASE adminEpoch' = adminEpoch + 1
      <3>1. \A n \in Nonce : adminOps[n].epoch \in Nat
        BY DEF TypeOK, AdminOp
      <3>2. adminEpoch \in Nat /\ usedNonces' = usedNonces
        BY <1>2 DEF TypeOK, executeAdmin
      <3> QED
        BY <2>1, <2>2, <3>1, <3>2 DEF EpochInv
    <2>3. CASE UNCHANGED <<ownerVars, adminTimelock, adminEpoch>>
      BY <1>1, <1>2, <2>1, <2>3 DEF executeAdmin
    <2> QED
      BY <1>2, <2>2, <2>3, SelfCallEpoch DEF executeAdmin
  <1>3. ASSUME NEW m \in Nonce, NEW S, cancelAdmin(m, S)
        PROVE  EpochInv'
    <2>1. \A n \in Nonce :
             /\ adminOps'[n].call = adminOps[n].call
             /\ adminOps'[n].eta = adminOps[n].eta
             /\ adminOps'[n].epoch = adminOps[n].epoch
      BY <1>3 DEF cancelAdmin, TypeOK, AdminOp
    <2> QED
      BY <1>1, <1>3, <2>1 DEF cancelAdmin
  <1>4. ASSUME NEW m \in Nonce, NEW S, NEW c \in Call, NEW d \in Deadline,
               queueAdmin(c, m, d, S)
        PROVE  EpochInv'
    <2> SUFFICES ASSUME NEW n \in Nonce, adminOps'[n].call # NoCall
                 PROVE  /\ n \in usedNonces'
                        /\ adminOps'[n].epoch <= adminEpoch'
                        /\ adminOps'[n].epoch = adminEpoch' =>
                              /\ checkWeightedSigs(weights, thresholdWeight,
                                                   approval'[n].by)
                              /\ adminOps'[n].eta
                                    = approval'[n].at + adminTimelock'
      BY <1>4 DEF queueAdmin, EpochInv, checkWeightedSigs, WeightOf
    <2>1. CASE n = m
      BY <1>4, <2>1, SMTT(30) DEF queueAdmin, QuorumSigned, TypeOK
    <2>2. CASE n # m
      BY <1>4, <2>2 DEF queueAdmin, EpochInv, TypeOK
    <2> QED
      BY <2>1, <2>2
  <1>5. ASSUME NEW m \in Nonce, NEW S, pause(m, S)
        PROVE  EpochInv'
    BY <1>1, <1>5 DEF pause
  <1>6. CASE UNCHANGED <<queueVars, ownerVars, adminTimelock, adminEpoch>>
    BY <1>1, <1>6
  <1> QED
    BY <1>2, <1>3, <1>4, <1>5, <1>6 DEF Next, vars, Tick, ReceiveTokens,
       sweepToGateway, Sign, revokeIntent

\* An op that can still execute has the consent of a quorum of today's owners
\* and waits for today's timelock, through every rotation and timelock change.
THEOREM AuthorityNotInherited == Spec => []NoInheritedAuthority
  <1>1. EpochInv => NoInheritedAuthority
    BY DEF EpochInv, NoInheritedAuthority, Live
  <1> QED
    BY <1>1, TypeCorrect, EpochInit, EpochStep, PTL DEF Spec

-----------------------------------------------------------------------------
(* What a step may never do.                                               *)

\* A step that executes no op is not slow.
LEMMA FastSteps ==
    ASSUME TypeOK, [Next]_vars, ~ \E n \in Nonce : executeAdmin(n)
    PROVE  ~Slow
  <1>1. ASSUME UNCHANGED <<ownerVars, policy, allowedRecipients,
                           adminTimelock>>,
               paused => paused',
               \A t \in Address : /\ ~(Funds(t)' < Funds(t))
                                  /\ ~(wallet'[t].available
                                          < wallet[t].available)
        PROVE  ~Slow
    BY <1>1 DEF Slow
  <1>2. \A t \in Address : /\ balance[t] \in Nat
                           /\ wallet[t].available \in Nat
                           /\ wallet[t].withdrawing \in Nat
    BY DEF TypeOK, WalletAccount
  <1>3. CASE UNCHANGED <<balance, wallet>>
    <2>1. \A t \in Address : /\ ~(Funds(t)' < Funds(t))
                             /\ ~(wallet'[t].available < wallet[t].available)
      BY <1>2, <1>3 DEF Funds
    <2>2. UNCHANGED <<ownerVars, policy, allowedRecipients, adminTimelock>>
      BY SMTT(30) DEF Next, vars, Tick, ReceiveTokens, sweepToGateway, Sign,
         cancelAdmin, pause, queueAdmin, revokeIntent
    <2>3. paused => paused'
      BY ZenonT(40) DEF Next, vars, Tick, ReceiveTokens, sweepToGateway, Sign,
         cancelAdmin, pause, queueAdmin, revokeIntent
    <2> QED
      BY <1>1, <2>1, <2>2, <2>3
  <1>4. ASSUME NEW u \in Token, ReceiveTokens(u)
        PROVE  ~Slow
    <2>1. \A t \in Address : balance'[t] >= balance[t]
      BY <1>2, <1>4, SMTT(30) DEF ReceiveTokens, TypeOK
    <2>2. \A t \in Address : balance'[t] \in Nat
      BY <1>2, <1>4, SMTT(30) DEF ReceiveTokens, TypeOK
    <2>3. \A t \in Address : /\ ~(Funds(t)' < Funds(t))
                             /\ ~(wallet'[t].available < wallet[t].available)
      BY <1>2, <1>4, <2>1, <2>2 DEF ReceiveTokens, Funds
    <2> QED
      BY <1>1, <1>4, <2>3 DEF ReceiveTokens
  <1>5. ASSUME NEW u \in Token, sweepToGateway(u)
        PROVE  ~Slow
    <2>1. ASSUME NEW t \in Address
          PROVE  /\ ~(Funds(t)' < Funds(t))
                 /\ ~(wallet'[t].available < wallet[t].available)
      <3>1. CASE t = u
        <4>1. /\ balance'[t] = 0
              /\ wallet'[t].available = wallet[t].available + balance[t]
              /\ wallet'[t].withdrawing = wallet[t].withdrawing
          BY <1>5, <3>1 DEF sweepToGateway, TypeOK, WalletAccount
        <4> QED
          BY <1>2, <4>1 DEF Funds
      <3>2. CASE t # u
        <4>1. balance'[t] = balance[t] /\ wallet'[t] = wallet[t]
          BY <1>5, <3>2 DEF sweepToGateway, TypeOK
        <4> QED
          BY <1>2, <4>1 DEF Funds
      <3> QED
        BY <3>1, <3>2
    <2> QED
      BY <1>1, <1>5, <2>1 DEF sweepToGateway
  <1> QED
    BY <1>3, <1>4, <1>5 DEF Next, vars, Tick, Sign, cancelAdmin, pause,
       queueAdmin, revokeIntent

\* An execution happens within the window the op's queueing opened.
LEMMA ExecutionInWindow ==
    ASSUME TypeOK, EpochInv, NEW n \in Nonce, executeAdmin(n)
    PROVE  /\ Executes(n)
           /\ now - approval[n].at
                 \in adminTimelock .. (adminTimelock + ADMIN_OP_GRACE)
           /\ checkWeightedSigs(weights, thresholdWeight, approval[n].by)
  <1>1. Executes(n)
    BY DEF executeAdmin, Live, Executes, TypeOK, AdminOp
  <1>2. /\ adminOps[n].eta = approval[n].at + adminTimelock
        /\ checkWeightedSigs(weights, thresholdWeight, approval[n].by)
        /\ now >= adminOps[n].eta
        /\ now <= adminOps[n].eta + ADMIN_OP_GRACE
    BY DEF executeAdmin, Live, EpochInv
  <1>3. /\ now \in Nat /\ adminTimelock \in Nat /\ approval[n].at \in Nat
        /\ ADMIN_OP_GRACE \in Nat
    BY BoundsAssumption DEF TypeOK
  <1> QED
    BY <1>1, <1>2, <1>3

\* Every slow change waits for the timelock in force, whatever was queued,
\* cancelled, rotated or re-timed before it.
THEOREM TimelockAlwaysRespected == Spec => TimelockRespected
  <1> DEFINE A == Slow => \E n \in Nonce :
                     /\ Executes(n)
                     /\ now - approval[n].at \in
                           adminTimelock .. (adminTimelock + ADMIN_OP_GRACE)
  <1>1. TypeOK /\ EpochInv /\ [Next]_vars => [A]_vars
    BY FastSteps, ExecutionInWindow
  <1>2. Spec => []EpochInv
    BY TypeCorrect, EpochInit, EpochStep, PTL DEF Spec
  <1> QED
    BY <1>1, <1>2, TypeCorrect, PTL DEF Spec, TimelockRespected

\* Of all admin calls only a transfer lowers what the treasury holds.
LEMMA OutflowIsTransfer ==
    ASSUME TypeOK, NEW n \in Nonce, executeAdmin(n),
           NEW t \in Address, Funds(t)' < Funds(t)
    PROVE  LET c == adminOps[n].call IN
           /\ c.sel = "transferToRecipient" /\ c.token = t
           /\ c.recipient \in allowedRecipients
           /\ toBytes32(truncate(c.recipient)) = c.recipient
           /\ Funds(t)' = Funds(t) - c.amount
  <1> DEFINE c == adminOps[n].call
  <1>1. c \in Call /\ WellTyped(c)
    BY TreasuryAssumption DEF executeAdmin, Live, TypeOK, AdminOp
  <1>2. /\ balance[t] \in Nat
        /\ wallet[t].available \in Nat
        /\ wallet[t].withdrawing \in Nat
    BY DEF TypeOK, WalletAccount
  <1>3. SelfCall(c)
    BY DEF executeAdmin
  <1> HIDE DEF c
  <1>4. CASE UNCHANGED <<balance, wallet>>
    BY <1>2, <1>4, SMTT(30) DEF Funds
  <1>5. ASSUME gatewayInitiateWithdrawal(c) PROVE FALSE
    <2>1. c.token \in Address /\ c.value \in Nat
      BY <1>1, <1>5 DEF gatewayInitiateWithdrawal, WellTyped
    <2>2. CASE t = c.token
      <3>1. /\ balance'[t] = balance[t]
            /\ wallet'[t].available = wallet[t].available - c.value
            /\ wallet'[t].withdrawing = wallet[t].withdrawing + c.value
        BY <1>5, <2>2 DEF gatewayInitiateWithdrawal, TypeOK, WalletAccount
      <3> QED
        BY <1>2, <2>1, <3>1, SMTT(30) DEF Funds
    <2>3. CASE t # c.token
      <3>1. balance'[t] = balance[t] /\ wallet'[t] = wallet[t]
        BY <1>5, <2>3 DEF gatewayInitiateWithdrawal, TypeOK
      <3> QED
        BY <1>2, <3>1 DEF Funds
    <2> QED
      BY <2>2, <2>3
  <1>6. ASSUME gatewayWithdraw(c) PROVE FALSE
    <2>1. c.token \in Address
      BY <1>1, <1>6 DEF gatewayWithdraw, WellTyped
    <2>2. CASE t = c.token
      <3>1. /\ balance'[t] = balance[t] + wallet[t].withdrawing
            /\ wallet'[t].available = wallet[t].available
            /\ wallet'[t].withdrawing = 0
        BY <1>6, <2>2 DEF gatewayWithdraw, TypeOK, WalletAccount
      <3> QED
        BY <1>2, <3>1, SMTT(30) DEF Funds
    <2>3. CASE t # c.token
      <3>1. balance'[t] = balance[t] /\ wallet'[t] = wallet[t]
        BY <1>6, <2>3 DEF gatewayWithdraw, TypeOK
      <3> QED
        BY <1>2, <3>1 DEF Funds
    <2> QED
      BY <2>2, <2>3
  <1>7. CASE transferToRecipient(c)
    <2>1. c.token \in Address /\ c.amount \in Nat /\ c.recipient \in Word
      BY <1>1, <1>7 DEF transferToRecipient, WellTyped
    <2>2. /\ c.recipient \in allowedRecipients
          /\ toBytes32(truncate(c.recipient)) = c.recipient
      BY <1>7, <2>1 DEF transferToRecipient, isCanonicalAddress, toBytes32,
                        truncate, Word
    <2>3. wallet'[t] = wallet[t]
      BY <1>7 DEF transferToRecipient
    <2>4. /\ t = c.token
          /\ balance'[t] = balance[t] - c.amount
      <3>1. balance'[t] # balance[t]
        BY <1>2, <2>3 DEF Funds
      <3> QED
        BY <1>7, <2>1, <3>1 DEF transferToRecipient, TypeOK
    <2>5. Funds(t)' = Funds(t) - c.amount
      BY <1>2, <2>1, <2>3, <2>4 DEF Funds
    <2> QED
      BY <1>7, <2>2, <2>4, <2>5 DEF transferToRecipient, c
  <1> QED
    BY <1>3, <1>4, <1>5, <1>6, <1>7 DEF SelfCall, setOwners,
       setAllowedRecipient, setPolicy, setPaused, setAdminTimelock

\* Whatever was queued and in whatever order it executes, money goes only to
\* payees of the allowlist, with the consent of today's owners.
THEOREM FundsAlwaysLeaveToRecipients == Spec => FundsLeaveToRecipients
  <1> DEFINE A == \A t \in Address :
                     Funds(t)' < Funds(t) => \E n \in Nonce : Pays(n, t)
  <1>1. TypeOK /\ EpochInv /\ [Next]_vars => [A]_vars
    <2> SUFFICES ASSUME TypeOK, EpochInv, [Next]_vars,
                        NEW t \in Address, Funds(t)' < Funds(t)
                 PROVE  \E n \in Nonce : Pays(n, t)
      OBVIOUS
    <2>1. PICK n \in Nonce : executeAdmin(n)
      BY FastSteps DEF Slow
    <2>2. Pays(n, t)
      BY <2>1, ExecutionInWindow, OutflowIsTransfer DEF Pays
    <2> QED
      BY <2>2
  <1>2. Spec => []EpochInv
    BY TypeCorrect, EpochInit, EpochStep, PTL DEF Spec
  <1> QED
    BY <1>1, <1>2, TypeCorrect, PTL DEF Spec, FundsLeaveToRecipients

-----------------------------------------------------------------------------
(* The queue implements AdminTimelock.                                     *)

\* Only an op that was queued can have been executed.
ExecutedInv ==
    \A n \in Nonce : adminOps[n].executed => adminOps[n].call # NoCall

LEMMA ExecutedInit == Init => ExecutedInv
  BY SMTT(30) DEF Init, Constructor, ExecutedInv, NoOp

LEMMA ExecutedStep == TypeOK /\ ExecutedInv /\ [Next]_vars => ExecutedInv'
  <1> SUFFICES ASSUME TypeOK, ExecutedInv, [Next]_vars PROVE ExecutedInv'
    OBVIOUS
  <1>1. ASSUME NEW m \in Nonce, executeAdmin(m)
        PROVE  ExecutedInv'
    BY <1>1 DEF executeAdmin, Live, ExecutedInv, TypeOK, AdminOp
  <1>2. ASSUME NEW m \in Nonce, NEW S, cancelAdmin(m, S)
        PROVE  ExecutedInv'
    BY <1>2 DEF cancelAdmin, ExecutedInv, TypeOK, AdminOp
  <1>3. ASSUME NEW m \in Nonce, NEW S, NEW c \in Call, NEW d \in Deadline,
               queueAdmin(c, m, d, S)
        PROVE  ExecutedInv'
    BY <1>3 DEF queueAdmin, ExecutedInv, TypeOK, AdminOp
  <1>4. CASE UNCHANGED adminOps
    BY <1>4 DEF ExecutedInv
  <1> QED
    BY <1>1, <1>2, <1>3, <1>4 DEF Next, vars, Tick, ReceiveTokens,
       sweepToGateway, Sign, pause, revokeIntent

RefInv == TypeOK /\ EpochInv /\ ExecutedInv

\* The states of a nonce in terms of the queue.
LEMMA StatusCases ==
    ASSUME RefInv, NEW n \in Nonce
    PROVE  /\ opStatus(n) = "free" <=> n \notin usedNonces
           /\ opStatus(n) = "pending" <=> Live(n)
           /\ opStatus(n) = "done" <=> adminOps[n].executed
           /\ opStatus(n) = "dead" <=>
                 n \in usedNonces /\ ~adminOps[n].executed /\ ~Live(n)
           /\ Live(n) => n \in usedNonces /\ ~adminOps[n].executed
           /\ adminOps[n].executed => n \in usedNonces
  BY DEF RefInv, EpochInv, ExecutedInv, opStatus, Live

LEMMA RefineInit == Init => Timelock!Init
  <1> SUFFICES ASSUME Init PROVE Timelock!Init
    OBVIOUS
  <1>1. adminTimelock \in Nat
    BY TypeInit DEF TypeOK
  <1>2. \A n \in Nonce : opStatus(n) = "free" /\ adminOps[n].eta = 0
    BY SMTT(30) DEF Init, Constructor, opStatus, Live, NoOp
  <1>3. now = 0
    BY DEF Init, Constructor
  <1> QED
    BY <1>1, <1>2, <1>3 DEF Timelock!Init

\* A step that leaves the queue, the clock, the timelock and the epoch alone
\* leaves every status alone.
LEMMA RefineStutter ==
    ASSUME UNCHANGED <<now, adminTimelock, adminEpoch, adminOps, usedNonces>>
    PROVE  UNCHANGED Timelock!vars
  BY DEF Timelock!vars, opStatus, Live

LEMMA RefineTick == RefInv /\ RefInv' /\ Tick => Timelock!Pass
  <1> SUFFICES ASSUME RefInv, RefInv', Tick PROVE Timelock!Pass
    OBVIOUS
  <1>1. ASSUME NEW n \in Nonce
        PROVE  opStatus(n)' = IF opStatus(n) = "pending"
                                 /\ now' > adminOps[n].eta + ADMIN_OP_GRACE
                              THEN "dead" ELSE opStatus(n)
    <2>1. /\ now \in Nat /\ now' = now + 1 /\ adminOps[n].eta \in Nat
          /\ ADMIN_OP_GRACE \in Nat
      BY BoundsAssumption DEF Tick, RefInv, TypeOK, AdminOp
    <2>2. UNCHANGED <<adminOps, usedNonces, adminEpoch>>
      BY DEF Tick
    <2>3. opStatus(n) = "pending" => n \in usedNonces
      BY StatusCases
    <2> QED
      BY <2>1, <2>2, <2>3, SMTT(30) DEF opStatus, Live
  <1>2. UNCHANGED <<adminTimelock, adminOps>> /\ now' = now + 1
    BY DEF Tick
  <1> QED
    BY <1>1, <1>2 DEF Timelock!Pass

LEMMA RefineQueue ==
    ASSUME RefInv, NEW n \in Nonce, NEW c \in Call, NEW d, NEW S,
           queueAdmin(c, n, d, S)
    PROVE  Timelock!Approve(n)
  <1>1. opStatus(n) = "free"
    BY StatusCases DEF queueAdmin
  <1>2. opStatus(n)' = "pending"
    <2>1. adminOps'[n] = [call |-> c, eta |-> now + adminTimelock,
                          executed |-> FALSE, cancelled |-> FALSE,
                          epoch |-> adminEpoch]
      BY DEF queueAdmin, RefInv, TypeOK
    <2>2. c # NoCall
      <3>1. WellTyped(c)
        BY TreasuryAssumption
      <3>2. c.sel # "none"
        BY <3>1 DEF WellTyped
      <3> QED
        BY <3>2 DEF NoCall
    <2>3. /\ now \in Nat /\ adminTimelock \in Nat /\ ADMIN_OP_GRACE \in Nat
          /\ now' = now /\ adminEpoch' = adminEpoch
      BY BoundsAssumption DEF queueAdmin, RefInv, TypeOK
    <2> QED
      BY <2>1, <2>2, <2>3, SMTT(30) DEF opStatus, Live
  <1>3. ASSUME NEW m \in Nonce, m # n
        PROVE  opStatus(m)' = opStatus(m)
    BY <1>3 DEF queueAdmin, opStatus, Live, RefInv, TypeOK
  <1>4. [m \in Nonce |-> opStatus(m)]'
           = [[m \in Nonce |-> opStatus(m)] EXCEPT ![n] = "pending"]
    BY <1>2, <1>3
  <1>5. [m \in Nonce |-> adminOps[m].eta]'
           = [[m \in Nonce |-> adminOps[m].eta] EXCEPT
                 ![n] = now + adminTimelock]
    BY DEF queueAdmin, RefInv, TypeOK, AdminOp
  <1>6. UNCHANGED <<now, adminTimelock>>
    BY DEF queueAdmin
  <1> QED
    BY <1>1, <1>4, <1>5, <1>6 DEF Timelock!Approve

\* Cancelling a dead op again is a stuttering step of the abstract queue.
LEMMA RefineCancel ==
    ASSUME RefInv, NEW n \in Nonce, NEW S, cancelAdmin(n, S)
    PROVE  Timelock!Withdraw(n) \/ UNCHANGED Timelock!vars
  <1>1. /\ adminOps'[n] = [adminOps[n] EXCEPT !.cancelled = TRUE]
        /\ \A m \in Nonce : m # n => adminOps'[m] = adminOps[m]
        /\ usedNonces' = usedNonces \cup {n}
        /\ UNCHANGED <<now, adminTimelock, adminEpoch>>
    BY DEF cancelAdmin, RefInv, TypeOK
  <1>2. /\ adminOps'[n].cancelled /\ adminOps'[n].eta = adminOps[n].eta
        /\ adminOps'[n].executed = adminOps[n].executed
    BY <1>1 DEF RefInv, TypeOK, AdminOp
  <1>3. ~adminOps[n].executed
    BY DEF cancelAdmin, RefInv, ExecutedInv
  <1>4. opStatus(n)' = "dead"
    BY <1>1, <1>2, <1>3 DEF opStatus, Live
  <1>5. \A m \in Nonce : m # n => opStatus(m)' = opStatus(m)
    BY <1>1 DEF opStatus, Live
  <1>6. [m \in Nonce |-> opStatus(m)]'
           = [[m \in Nonce |-> opStatus(m)] EXCEPT ![n] = "dead"]
    BY <1>4, <1>5
  <1>7. [m \in Nonce |-> adminOps[m].eta]' = [m \in Nonce |-> adminOps[m].eta]
    BY <1>1, <1>2
  <1>8. CASE opStatus(n) \in {"free", "pending"}
    BY <1>1, <1>6, <1>7, <1>8 DEF Timelock!Withdraw
  <1>9. CASE opStatus(n) = "dead"
    <2>1. [m \in Nonce |-> opStatus(m)]' = [m \in Nonce |-> opStatus(m)]
      BY <1>4, <1>5, <1>9
    <2> QED
      BY <1>1, <1>7, <2>1 DEF Timelock!vars
  <1> QED
    BY <1>3, <1>8, <1>9 DEF opStatus

LEMMA RefinePause ==
    ASSUME RefInv, NEW n \in Nonce, NEW S, pause(n, S)
    PROVE  Timelock!Withdraw(n)
  <1>1. /\ usedNonces' = usedNonces \cup {n}
        /\ UNCHANGED <<now, adminTimelock, adminEpoch, adminOps>>
        /\ n \notin usedNonces
    BY DEF pause
  <1>2. opStatus(n) = "free" /\ ~Live(n) /\ ~adminOps[n].executed
    BY <1>1, StatusCases
  <1>3. opStatus(n)' = "dead"
    BY <1>1, <1>2 DEF opStatus, Live
  <1>4. \A m \in Nonce : m # n => opStatus(m)' = opStatus(m)
    BY <1>1 DEF opStatus, Live
  <1>5. [m \in Nonce |-> opStatus(m)]'
           = [[m \in Nonce |-> opStatus(m)] EXCEPT ![n] = "dead"]
    BY <1>3, <1>4
  <1> QED
    BY <1>1, <1>2, <1>5 DEF Timelock!Withdraw

LEMMA RefineExecute ==
    ASSUME RefInv, RefInv', NEW n \in Nonce, executeAdmin(n)
    PROVE  Timelock!Enact(n) \/ Timelock!Reconfigure(n)
  <1>1. /\ adminOps'[n] = [adminOps[n] EXCEPT !.executed = TRUE]
        /\ \A m \in Nonce : m # n => adminOps'[m] = adminOps[m]
        /\ UNCHANGED <<now, usedNonces>>
    BY DEF executeAdmin, RefInv, TypeOK
  <1>2. adminOps'[n].executed /\ adminOps'[n].eta = adminOps[n].eta
    BY <1>1 DEF RefInv, TypeOK, AdminOp
  <1>3. [m \in Nonce |-> adminOps[m].eta]' = [m \in Nonce |-> adminOps[m].eta]
    BY <1>1, <1>2
  <1>4. opStatus(n)' = "done"
    BY <1>2 DEF opStatus
  <1>5. /\ opStatus(n) = "pending"
        /\ now \in adminOps[n].eta .. (adminOps[n].eta + ADMIN_OP_GRACE)
    <2>1. now \in Nat /\ adminOps[n].eta \in Nat /\ ADMIN_OP_GRACE \in Nat
      BY BoundsAssumption DEF RefInv, TypeOK, AdminOp
    <2>2. Live(n) /\ now >= adminOps[n].eta
      BY DEF executeAdmin
    <2> QED
      BY <2>1, <2>2, SMTT(30) DEF opStatus, Live
  <1>6. Timelock!Ripe(n)
    BY <1>5 DEF Timelock!Ripe
  <1>7. CASE UNCHANGED <<ownerVars, adminTimelock, adminEpoch>>
    <2>1. \A m \in Nonce : m # n => opStatus(m)' = opStatus(m)
      BY <1>1, <1>7 DEF opStatus, Live
    <2>2. [m \in Nonce |-> opStatus(m)]'
             = [[m \in Nonce |-> opStatus(m)] EXCEPT ![n] = "done"]
      BY <1>4, <2>1
    <2> QED
      BY <1>1, <1>3, <1>6, <1>7, <2>2 DEF Timelock!Enact
  <1>8. CASE adminEpoch' = adminEpoch + 1
    <2>1. ASSUME NEW m \in Nonce, m # n
          PROVE  opStatus(m)' = IF opStatus(m) = "pending"
                                THEN "dead" ELSE opStatus(m)
      <3>1. ~Live(m)'
        <4>1. adminEpoch \in Nat /\ adminOps[m].epoch \in Nat
          BY DEF RefInv, TypeOK, AdminOp
        <4>2. adminOps[m].call # NoCall => adminOps[m].epoch <= adminEpoch
          BY DEF RefInv, EpochInv
        <4> QED
          BY <1>1, <1>8, <2>1, <4>1, <4>2 DEF Live
      <3>2. opStatus(m) = "pending" => m \in usedNonces
        BY StatusCases
      <3> QED
        BY <1>1, <2>1, <3>1, <3>2 DEF opStatus
    <2>2. [m \in Nonce |-> opStatus(m)]'
             = [m \in Nonce |-> IF m = n THEN "done"
                                ELSE IF [k \in Nonce |-> opStatus(k)][m]
                                           = "pending"
                                     THEN "dead"
                                     ELSE [k \in Nonce |-> opStatus(k)][m]]
      BY <1>4, <2>1
    <2>3. adminTimelock' \in Nat
      BY DEF RefInv, TypeOK
    <2> QED
      BY <1>1, <1>3, <1>6, <2>2, <2>3 DEF Timelock!Reconfigure
  <1> QED
    BY <1>7, <1>8, SelfCallEpoch DEF executeAdmin

\* The admin queue, with its owners, signatures, calls and epochs, implements
\* the abstract timelock for every choice of the constants.
THEOREM QueueImplementsTimelock == Spec => QueueIsATimelock
  <1>1. RefInv /\ RefInv' /\ [Next]_vars => [Timelock!Next]_(Timelock!vars)
    <2> SUFFICES ASSUME RefInv, RefInv', [Next]_vars
                 PROVE  Timelock!Next \/ UNCHANGED Timelock!vars
      OBVIOUS
    <2>1. CASE Tick
      BY <2>1, RefineTick DEF Timelock!Next
    <2>2. ASSUME NEW n \in Nonce, executeAdmin(n)
          PROVE  Timelock!Next
      BY <2>2, RefineExecute DEF Timelock!Next
    <2>3. ASSUME NEW n \in Nonce, NEW S, cancelAdmin(n, S)
          PROVE  Timelock!Next \/ UNCHANGED Timelock!vars
      BY <2>3, RefineCancel DEF Timelock!Next
    <2>4. ASSUME NEW n \in Nonce, NEW S, pause(n, S)
          PROVE  Timelock!Next
      BY <2>4, RefinePause DEF Timelock!Next
    <2>5. ASSUME NEW n \in Nonce, NEW c \in Call, NEW d \in Deadline, NEW S,
                 queueAdmin(c, n, d, S)
          PROVE  Timelock!Next
      BY <2>5, RefineQueue DEF Timelock!Next
    <2>6. CASE UNCHANGED <<now, adminTimelock, adminEpoch, adminOps,
                           usedNonces>>
      BY <2>6, RefineStutter
    <2> QED
      BY <2>1, <2>2, <2>3, <2>4, <2>5, <2>6 DEF Next, vars, ReceiveTokens,
         sweepToGateway, Sign, revokeIntent
  <1>2. Spec => []RefInv
    BY TypeCorrect, EpochInit, EpochStep, ExecutedInit, ExecutedStep, PTL
       DEF Spec, RefInv
  <1> QED
    BY <1>1, <1>2, RefineInit, PTL DEF Spec, QueueIsATimelock, Timelock!Spec
=============================================================================
