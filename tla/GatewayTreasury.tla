--------------------------- MODULE GatewayTreasury ---------------------------
(***************************************************************************)
(* contracts/src/bufi/gateway-treasury/GatewayTreasury.sol: a weighted     *)
(* multisig that holds a Circle Gateway balance.  It has no private key;   *)
(* it approves burn intents through ERC-1271, and every change of its      *)
(* owners or policy, and every transfer out of it, is an admin operation   *)
(* that a quorum of owners signs, that waits out a timelock, and that      *)
(* anyone may then execute.                                                *)
(*                                                                         *)
(* A transaction that reverts changes nothing, so each external function   *)
(* is an action whose guard is the conjunction of its revert conditions.   *)
(* Owners sign typed messages off-chain at any time; a signature, once     *)
(* made, stays with whoever holds it and may be submitted by anyone, any   *)
(* number of times, in any order.  One tick of the clock advances both     *)
(* block.timestamp and block.number.                                       *)
(***************************************************************************)
EXTENDS GatewayIntentPolicy, Sequences, FiniteSets, Functions

CONSTANTS
    Self, GatewayWallet,  \* address(this) and the immutable gatewayWallet
    LocalDomain,          \* the immutable localDomain
    Token,                \* the tokens of the instance
    TokenName,            \* the non-empty EIP-712 names of tokens
    Genesis,              \* the constructor arguments tried
    Nonce,                \* admin nonces
    Call,                 \* the admin calls the owners may sign
    Intent,               \* the burn intents the owners may sign
    Coalition,            \* the groups of owners that sign together
    Deadline,             \* the submission deadlines the owners may sign
    ADMIN_OP_GRACE,       \* 7 days
    WITHDRAWAL_DELAY,     \* blocks a Gateway withdrawal waits (external)
    MAX_OWNERS,           \* 20
    MaxTime,              \* bound: the last tick of the clock
    MaxSignatures,        \* bound: signatures made in a behaviour
    MaxIncome             \* bound: token units sent to the treasury

VARIABLES
    now,
    owners, weights, thresholdWeight,       \* the owner set
    allowedRecipients, recipientCount,      \* mapping and _recipientCount
    policy,                                 \* the other allowlists and caps
    paused, revokedIntents,                 \* the emergency stops
    adminTimelock, adminEpoch, adminOps, usedNonces,
    balance,        \* ERC-20 balance of the treasury, by token
    wallet,         \* its GatewayWallet balances, by token (external)
    income,         \* token units received so far
    signatures,     \* owner signatures made so far, with the epoch then
    approval        \* history: when each op was queued and who signed it

ownerVars == <<owners, weights, thresholdWeight>>
recipientVars == <<allowedRecipients, recipientCount>>
queueVars == <<adminOps, usedNonces, approval>>
moneyVars == <<balance, wallet, income>>
vars == <<now, ownerVars, recipientVars, policy, paused, revokedIntents,
          adminTimelock, adminEpoch, queueVars, moneyVars, signatures>>

-----------------------------------------------------------------------------
(* Types.                                                                  *)

Policy ==
    [allowedDestinationDomains : SUBSET Domain,
     allowedTokens : [Address -> TokenName \cup {""}],  \* "": not allowed
     allowedDestinationTokens : SUBSET Word,
     allowedDestinationCallers : SUBSET Word,
     destinationMinters : [Domain -> Word],
     perIntentCap : Nat, maxFeeCap : Nat, maxExpiryBlocks : Nat]

\* The calldata of an admin op is a record: the selector and the arguments of
\* its setter.  "other" is a selector that _isAllowedAdminSelector refuses.
WellTyped(c) ==
    /\ c.sel # "none"
    /\ c.sel = "setOwners" =>
          /\ c.newOwners \in Seq(Address)
          /\ c.newWeights \in Seq(Nat)
          /\ c.newThreshold \in Nat
    /\ c.sel \in {"setAllowedRecipient", "setAllowedDestinationDomain",
                  "setAllowedToken", "setAllowedDestinationCaller",
                  "setAllowedDestinationToken"} => c.allowed \in BOOLEAN
    /\ c.sel \in {"setAllowedRecipient", "transferToRecipient"} =>
          c.recipient \in Word
    /\ c.sel \in {"setAllowedDestinationDomain", "setDestinationMinter"} =>
          c.domain \in Domain
    /\ c.sel \in {"setAllowedToken", "gatewayInitiateWithdrawal",
                  "gatewayWithdraw", "transferToRecipient"} =>
          c.token \in Address
    /\ c.sel = "setAllowedToken" => c.name \in TokenName \cup {""}
    /\ c.sel = "setDestinationMinter" => c.minter \in Word
    /\ c.sel = "setAllowedDestinationCaller" => c.caller \in Word
    /\ c.sel = "setAllowedDestinationToken" => c.tok \in Word
    /\ c.sel = "setPaused" => c.paused \in BOOLEAN
    /\ c.sel \in {"setPerIntentCap", "setMaxFeeCap"} => c.cap \in Nat
    /\ c.sel = "setMaxExpiryBlocks" => c.blocks \in Nat
    /\ c.sel = "setAdminTimelock" => c.secs \in Nat
    /\ c.sel = "gatewayInitiateWithdrawal" => c.value \in Nat
    /\ c.sel = "transferToRecipient" => c.amount \in Nat

NoCall == [sel |-> "none"]    \* callHash = 0

AdminOp == [call : Call \cup {NoCall}, eta : Nat, executed : BOOLEAN,
            cancelled : BOOLEAN, epoch : Nat]

NoOp == [call |-> NoCall, eta |-> 0, executed |-> FALSE,
         cancelled |-> FALSE, epoch |-> 0]

WalletAccount == [available : Nat, withdrawing : Nat, readyAt : Nat]

GenesisType ==
    [owners : Seq(Address), weights : Seq(Nat), threshold : Nat,
     recipients : SUBSET Word, policy : Policy, adminTimelock : Nat]

ASSUME TreasuryAssumption ==
    /\ Self \in Address \ {0}
    /\ GatewayWallet \in Address \ {0}
    /\ LocalDomain \in Domain
    /\ Token \subseteq Address
    /\ "" \notin TokenName
    /\ Genesis \subseteq GenesisType
    /\ \A c \in Call : WellTyped(c)
    /\ Intent \subseteq BurnIntent
    /\ Coalition \subseteq SUBSET Address
    /\ Deadline \subseteq Nat
    /\ \A g \in Genesis : IsFiniteSet(g.recipients)

ASSUME BoundsAssumption ==
    /\ ADMIN_OP_GRACE \in Nat
    /\ WITHDRAWAL_DELAY \in Nat
    /\ MAX_OWNERS \in Nat

-----------------------------------------------------------------------------
(* Signatures.                                                             *)

AdminOpMsg(c, n, d, e) ==
    [type |-> "AdminOp", call |-> c, nonce |-> n, deadline |-> d,
     epoch |-> e]
CancelMsg(n) == [type |-> "CancelAdminOp", nonce |-> n]
PauseMsg(n) == [type |-> "Pause", nonce |-> n]
RevokeMsg(i) == [type |-> "RevokeIntent", digest |-> i]

\* What an owner may be asked to sign now.  Wallets sign an AdminOp for the
\* epoch they read from the contract.
Signable ==
    {AdminOpMsg(c, n, d, adminEpoch) : c \in Call, n \in Nonce, d \in Deadline}
    \cup {CancelMsg(n) : n \in Nonce} \cup {PauseMsg(n) : n \in Nonce}
    \cup {RevokeMsg(i) : i \in Intent}
    \cup {burnIntentDigest(i) : i \in Intent}

SignersOf(m) == UNION {s.by : s \in {t \in signatures : t.msg = m}}

\* Total weight of a set of owners.
WeightOf(w, S) == SumFunctionOnSet(w, S)

\* _checkWeightedSigs on a blob whose slots, in strictly ascending order of
\* address, are the members of S.
checkWeightedSigs(w, threshold, S) ==
    /\ S # {}
    /\ \A o \in S : w[o] # 0
    /\ WeightOf(w, S) >= threshold

\* Some blob assembled from the signatures made so far passes.
QuorumSigned(m, S) ==
    /\ S \subseteq SignersOf(m)
    /\ checkWeightedSigs(weights, thresholdWeight, S)

-----------------------------------------------------------------------------
(* The constructor.                                                        *)

\* The checks of _initOwners, repeated in setOwners.
ValidOwnerSet(newOwners, newWeights, newThreshold) ==
    /\ Len(newOwners) \in 1 .. MAX_OWNERS
    /\ Len(newWeights) = Len(newOwners)
    /\ \A i \in 1 .. Len(newOwners) :
          /\ newOwners[i] \notin {0, Self}
          /\ newWeights[i] >= 1
          /\ \A j \in 1 .. (i - 1) : newOwners[j] # newOwners[i]
    /\ newThreshold \in 1 .. SumFunction(newWeights)

\* weights[newOwners[i]] := newWeights[i], on top of the mapping w.
Assign(w, newOwners, newWeights) ==
    [o \in Address |->
        IF \E i \in 1 .. Len(newOwners) : newOwners[i] = o
        THEN newWeights[CHOOSE i \in 1 .. Len(newOwners) : newOwners[i] = o]
        ELSE w[o]]

ConstructorAccepts(g) ==
    /\ g.recipients # {}
    /\ g.policy.perIntentCap # 0
    /\ g.policy.maxExpiryBlocks # 0
    /\ \A d \in g.policy.allowedDestinationDomains :
          g.policy.destinationMinters[d] # ZeroWord
    /\ g.policy.allowedTokens[0] = ""
    /\ ValidOwnerSet(g.owners, g.weights, g.threshold)

Constructor(g) ==
    /\ ConstructorAccepts(g)
    /\ now = 0
    /\ owners = g.owners
    /\ weights = Assign([o \in Address |-> 0], g.owners, g.weights)
    /\ thresholdWeight = g.threshold
    /\ allowedRecipients = g.recipients
    /\ recipientCount = Cardinality(g.recipients)
    /\ policy = g.policy
    /\ paused = FALSE
    /\ revokedIntents = {}
    /\ adminTimelock = g.adminTimelock
    /\ adminEpoch = 0
    /\ adminOps = [n \in Nonce |-> NoOp]
    /\ usedNonces = {}
    /\ balance = [t \in Address |-> 0]
    /\ wallet = [t \in Address |->
                    [available |-> 0, withdrawing |-> 0, readyAt |-> 0]]
    /\ income = 0
    /\ signatures = {}
    /\ approval = [n \in Nonce |-> [at |-> 0, by |-> {}]]

Init == \E g \in Genesis : Constructor(g)

-----------------------------------------------------------------------------
(* The world outside: time, income, and owners signing.                    *)

Tick ==
    /\ now < MaxTime
    /\ now' = now + 1
    /\ UNCHANGED <<ownerVars, recipientVars, policy, paused, revokedIntents,
                   adminTimelock, adminEpoch, queueVars, moneyVars, signatures>>

ReceiveTokens(t) ==
    /\ income < MaxIncome
    /\ income' = income + 1
    /\ balance' = [balance EXCEPT ![t] = @ + 1]
    /\ UNCHANGED <<now, ownerVars, recipientVars, policy, paused,
                   revokedIntents, adminTimelock, adminEpoch, queueVars,
                   wallet, signatures>>

Sign(m, S) ==
    /\ Cardinality(signatures) < MaxSignatures
    /\ signatures' =
          signatures \cup {[msg |-> m, by |-> S, epoch |-> adminEpoch]}
    /\ UNCHANGED <<now, ownerVars, recipientVars, policy, paused,
                   revokedIntents, adminTimelock, adminEpoch, queueVars,
                   moneyVars>>

-----------------------------------------------------------------------------
(* External operations.                                                    *)

isTokenAllowed(t) == policy.allowedTokens[t] # ""

\* Mutant: the tokens are credited but not pulled.
sweepToGateway_keepsBalance(t) ==
    /\ isTokenAllowed(t)
    /\ balance[t] # 0
    /\ wallet' = [wallet EXCEPT ![t].available = @ + balance[t]]
    /\ UNCHANGED <<now, ownerVars, recipientVars, policy, paused,
                   revokedIntents, adminTimelock, adminEpoch, queueVars,
                   balance, income, signatures>>

\* GatewayWallet.deposit pulls the approved amount and credits it.
sweepToGateway(t) ==
    /\ isTokenAllowed(t)
    /\ balance[t] # 0
    /\ balance' = [balance EXCEPT ![t] = 0]
    /\ wallet' = [wallet EXCEPT ![t].available = @ + balance[t]]
    /\ UNCHANGED <<now, ownerVars, recipientVars, policy, paused,
                   revokedIntents, adminTimelock, adminEpoch, queueVars,
                   income, signatures>>

\* Mutant: the timelock is subtracted.
newEta_subtracts == now - adminTimelock

newEta == now + adminTimelock

queueAdmin(c, n, deadline, S) ==
    /\ n \notin usedNonces
    /\ now <= deadline
    /\ QuorumSigned(AdminOpMsg(c, n, deadline, adminEpoch), S)
    /\ usedNonces' = usedNonces \cup {n}
    /\ adminOps' = [adminOps EXCEPT ![n] =
          [call |-> c, eta |-> newEta, executed |-> FALSE,
           cancelled |-> FALSE, epoch |-> adminEpoch]]
    /\ approval' = [approval EXCEPT ![n] = [at |-> now, by |-> S]]
    /\ UNCHANGED <<now, ownerVars, recipientVars, policy, paused,
                   revokedIntents, adminTimelock, adminEpoch, moneyVars,
                   signatures>>

\* Cancels a queued op, or burns a nonce that was never used.
cancelAdmin(n, S) ==
    /\ IF adminOps[n].call = NoCall
       THEN n \notin usedNonces
       ELSE ~adminOps[n].executed /\ ~adminOps[n].cancelled
    /\ QuorumSigned(CancelMsg(n), S)
    /\ usedNonces' = usedNonces \cup {n}
    /\ adminOps' = [adminOps EXCEPT ![n].cancelled = TRUE]
    /\ UNCHANGED <<now, ownerVars, recipientVars, policy, paused,
                   revokedIntents, adminTimelock, adminEpoch, approval,
                   moneyVars, signatures>>

revokeIntent(i, S) ==
    /\ QuorumSigned(RevokeMsg(i), S)
    /\ revokedIntents' = revokedIntents \cup {i}
    /\ UNCHANGED <<now, ownerVars, recipientVars, policy, paused,
                   adminTimelock, adminEpoch, queueVars, moneyVars,
                   signatures>>

pause(n, S) ==
    /\ n \notin usedNonces
    /\ QuorumSigned(PauseMsg(n), S)
    /\ usedNonces' = usedNonces \cup {n}
    /\ paused' = TRUE
    /\ UNCHANGED <<now, ownerVars, recipientVars, policy, revokedIntents,
                   adminTimelock, adminEpoch, adminOps, approval, moneyVars,
                   signatures>>

-----------------------------------------------------------------------------
(* Self-administered setters: what the self-call of executeAdmin does.     *)
(* Each says how its call changes the state a self-call can reach.         *)

\* adminEpoch++ of setOwners and setAdminTimelock.  Mutant: left out.
bumpEpoch_dropped == adminEpoch' = adminEpoch

bumpEpoch == adminEpoch' = adminEpoch + 1

\* `delete weights[owners[i]]` for every owner.  Mutant: left out.
clearedWeights_kept == weights

clearedWeights ==
    [o \in Address |-> IF o \in Range(owners) THEN 0 ELSE weights[o]]

setOwners(c) ==
    /\ c.sel = "setOwners"
    /\ ValidOwnerSet(c.newOwners, c.newWeights, c.newThreshold)
    /\ weights' = Assign(clearedWeights, c.newOwners, c.newWeights)
    /\ owners' = c.newOwners
    /\ thresholdWeight' = c.newThreshold
    /\ bumpEpoch
    /\ UNCHANGED <<recipientVars, policy, paused, adminTimelock, balance,
                   wallet>>

\* A payee may be removed unless it is the last.  Mutant: off by one.
canRemoveRecipient_last == recipientCount >= 1

canRemoveRecipient == recipientCount > 1

setAllowedRecipient(c) ==
    /\ c.sel = "setAllowedRecipient"
    /\ \/ /\ c.allowed <=> c.recipient \in allowedRecipients
          /\ UNCHANGED recipientVars
       \/ /\ c.allowed /\ c.recipient \notin allowedRecipients
          /\ recipientCount' = recipientCount + 1
          /\ allowedRecipients' = allowedRecipients \cup {c.recipient}
       \/ /\ ~c.allowed /\ c.recipient \in allowedRecipients
          /\ canRemoveRecipient
          /\ recipientCount' = recipientCount - 1
          /\ allowedRecipients' = allowedRecipients \ {c.recipient}
    /\ UNCHANGED <<ownerVars, policy, paused, adminTimelock, adminEpoch,
                   balance, wallet>>

\* Membership of x in the set s after setAllowed...(x, allowed).
Toggle(s, x, allowed) == IF allowed THEN s \cup {x} ELSE s \ {x}

setAllowedDestinationDomain(c) ==
    /\ c.sel = "setAllowedDestinationDomain"
    /\ policy' = [policy EXCEPT !.allowedDestinationDomains =
                     Toggle(@, c.domain, c.allowed)]

setAllowedToken(c) ==
    /\ c.sel = "setAllowedToken"
    /\ c.allowed => c.token # 0 /\ c.name # ""
    /\ policy' = [policy EXCEPT !.allowedTokens[c.token] =
                     IF c.allowed THEN c.name ELSE ""]

setDestinationMinter(c) ==
    /\ c.sel = "setDestinationMinter"
    /\ policy' = [policy EXCEPT !.destinationMinters[c.domain] = c.minter]

setAllowedDestinationCaller(c) ==
    /\ c.sel = "setAllowedDestinationCaller"
    /\ policy' = [policy EXCEPT !.allowedDestinationCallers =
                     Toggle(@, c.caller, c.allowed)]

setAllowedDestinationToken(c) ==
    /\ c.sel = "setAllowedDestinationToken"
    /\ policy' = [policy EXCEPT !.allowedDestinationTokens =
                     Toggle(@, c.tok, c.allowed)]

setPerIntentCap(c) ==
    /\ c.sel = "setPerIntentCap"
    /\ c.cap # 0
    /\ policy' = [policy EXCEPT !.perIntentCap = c.cap]

setMaxFeeCap(c) ==
    /\ c.sel = "setMaxFeeCap"
    /\ policy' = [policy EXCEPT !.maxFeeCap = c.cap]

setMaxExpiryBlocks(c) ==
    /\ c.sel = "setMaxExpiryBlocks"
    /\ c.blocks # 0
    /\ policy' = [policy EXCEPT !.maxExpiryBlocks = c.blocks]

setPolicy(c) ==
    /\ \/ setAllowedDestinationDomain(c)
       \/ setAllowedToken(c)
       \/ setDestinationMinter(c)
       \/ setAllowedDestinationCaller(c)
       \/ setAllowedDestinationToken(c)
       \/ setPerIntentCap(c)
       \/ setMaxFeeCap(c)
       \/ setMaxExpiryBlocks(c)
    /\ UNCHANGED <<ownerVars, recipientVars, paused, adminTimelock,
                   adminEpoch, balance, wallet>>

setPaused(c) ==
    /\ c.sel = "setPaused"
    /\ paused' = c.paused
    /\ UNCHANGED <<ownerVars, recipientVars, policy, adminTimelock,
                   adminEpoch, balance, wallet>>

setAdminTimelock(c) ==
    /\ c.sel = "setAdminTimelock"
    /\ adminTimelock' = c.secs
    /\ bumpEpoch
    /\ UNCHANGED <<ownerVars, recipientVars, policy, paused, balance, wallet>>

\* GatewayWallet.initiateWithdrawal restarts the delay of all that is pending.
gatewayInitiateWithdrawal(c) ==
    /\ c.sel = "gatewayInitiateWithdrawal"
    /\ isTokenAllowed(c.token)
    /\ c.value \in 1 .. wallet[c.token].available
    /\ wallet' = [wallet EXCEPT ![c.token] =
          [available |-> @.available - c.value,
           withdrawing |-> @.withdrawing + c.value,
           readyAt |-> now + WITHDRAWAL_DELAY]]
    /\ UNCHANGED <<ownerVars, recipientVars, policy, paused, adminTimelock,
                   adminEpoch, balance>>

\* GatewayWallet.withdraw pays out all that is pending.
gatewayWithdraw(c) ==
    /\ c.sel = "gatewayWithdraw"
    /\ isTokenAllowed(c.token)
    /\ wallet[c.token].withdrawing > 0
    /\ now >= wallet[c.token].readyAt
    /\ wallet' = [wallet EXCEPT ![c.token].withdrawing = 0]
    /\ balance' = [balance EXCEPT ![c.token] = @ + wallet[c.token].withdrawing]
    /\ UNCHANGED <<ownerVars, recipientVars, policy, paused, adminTimelock,
                   adminEpoch>>

\* A payee of transferToRecipient.  Mutant: the allowlist is not consulted.
isPayee_anyone(r) == isCanonicalAddress(r) /\ truncate(r) # 0

isPayee(r) ==
    /\ r \in allowedRecipients
    /\ isCanonicalAddress(r)
    /\ truncate(r) # 0

transferToRecipient(c) ==
    /\ c.sel = "transferToRecipient"
    /\ isPayee(c.recipient)
    /\ c.amount <= balance[c.token]
    /\ balance' = [balance EXCEPT ![c.token] =
                      IF truncate(c.recipient) = Self THEN @ ELSE @ - c.amount]
    /\ UNCHANGED <<ownerVars, recipientVars, policy, paused, adminTimelock,
                   adminEpoch, wallet>>

SelfCall(c) ==
    \/ setOwners(c)
    \/ setAllowedRecipient(c)
    \/ setPolicy(c)
    \/ setPaused(c)
    \/ setAdminTimelock(c)
    \/ gatewayInitiateWithdrawal(c)
    \/ gatewayWithdraw(c)
    \/ transferToRecipient(c)

-----------------------------------------------------------------------------
\* A queued op that executeAdmin would still consider, now or later.
Live(n) ==
    /\ adminOps[n].call # NoCall
    /\ ~adminOps[n].executed
    /\ ~adminOps[n].cancelled
    /\ adminOps[n].epoch = adminEpoch
    /\ now <= adminOps[n].eta + ADMIN_OP_GRACE

\* Mutant: the timelock is not awaited.
timelockExpired_ignored(n) == TRUE

timelockExpired(n) == now >= adminOps[n].eta

\* The self-call reverts the whole transaction when it fails, so a failing op
\* stays as it was.  A call outside the selector list has no SelfCall.
executeAdmin(n) ==
    /\ Live(n)
    /\ timelockExpired(n)
    /\ adminOps' = [adminOps EXCEPT ![n].executed = TRUE]
    /\ SelfCall(adminOps[n].call)
    /\ UNCHANGED <<now, revokedIntents, usedNonces, approval, income,
                   signatures>>

Next ==
    \/ Tick
    \/ \E t \in Token : ReceiveTokens(t) \/ sweepToGateway(t)
    \/ \E m \in Signable, S \in Coalition : Sign(m, S)
    \/ \E n \in Nonce :
          \/ executeAdmin(n)
          \/ \E S \in SUBSET SignersOf(CancelMsg(n)) : cancelAdmin(n, S)
          \/ \E S \in SUBSET SignersOf(PauseMsg(n)) : pause(n, S)
          \/ \E c \in Call, d \in Deadline :
             \E S \in SUBSET SignersOf(AdminOpMsg(c, n, d, adminEpoch)) :
                queueAdmin(c, n, d, S)
    \/ \E i \in Intent :
       \E S \in SUBSET SignersOf(RevokeMsg(i)) : revokeIntent(i, S)

Spec == Init /\ [][Next]_vars

-----------------------------------------------------------------------------
(* Correctness.                                                            *)

\* Type invariant of the treasury's storage and of the world around it.
TypeOK ==
    /\ now \in Nat
    /\ owners \in Seq(Address)
    /\ weights \in [Address -> Nat]
    /\ thresholdWeight \in Nat
    /\ allowedRecipients \subseteq Word
    /\ recipientCount \in Nat
    /\ policy \in Policy
    /\ paused \in BOOLEAN
    /\ revokedIntents \subseteq Intent
    /\ adminTimelock \in Nat
    /\ adminEpoch \in Nat
    /\ adminOps \in [Nonce -> AdminOp]
    /\ usedNonces \subseteq Nonce
    /\ balance \in [Address -> Nat]
    /\ wallet \in [Address -> WalletAccount]
    /\ income \in Nat
    /\ \A s \in signatures : s.by \subseteq Address /\ s.epoch \in Nat
    /\ approval \in [Nonce -> [at : Nat, by : SUBSET Address]]

TotalWeight == SumFunction([i \in 1 .. Len(owners) |-> weights[owners[i]]])

\* The owners can always act, and nobody else can: through any sequence of
\* setOwners calls a weight is left exactly on the listed owners, none of them
\* is address(0) or the treasury, and all of them together reach the threshold.
QuorumReachable ==
    /\ \A o \in Address : weights[o] # 0 <=> o \in Range(owners)
    /\ \A i, j \in 1 .. Len(owners) : owners[i] = owners[j] => i = j
    /\ Range(owners) \cap {0, Self} = {}
    /\ thresholdWeight \in 1 .. TotalWeight

\* _recipientCount counts the allowlist, which never becomes empty: of two
\* removals that were each legal when queued, the second is refused.
AllowlistNeverEmpty ==
    /\ recipientCount = Cardinality(allowedRecipients)
    /\ recipientCount >= 1

\* No configuration inherits the authority of another: an op that can still
\* execute was signed by people who are a quorum of today's owners, and waits
\* for the timelock of today (the epoch check of executeAdmin).
NoInheritedAuthority ==
    \A n \in Nonce : Live(n) =>
        /\ checkWeightedSigs(weights, thresholdWeight, approval[n].by)
        /\ adminOps[n].eta = approval[n].at + adminTimelock

Executes(n) == adminOps'[n].executed /\ ~adminOps[n].executed

Funds(t) == balance[t] + wallet[t].available + wallet[t].withdrawing

\* What only an admin op may do.
Slow ==
    \/ ownerVars' # ownerVars
    \/ policy' # policy
    \/ allowedRecipients' # allowedRecipients
    \/ adminTimelock' # adminTimelock
    \/ paused /\ ~paused'
    \/ \E t \in Address : Funds(t)' < Funds(t)
    \/ \E t \in Address : wallet'[t].available < wallet[t].available

\* Starting is slow: owners, policy, allowlist and timelock change, the
\* treasury is unpaused, and funds leave it or move out of Gateway's available
\* balance, only in the execution of an op queued at least the timelock in
\* force ago, and at most the grace period longer.
TimelockRespected ==
    [][ Slow => \E n \in Nonce :
           /\ Executes(n)
           /\ now - approval[n].at
                 \in adminTimelock .. (adminTimelock + ADMIN_OP_GRACE)
      ]_vars

\* Op n pays tokens t to an account that is on the allowlist at this moment
\* and is EVM-shaped, by the amount a quorum of today's owners signed for.
Pays(n, t) ==
    LET c == adminOps[n].call IN
    /\ Executes(n)
    /\ c.sel = "transferToRecipient" /\ c.token = t
    /\ c.recipient \in allowedRecipients
    /\ toBytes32(truncate(c.recipient)) = c.recipient
    /\ Funds(t)' = Funds(t) - c.amount
    /\ checkWeightedSigs(weights, thresholdWeight, approval[n].by)

\* Money leaves the treasury only as a payment to a payee of the allowlist,
\* even when the payee was removed after the payment was queued.
FundsLeaveToRecipients ==
    [][ \A t \in Address :
           Funds(t)' < Funds(t) => \E n \in Nonce : Pays(n, t) ]_vars

\* The lifecycle of a nonce: what the admin queue promises.
opStatus(n) ==
    IF adminOps[n].executed THEN "done"
    ELSE IF Live(n) THEN "pending"
    ELSE IF n \in usedNonces THEN "dead" ELSE "free"

Timelock == INSTANCE AdminTimelock
    WITH Grace <- ADMIN_OP_GRACE, clock <- now, delay <- adminTimelock,
         status <- [n \in Nonce |-> opStatus(n)],
         opensAt <- [n \in Nonce |-> adminOps[n].eta]

\* The queue implements AdminTimelock: approve once, wait, enact within the
\* window, done or dead for ever; any epoch change kills all that is pending.
QueueIsATimelock == Timelock!Spec

\* The signers of m in the current epoch.
FreshSignersOf(m) ==
    UNION {s.by : s \in {t \in signatures :
                            t.msg = m /\ t.epoch = adminEpoch}}

\* "Admin signatures and queued ops carry the epoch they were made under and
\* are dead in any other": whatever spends a nonce or cancels an op is backed
\* by a quorum of signatures made in the current epoch.
AdminSignaturesDieWithEpoch ==
    [][ \A n \in Nonce :
           \/ n \in usedNonces' \ usedNonces
           \/ adminOps'[n].cancelled /\ ~adminOps[n].cancelled
           => \E m \in {CancelMsg(n), PauseMsg(n)} \cup
                       {AdminOpMsg(c, n, d, adminEpoch) :
                           c \in Call, d \in Deadline} :
              \E S \in SUBSET FreshSignersOf(m) :
                 checkWeightedSigs(weights, thresholdWeight, S)
      ]_vars
=============================================================================
