----------------------------- MODULE MCContracts -----------------------------
(***************************************************************************)
(* Small instances of four components that share no state: the session key *)
(* plugin, the intent guard with the recipient hook, the conduits with the *)
(* Earn module, and the subgraph.  A behaviour is one of one of them; the  *)
(* others stay in an initial state.                                        *)
(***************************************************************************)
EXTENDS GatewayIntentPolicy, FiniteSets, Sequences, TLC

CONSTANTS None,
          x1, x2,     \* session keys, treasuries, wallets
          y1, y2,     \* vaults, agents
          j1, r1      \* a job, a rating

VARIABLES
    component,
    installed, sessionKeys, idOf, keyIdCounter, data, bundle, executing, now, asset,
    ownerOps, paidAt, gasAt, retired,                         \* SessionKeys
    limits, epoch, store, bookInstalled, book, bound, guardBundle, guardExecuting,
    guardChanges, granted, bookThen,                          \* AccountGuards
    bal, price, conduitNow, targets, vaults, routes, gate, signed, used, redeems,
    allowance, configs, adopted, conduitChanges, mistakes, owed,   \* TreasuryConduits
    agent, binding, job, engagement, feedback, commerce, registry, events,
    graphChanges, claim                                       \* WorkspaceGraph

keysVars == <<installed, sessionKeys, idOf, keyIdCounter, data, bundle, executing, now,
              asset, ownerOps, paidAt, gasAt, retired>>
guardsVars == <<limits, epoch, store, bookInstalled, book, bound, guardBundle,
                guardExecuting, guardChanges, granted, bookThen>>
conduitsVars == <<bal, price, conduitNow, targets, vaults, routes, gate, signed, used,
                  redeems, allowance, configs, adopted, conduitChanges, mistakes, owed>>
graphVars == <<agent, binding, job, engagement, feedback, commerce, registry, events,
               graphChanges, claim>>

-----------------------------------------------------------------------------
(* What the guard is installed with, edited to and asked.  Addresses: payee *)
(* 4, a stranger 6, token 7, the GatewayWallet 8, the account 9.           *)

Alice == toBytes32(4)
SolanaKey == [upper |-> 1, addr |-> 4]
USDC == toBytes32(7)
SolanaUSDC == [upper |-> 1, addr |-> 7]

Install == [perIntentCap |-> 1, maxFeeCap |-> 0, maxExpiryBlocks |-> 1,
            addressBook |-> FALSE, recipients |-> <<Alice, Alice>>, domains |-> {5, 26},
            minters |-> [d \in {5, 26} |-> toBytes32(8)], tokens |-> {7},
            destTokens |-> {USDC, SolanaUSDC}, callers |-> {}]

\* With the address book; with neither it nor a recipient, which is refused.
MCInits == {Install, [Install EXCEPT !.addressBook = TRUE, !.recipients = <<>>,
                                     !.callers = {Alice}],
            [Install EXCEPT !.recipients = <<>>]}

MCEdits == [set : {"recipient"}, word : {Alice, SolanaKey}, allowed : BOOLEAN]
           \cup [set : {"domain"}, word : {5}, allowed : BOOLEAN]
           \cup [set : {"token"}, word : {7}, allowed : {FALSE}]
           \cup [set : {"destToken"}, word : {USDC}, allowed : {FALSE}]
           \cup [set : {"caller"}, word : {Alice}, allowed : {TRUE}]
           \cup {[set |-> "minter", word |-> 26, minter |-> ZeroWord],
                 [set |-> "limits", cap |-> 2, fee |-> 1, blocks |-> 1],
                 [set |-> "limits", cap |-> 1, fee |-> 0, blocks |-> 0]}

ToAlice ==
    [maxBlockHeight |-> 1, maxFee |-> 0,
     spec |-> [version |-> 1, sourceDomain |-> 26, destinationDomain |-> 26,
               sourceContract |-> toBytes32(8), destinationContract |-> toBytes32(8),
               sourceToken |-> USDC, destinationToken |-> USDC,
               sourceDepositor |-> toBytes32(9), destinationRecipient |-> Alice,
               sourceSigner |-> toBytes32(9), destinationCaller |-> ZeroWord,
               value |-> 1, salt |-> 1, hookData |-> FALSE]]

ToSolana == [ToAlice EXCEPT !.spec.destinationDomain = 5,
                            !.spec.destinationRecipient = SolanaKey,
                            !.spec.destinationToken = SolanaUSDC]

MCIntents == {ToAlice, [ToAlice EXCEPT !.spec.destinationCaller = Alice], ToSolana,
              [ToSolana EXCEPT !.spec.destinationRecipient = Alice]}

\* Native value, a token transfer, a plain contract call.
MCAgentCalls == {[target |-> 4, value |-> TRUE, recipient |-> 0],
                 [target |-> 7, value |-> FALSE, recipient |-> 4],
                 [target |-> 7, value |-> FALSE, recipient |-> 6],
                 [target |-> 7, value |-> FALSE, recipient |-> 0]}

-----------------------------------------------------------------------------
(* The components *)

Keys == INSTANCE SessionKeys WITH
    Keys <- {x1, x2}, MaxIds <- 2, Limit <- 1, GasLimit <- 2, Interval <- 2,
    Amounts <- {1}, MaxBundle <- 2, MaxTime <- 3, MaxOwnerOps <- 3, Watched <- 1

ASSUME Keys!KeysAssumption

Guards == INSTANCE AccountGuards WITH
    Inits <- MCInits, Edits <- MCEdits, Payees <- {4, 7}, AgentCalls <- MCAgentCalls,
    Intents <- MCIntents, Code <- {7, 8}, Account <- 9, GatewayWallet <- 8,
    LocalDomain <- 26, MaxInstalls <- 2, MaxChanges <- 4, MaxBundle <- 2,
    bundle <- guardBundle, executing <- guardExecuting, changes <- guardChanges

ASSUME Guards!GuardsAssumption

Conduits == INSTANCE TreasuryConduits WITH
    Treasuries <- {x1, x2}, Vaults <- {y1, y2}, Amounts <- {2}, Funds <- 2,
    ValidFor <- 1, MaxTime <- 1, MaxChanges <- 3, MaxSigned <- 1,
    now <- conduitNow, changes <- conduitChanges

ASSUME Conduits!ConduitsAssumption

Graph == INSTANCE WorkspaceGraph WITH
    Agents <- {y1, y2}, Wallets <- {x1, x2}, Jobs <- {j1}, Ratings <- {r1},
    MaxChanges <- 3, changes <- graphChanges

Init ==
    /\ component \in {"keys", "guards", "conduits", "graph"}
    /\ Keys!Init /\ Guards!Init /\ Conduits!Init /\ Graph!Init
    /\ component # "keys" => asset = "native"

Next ==
    /\ UNCHANGED component
    /\ \/ /\ component = "keys" /\ Keys!Next
          /\ UNCHANGED <<guardsVars, conduitsVars, graphVars>>
       \/ /\ component = "guards" /\ Guards!Next
          /\ UNCHANGED <<keysVars, conduitsVars, graphVars>>
       \/ /\ component = "conduits" /\ Conduits!Next
          /\ UNCHANGED <<keysVars, guardsVars, graphVars>>
       \/ /\ component = "graph" /\ Graph!Next
          /\ UNCHANGED <<keysVars, guardsVars, conduitsVars>>

Spec == Init /\ [][Next]_<<component, keysVars, guardsVars, conduitsVars, graphVars>>

\* No component orders or computes with these, and a permutation acts on all
\* components at once: those that stay initial do not tell them apart.
Symmetry == Permutations({x1, x2}) \cup Permutations({y1, y2})

-----------------------------------------------------------------------------
(* The properties of the four *)

\* Storage, store and world keep their types.
TypesOK ==
    CASE component = "keys" -> Keys!TypeOK
      [] component = "guards" -> Guards!TypeOK
      [] component = "conduits" -> Conduits!TypeOK
      [] component = "graph" -> Graph!TypeOK

\* A session key pays at most twice its spend limit, and is charged at most
\* twice its gas limit, in the time of one refresh interval.
RatesAreBounded == component = "keys" => Keys!RatesAreBounded

\* Key ids are never shared and never serve again.
IdsAreNotReused == component = "keys" => Keys!IdsAreNotReused

\* The guard's lists are what its owners made of them since the last install:
\* its recipients are counted exactly, and it admits only what was switched on.
GuardListsAreTheOwners ==
    component = "guards" => Guards!GuardListsAreTheOwners

\* A session payment reaches only addresses in the book when its bundle began.
SessionPaymentsFollowTheBook == Guards!SessionPaymentsFollowTheBook

\* No treasury ends below what its quorum signed for.
TreasuriesGetTheirFloor == component = "conduits" => Conduits!TreasuriesGetTheirFloor

\* Tokens end up only where the owners agreed: executions leave nothing in the
\* contracts they pass through, and positions open only in chosen vaults.
TokensGoWhereAgreed == Conduits!TokensGoWhereAgreed

\* The evidence of a verified rating is a settled job between the two, and
\* settled is completed and paid, in whichever order the logs come.
RatingsRestOnPaidJobs ==
    component = "graph" => Graph!SettledMeansPaid /\ Graph!EvidenceIsASettledJob

\* The published counts count the jobs, and the ratings that stand.
CountersAgree ==
    component = "graph" => Graph!JobCountersAgree /\ Graph!RatingCountersAgree

\* A wallet is bound to the workspace that set it last and still has it.
BindingsAreCurrent == component = "graph" => Graph!BindingsAreCurrent
=============================================================================
