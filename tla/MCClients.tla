------------------------------ MODULE MCClients ------------------------------
(***************************************************************************)
(* Small instances of three components that share no state: the Ledger     *)
(* signer, the mock Circle server with the wallets' flows against it, and  *)
(* the deployment it runs on.  A behaviour is one of one of them; the      *)
(* others stay in an initial state.                                        *)
(***************************************************************************)
EXTENDS Integers, Sequences, FiniteSets, TLC

VARIABLES
    component,
    steps, connection, busy, closed, nextStep, attempted, orderAttempted, pending, op, pc,
    dmk, sessions, session, quote, network, raw, mined, told, asked,
    handedOver,                                               \* LedgerSwap
    wallets, nextId, addressMappings, userOps, sendQueue, req, client, nonce, minedOps,
    owners, serverFaults,                                     \* CircleSandbox
    built, lock, procs, step, crashes, runs, installed, allowed, usdc, deposit, info,
    sent, file                                                \* SandboxStack

ledgerVars == <<steps, connection, busy, closed, nextStep, attempted, orderAttempted,
                pending, op, pc, dmk, sessions, session, quote, network, raw, mined, told,
                asked, handedOver>>
circleVars == <<wallets, nextId, addressMappings, userOps, sendQueue, req, client, nonce,
                minedOps, owners, serverFaults>>
stackVars == <<built, lock, procs, step, crashes, runs, installed, allowed, usdc, deposit,
               info, sent, file>>

Calls == {"c1", "c2"}
Requests == {1, 2, 3}

Ledger == INSTANCE LedgerSwap WITH Call <- Calls

ASSUME Ledger!CallAssumption

Circle == INSTANCE CircleSandbox WITH
    Client <- {"payer", "recovering"}, Recovering <- {"recovering"}, Req <- Requests,
    MaxNonce <- 2, MaxFaults <- 1, mined <- minedOps, faults <- serverFaults

Stack == INSTANCE SandboxStack WITH
    Proc <- {"dev", "test"}, Deployer <- "dev", DEPOSIT <- 2, MaxCrashes <- 2,
    MaxRuns <- 3, pc <- procs

Init ==
    /\ component \in {"ledger", "circle", "stack"}
    /\ Ledger!Init /\ Circle!Init /\ Stack!Init
    /\ component # "ledger" => steps = 0
    /\ component # "stack" => built = "none" /\ installed = {}

Next ==
    /\ UNCHANGED component
    /\ \/ /\ component = "ledger" /\ Ledger!Next
          /\ UNCHANGED <<circleVars, stackVars>>
       \/ /\ component = "circle" /\ Circle!Next
          /\ UNCHANGED <<ledgerVars, stackVars>>
       \/ /\ component = "stack" /\ Stack!Next
          /\ UNCHANGED <<ledgerVars, circleVars>>

\* The fairness of LedgerSwap and of CircleSandbox, for the one that runs.
Fairness ==
    /\ \A c \in Calls :
          WF_ledgerVars(component = "ledger" /\ Ledger!Proceeds(c))
    /\ \A r \in Requests :
          WF_circleVars(component = "circle" /\ Circle!Handles(r))

Spec == /\ Init /\ Fairness
        /\ [][Next]_<<component, ledgerVars, circleVars, stackVars>>

-----------------------------------------------------------------------------
(* The properties of the three *)

\* Closures, records, files and accounts keep their types.
TypesOK ==
    CASE component = "ledger" -> Ledger!TypeOK
      [] component = "circle" -> Circle!TypeOK
      [] component = "stack" -> Stack!TypeOK

\* Each reviewed step is asked of the device once and goes out once, and one
\* that may be on chain can be resumed until its outcome is reported.
BroadcastsAreAccountedFor ==
    component = "ledger" => Ledger!BroadcastsAreAccountedFor

\* Every open device session belongs to a flow that still holds it.
SessionsAreReachable == component = "ledger" => Ledger!SessionsAreReachable

\* Nothing leaves a signer that was closed or whose quote expired.
OnlyALiveReviewLeaves == Ledger!OnlyALiveReviewLeaves

\* The signer stays busy only while its device waits for a person.
SignerIsReleased == Ledger!SignerIsReleased

\* An owner finds the wallet: concurrent lookups are told the same one, and an
\* owner that recovery put on chain can be looked up.
OwnersFindTheWallet ==
    component = "circle" => Circle!WalletIdIsStable /\ Circle!OwnersAreMapped

\* What a dry run accepted is mined before another submission runs, and an
\* inclusion the server records or reports is on chain.
SubmissionsAreSerial ==
    component = "circle" => Circle!OneSubmissionAtATime /\ Circle!InclusionIsReal

\* Every request to the server is answered.
RequestsAreAnswered == Circle!RequestsAreAnswered

\* Wherever deployStack died, a written local.json names only what is deployed
\* and installable, and the next run finds what each of its steps needs.
StackSurvivesCrashes ==
    component = "stack" => Stack!FileDescribesTheStack /\ Stack!RunsResume

\* A run that comes to serve leaves paymaster and deployer funded.
RunsLeaveItFunded == Stack!RunsLeaveItFunded
=============================================================================
