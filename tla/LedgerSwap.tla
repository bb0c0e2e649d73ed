----------------------------- MODULE LedgerSwap -----------------------------
(***************************************************************************)
(* The Ledger signer of one reviewed swap (createLedgerSwapSigner), and    *)
(* the one-shot Ledger flows that share its device management kit.         *)
(*                                                                         *)
(* An action is what runs between two awaits.  Every awaited call may also *)
(* reject, which ends the operation (Rejects); a check that fails after an *)
(* await leaves Rejects as the only step.  Operations refused before their *)
(* first await change nothing and are not steps.                           *)
(***************************************************************************)
EXTENDS Naturals, FiniteSets

CONSTANT Call          \* concurrent calls of the signer's methods

\* A one-shot flow's device session is named by its call, the swap's "swap".
CallAssumption == "swap" \notin Call

\* steps = 0 is an order to sign; otherwise 1 (swap) or 2 (approval, swap)
\* unsigned transactions.  Steps count from 1; 0 stands for -1 and null.
VARIABLES steps, connection, busy, closed, nextStep, attempted,
          orderAttempted, pending,                \* the closure
          op, pc,                                 \* its running calls
          dmk, sessions,                          \* the Ledger SDK
          session, quote, network,                \* login, quote, RPC chain
          raw, mined, told, asked, handedOver     \* what left the signer

signer == <<steps, connection, busy, closed, nextStep, attempted,
            orderAttempted, pending>>
world == <<session, quote, network>>
trace == <<raw, mined, told, asked, handedOver>>
vars == <<signer, op, pc, dmk, sessions, world, trace>>

Step == 1..2
Op == {"send", "order", "resume", "once", "close"}
\* The await an operation is suspended at.
Await == {"idle", "owner", "chain", "connect", "otherAccount", "prepare",
          "sign", "ownerAgain", "chainAgain", "submit", "receipt",
          "closing", "onceConnect", "onceSign"}

Init ==
    /\ steps \in 0..2
    /\ connection = "none" /\ busy = FALSE /\ closed = FALSE
    /\ nextStep = 1 /\ attempted = 0 /\ orderAttempted = FALSE /\ pending = 0
    /\ op = [c \in Call |-> "close"] /\ pc = [c \in Call |-> "idle"]
    /\ dmk = "unloaded" /\ sessions = {}
    /\ session = "owner" /\ quote = "live" /\ network = "testnet"
    /\ raw = [s \in Step |-> 0] /\ mined = [s \in Step |-> "no"]
    /\ told = [s \in Step |-> "no"] /\ asked = [s \in 0..2 |-> 0]
    /\ handedOver = 0

Goto(c, label) == pc' = [pc EXCEPT ![c] = label]
Start(c, o, label) == op' = [op EXCEPT ![c] = o] /\ Goto(c, label)
\* `finally { busy = false }`.
Returns(c) == busy' = FALSE /\ Goto(c, "idle")

\* assertReview and the closed flag, read together after an await.
reviewStands_open == quote = "live"
reviewStands == quote = "live" /\ ~closed

-----------------------------------------------------------------------------
\* The part of a call before its first await.
unattempted == pending = 0 /\ attempted # nextStep

mayEnter_anytime == reviewStands
mayEnter == reviewStands /\ ~busy

sendTransaction(c) ==
    /\ pc[c] = "idle" /\ nextStep <= steps
    /\ unattempted /\ mayEnter
    /\ busy' = TRUE /\ Start(c, "send", "owner")
    /\ UNCHANGED <<steps, connection, closed, nextStep, attempted,
                   orderAttempted, pending, dmk, sessions, world, trace>>

signTypedData(c) ==
    /\ pc[c] = "idle" /\ steps = 0 /\ ~orderAttempted /\ mayEnter
    /\ busy' = TRUE /\ Start(c, "order", "owner")
    /\ UNCHANGED <<steps, connection, closed, nextStep, attempted,
                   orderAttempted, pending, dmk, sessions, world, trace>>

resumeTransaction(c) ==
    /\ pc[c] = "idle" /\ ~busy /\ pending # 0
    /\ busy' = TRUE /\ Start(c, "resume", "owner")
    /\ UNCHANGED <<steps, connection, closed, nextStep, attempted,
                   orderAttempted, pending, dmk, sessions, world, trace>>

close(c) ==
    /\ pc[c] = "idle" /\ closed' = TRUE
    /\ Start(c, "close", IF connection = "none" THEN "idle" ELSE "closing")
    /\ UNCHANGED <<steps, connection, busy, nextStep, attempted,
                   orderAttempted, pending, dmk, sessions, world, trace>>

closeEnds(c) ==
    /\ pc[c] = "closing" /\ Goto(c, "idle")
    /\ connection' = "none" /\ sessions' = sessions \ {"swap"}
    /\ UNCHANGED <<steps, busy, closed, nextStep, attempted, orderAttempted,
                   pending, op, dmk, world, trace>>

-----------------------------------------------------------------------------
assertOwner(c) ==
    /\ session = "owner"
    /\ \/ pc[c] = "owner" /\ Goto(c, "chain")
          /\ UNCHANGED <<busy, handedOver>>
       \/ pc[c] = "ownerAgain" /\ op[c] = "send" /\ Goto(c, "chainAgain")
          /\ UNCHANGED <<busy, handedOver>>
       \/ pc[c] = "ownerAgain" /\ op[c] = "order" /\ reviewStands
          /\ handedOver' = handedOver + 1 /\ Returns(c)
    /\ UNCHANGED <<steps, connection, closed, nextStep, attempted,
                   orderAttempted, pending, op, dmk, sessions, world, raw,
                   mined, told, asked>>

\* Past the chain check: resume waits for the receipt, the others take the
\* device, which is connected unless it already is.
entered(c) ==
    /\ pc[c] = "chain" /\ network = "testnet"
    /\ \/ op[c] = "resume" /\ Goto(c, "receipt")
          /\ UNCHANGED <<attempted, orderAttempted>>
       \/ /\ op[c] \in {"send", "order"} /\ reviewStands
          /\ IF op[c] = "send"
             THEN attempted' = nextStep /\ UNCHANGED orderAttempted
             ELSE orderAttempted' = TRUE /\ UNCHANGED attempted
          /\ Goto(c, IF connection = "none" THEN "connect"
                     ELSE IF op[c] = "send" THEN "prepare" ELSE "sign")
    /\ UNCHANGED <<steps, connection, busy, closed, nextStep, pending, op,
                   dmk, sessions, world, trace>>

\* getDmk keeps its promise, a rejected one too.
getDmkFails(c) ==
    /\ pc[c] \in {"connect", "onceConnect"} /\ dmk = "unloaded"
    /\ dmk' = "failed"
    /\ IF pc[c] = "connect" THEN Returns(c)
       ELSE Goto(c, "idle") /\ UNCHANGED busy
    /\ UNCHANGED <<steps, connection, closed, nextStep, attempted,
                   orderAttempted, pending, op, sessions, world, trace>>

connectLedger(c) ==
    /\ pc[c] = "connect" /\ dmk # "failed" /\ dmk' = "ready"
    /\ connection' \in {"owner", "other"}
    /\ sessions' = sessions \cup {"swap"}
    /\ Goto(c, IF connection' = "other" THEN "otherAccount"
               ELSE IF op[c] = "send" THEN "prepare" ELSE "sign")
    /\ UNCHANGED <<steps, busy, closed, nextStep, attempted, orderAttempted,
                   pending, op, world, trace>>

dropsOther_kept == UNCHANGED sessions /\ connection' = "none"
dropsOther == sessions' = sessions \ {"swap"} /\ connection' = "none"

refusesAccount(c) ==
    /\ pc[c] = "otherAccount" /\ dropsOther /\ Returns(c)
    /\ UNCHANGED <<steps, closed, nextStep, attempted, orderAttempted,
                   pending, op, dmk, world, trace>>

prepareTransactionRequest(c) ==
    /\ pc[c] = "prepare" /\ Goto(c, "sign")
    /\ UNCHANGED <<signer, op, dmk, sessions, world, trace>>

\* The device shows the request; its signature, when it comes, is recovered
\* to the owner and the review still stands.
signs(c) ==
    /\ pc[c] = "sign" /\ reviewStands /\ Goto(c, "ownerAgain")
    /\ LET s == IF op[c] = "send" THEN nextStep ELSE 0
       IN asked' = [asked EXCEPT ![s] = @ + 1]
    /\ UNCHANGED <<signer, op, dmk, sessions, world, raw, mined, told,
                   handedOver>>

remember_afterAnswer == UNCHANGED pending
remember == pending' = nextStep

\* The hash is kept before the raw transaction leaves.
sendRawTransaction(c) ==
    /\ pc[c] = "chainAgain" /\ network = "testnet" /\ reviewStands
    /\ remember /\ raw' = [raw EXCEPT ![nextStep] = @ + 1]
    /\ Goto(c, "submit")
    /\ UNCHANGED <<steps, connection, busy, closed, nextStep, attempted,
                   orderAttempted, op, dmk, sessions, world, mined, told,
                   asked, handedOver>>

submitted(c) ==
    /\ pc[c] = "submit" /\ Goto(c, "receipt")
    /\ UNCHANGED <<signer, op, dmk, sessions, world, trace>>

confirmPending(c) ==
    /\ pc[c] = "receipt" /\ pending # 0 /\ mined[pending] # "no"
    /\ pending' = 0 /\ told' = [told EXCEPT ![pending] = mined[pending]]
    /\ nextStep' = IF mined[pending] = "success" THEN pending + 1
                   ELSE nextStep
    /\ Returns(c)
    /\ UNCHANGED <<steps, connection, closed, attempted, orderAttempted, op,
                   dmk, sessions, world, raw, mined, asked, handedOver>>

releases_notInEnter(c) == busy' = (pc[c] \in {"owner", "chain"})
releases(c) == busy' = FALSE

\* An awaited call rejects, the user declines on the device, a wait times out
\* or a check made after it fails.  A device already asked has been asked.
Rejects(c) ==
    /\ pc[c] \in Await \ {"idle", "otherAccount", "closing", "onceConnect",
                          "onceSign"}
    /\ releases(c) /\ Goto(c, "idle")
    /\ asked' = IF pc[c] = "sign"
                THEN [asked EXCEPT ![IF op[c] = "send" THEN nextStep ELSE 0]
                                     = @ + 1]
                ELSE asked
    /\ UNCHANGED <<steps, connection, closed, nextStep, attempted,
                   orderAttempted, pending, op, dmk, sessions, world, raw,
                   mined, told, handedOver>>

-----------------------------------------------------------------------------
\* registerLedger and signLedgerAuthorizationTarget: connect, check the
\* account, sign, and close in `finally`.
oneShot(c) ==
    /\ pc[c] = "idle" /\ Start(c, "once", "onceConnect")
    /\ UNCHANGED <<signer, dmk, sessions, world, trace>>

oneShotConnects(c) ==
    /\ pc[c] = "onceConnect"
    /\ \/ dmk # "failed" /\ dmk' = "ready"
          /\ sessions' = sessions \cup {c} /\ Goto(c, "onceSign")
       \/ Goto(c, "idle") /\ UNCHANGED <<dmk, sessions>>
    /\ UNCHANGED <<signer, op, world, trace>>

oneShotEnds(c) ==
    /\ pc[c] = "onceSign" /\ Goto(c, "idle") /\ sessions' = sessions \ {c}
    /\ UNCHANGED <<signer, op, dmk, world, trace>>

-----------------------------------------------------------------------------
\* Another login or the owner's again; the quote's deadline; the RPC answers
\* for another chain; a raw transaction that reached the chain is mined.
World ==
    /\ \/ session' \in {"owner", "other"} \ {session}
          /\ UNCHANGED <<quote, network, mined>>
       \/ quote = "live" /\ quote' = "expired"
          /\ UNCHANGED <<session, network, mined>>
       \/ network' \in {"testnet", "wrong"} \ {network}
          /\ UNCHANGED <<session, quote, mined>>
       \/ /\ \E s \in Step : /\ raw[s] > 0 /\ mined[s] = "no"
                             /\ \E r \in {"success", "reverted"} :
                                   mined' = [mined EXCEPT ![s] = r]
          /\ UNCHANGED world
    /\ UNCHANGED <<signer, op, pc, dmk, sessions, raw, told, asked,
                   handedOver>>

Continues(c) ==
    \/ closeEnds(c) \/ assertOwner(c) \/ entered(c) \/ getDmkFails(c)
    \/ connectLedger(c) \/ refusesAccount(c) \/ prepareTransactionRequest(c)
    \/ signs(c) \/ sendRawTransaction(c) \/ submitted(c) \/ confirmPending(c)
    \/ Rejects(c) \/ oneShotConnects(c) \/ oneShotEnds(c)

Calls(c) == sendTransaction(c) \/ signTypedData(c) \/ resumeTransaction(c)
            \/ close(c) \/ oneShot(c)

Next == World \/ \E c \in Call : Calls(c) \/ Continues(c)

\* The awaits a person at the device holds; runDeviceAction sets no timeout.
AtDevice == {"connect", "sign", "onceConnect", "onceSign"}

\* Every other await ends, one way or the other.
Proceeds(c) == pc[c] \notin AtDevice /\ Continues(c)
Fairness == \A c \in Call : WF_vars(Proceeds(c))
Spec == Init /\ [][Next]_vars /\ Fairness

-----------------------------------------------------------------------------
Types ==
    /\ steps \in 0..2 /\ connection \in {"none", "owner", "other"}
    /\ busy \in BOOLEAN /\ closed \in BOOLEAN /\ orderAttempted \in BOOLEAN
    /\ nextStep \in 1..3 /\ attempted \in 0..2 /\ pending \in 0..2
    /\ op \in [Call -> Op] /\ pc \in [Call -> Await]
    /\ dmk \in {"unloaded", "ready", "failed"}
    /\ sessions \subseteq Call \cup {"swap"}
    /\ told \in [Step -> {"no", "success", "reverted"}]
    /\ mined \in [Step -> {"no", "success", "reverted"}]

\* Type invariant.  The closure's flags, its running calls and the Ledger SDK's
\* sessions; one operation at a time holds the signer, and it holds busy.
TypeOK ==
    /\ Types
    /\ \A c \in Call : pc[c] # "idle" /\ op[c] \in {"send", "order", "resume"}
          => busy /\ \A d \in Call \ {c} :
                        pc[d] = "idle" \/ op[d] \in {"close", "once"}

\* "Device authority is limited to one reviewed testnet swap": the device is
\* asked for a step or the order at most once, whatever fails and is tried
\* again; a raw transaction goes out at most once, and the swap only after its
\* approval succeeded on chain.
StepsGoOutOnceInOrder ==
    /\ \A s \in 0..2 : asked[s] <= 1
    /\ \A s \in Step : raw[s] <= 1
    /\ raw[2] > 0 => mined[1] = "success"
    /\ handedOver <= 1 /\ (handedOver = 1 => \A s \in Step : raw[s] = 0)

\* A transaction that may have reached the chain and whose outcome was not
\* reported stays in `pending`, where resumeTransaction finds it: not even a
\* lost answer, a timed-out wait or close() loses it.
BroadcastIsNeverForgotten ==
    \A s \in Step : raw[s] > 0 /\ told[s] = "no" => pending = s

\* Each reviewed step is asked of the device once and goes out once, and one
\* that may be on chain can be resumed until its outcome is reported.
BroadcastsAreAccountedFor == StepsGoOutOnceInOrder /\ BroadcastIsNeverForgotten

\* Nothing leaves a signer that was closed or whose quote expired, even when
\* the device signed before (the tests of lines 509 and 579 try one instant).
OnlyALiveReviewLeaves ==
    [][raw' # raw \/ handedOver' # handedOver
       => ~closed /\ quote = "live"]_vars

\* No device session is out of reach: the swap's is the one `connection`
\* holds, a one-shot flow's ends with its flow, and no request is prepared
\* for an account that is not the owner's.
SessionsAreReachable ==
    /\ "swap" \in sessions => connection # "none"
    /\ \A c \in sessions \cap Call : pc[c] = "onceSign"
    /\ \A c \in Call : pc[c] \in {"prepare", "sign"} => connection # "other"

\* The signer stays busy only while one of its own operations is with the
\* person at the device: every way out of an operation releases it, after a
\* signature as well as before.
SignerIsReleased ==
    busy ~> (~busy \/ \E c \in Call : pc[c] \in {"connect", "sign"})
=============================================================================
