---------------------------- MODULE SendPipeline ----------------------------
(***************************************************************************)
(* apps/ultimate-treasury/server/send.ts: the dev signer's send pipeline.  *)
(* A request reads policy, allowlist and balances, one await after the     *)
(* other, then starts a job; the job collects approvals, posts the burn    *)
(* intent to Gateway, saves the attestation and mints it.  An action is    *)
(* what the event loop runs between two awaits; every await may fail.  The *)
(* server may stop between any two actions, and restarts with what is on   *)
(* disk.  Gateway, the chains and the FROST signer are external.           *)
(*                                                                         *)
(* An intent has a random salt and belongs to one job, so the job's id     *)
(* names the intent and its attestation too.                               *)
(***************************************************************************)
EXTENDS Naturals, Sequences, FiniteSets, Functions

CONSTANTS
    Client, Owner, Recipient,
    JobId,              \* bound: the ids randomBytes yields
    Request,            \* the bodies clients may post
    Config,             \* the owner sets and limits the treasury may have
    SANDBOX_CAP, Fee,   \* the cap of the sandbox; feeEstimate by position
    MaxJobs,            \* 25: jobs kept for polling
    MaxRetries,         \* 36: resubmissions while the delegate is not indexed
    MaxTx,              \* bound: mint transactions sent
    MaxCrashes,         \* bound: restarts of the server
    MaxChanges,         \* bound: changes of the treasury and the FROST shares
    Funds               \* initial Gateway balance of both positions

VARIABLES
    onchain,        \* the treasury: [config, allowed]                (external)
    frost,          \* owners.json: the configuration of the last DKG (external)
    gateway,        \* Gateway: [balance, accepted]                   (external)
    txs, minted,    \* mint transactions; attestations minted         (external)
    disk,           \* ids of the readable files of ATTESTATION_DIR
    policyCache, jobs, job, pendingMints, running,   \* module state of send.ts
    work,           \* the coroutine of the running job
    client,         \* the startSend coroutines
    order,          \* ctx of each job: what it pays, and on what grounds
    recorded,       \* history: attestations that were once on disk
    crashes, changes

world == <<onchain, frost, changes>>
chain == <<txs, minted>>
vars == <<world, gateway, chain, disk, policyCache, jobs, job, pendingMints,
          running, work, client, order, recorded, crashes>>

Position == {"evm", "solana"}
None == 0
NoPolicy == [weights |-> [o \in Owner |-> 0], threshold |-> 0, cap |-> 0,
             allowlist |-> {}]
Idle == [pc |-> "idle", req |-> [recipient |-> None], pol |-> NoPolicy,
         allowlisted |-> FALSE, listed |-> FALSE,
         balances |-> [p \in Position |-> 0]]
NoWork == [pc |-> "idle", retries |-> 0, answer |-> "none", tx |-> 0]
StepKey == {"approvals", "attestation", "mint"}
Steps(a, t, m) == [s \in StepKey |-> IF s = "approvals" THEN a
                                     ELSE IF s = "attestation" THEN t ELSE m]
NoJob == [status |-> "none", resumable |-> FALSE,
          steps |-> Steps("pending", "pending", "pending")]
NoOrder == [recipient |-> None, value |-> 0, source |-> "evm", signers |-> {},
            allowlisted |-> FALSE, quorate |-> FALSE, expectRefusal |-> FALSE,
            listed |-> FALSE]

ASSUME SendAssumption ==
    /\ None \notin JobId \cup Recipient
    /\ Config \subseteq [weights : [Owner -> Nat], threshold : Nat, cap : Nat]
    /\ Request \subseteq [wellFormed : BOOLEAN, recipient : Recipient, value : Nat,
                          signers : SUBSET Owner, source : Position \cup {"auto"},
                          expectRefusal : BOOLEAN]
    /\ Fee \in [Position -> Nat] /\ Funds \in Nat
    /\ MaxJobs \in Nat \ {0} /\ MaxRetries \in Nat
    /\ MaxCrashes \in Nat /\ MaxChanges \in Nat

Weight(weights, S) == SumFunctionOnSet(weights, S)

-----------------------------------------------------------------------------
(* Validation of a request (pure).                                         *)

\* The position with the larger balance among those that cover value and fee;
\* the sort is stable, and evm comes first.
pickSource(balances, value, cap) ==
    LET can == {p \in Position : /\ p = "evm" => value <= cap
                                 /\ balances[p] >= value + Fee[p]}
    IN  IF can = {} THEN "none"
        ELSE IF "evm" \in can /\ \A p \in can : balances["evm"] >= balances[p]
             THEN "evm"
             ELSE CHOOSE p \in can : \A q \in can : balances[p] >= balances[q]

\* FROST's share map equals the weights and threshold of the policy.
frostAgrees(pol, shares) ==
    shares.threshold = pol.threshold /\ shares.weights = pol.weights

\* The source validateSend settles on, or "none" when it throws.
validateSend(req, pol, allowlisted, balances, shares) ==
    LET weight == Weight(pol.weights, req.signers)
        source == IF req.source = "auto"
                  THEN pickSource(balances, req.value, pol.cap)
                  ELSE IF balances[req.source] >= req.value + Fee[req.source]
                       THEN req.source ELSE "none"
    IN  IF /\ req.wellFormed
           /\ req.value > 0
           /\ req.signers # {}
           /\ \A o \in req.signers : pol.weights[o] # 0
           /\ req.value <= SANDBOX_CAP
           /\ req.value <= pol.cap
           /\ ~(req.expectRefusal /\ allowlisted /\ weight >= pol.threshold)
           /\ source = "solana" => frostAgrees(pol, shares)
        THEN source ELSE "none"

\* Mutant: the pending attestations are not consulted.
assertNoPendingMint_skipped(recipient, value) == TRUE

assertNoPendingMint(recipient, value) ==
    \A id \in pendingMints :
        ~(order[id].recipient = recipient /\ order[id].value = value)

-----------------------------------------------------------------------------
Init ==
    /\ onchain \in [config : Config, allowed : SUBSET Recipient]
    /\ frost = onchain.config
    /\ gateway = [balance |-> [p \in Position |-> Funds], accepted |-> {}]
    /\ txs = <<>> /\ minted = {}
    /\ disk = {}
    /\ policyCache = NoPolicy
    /\ jobs = <<>> /\ job = [id \in JobId |-> NoJob]
    /\ pendingMints = {}
    /\ running = None
    /\ work = NoWork
    /\ client = [c \in Client |-> Idle]
    /\ order = [id \in JobId |-> NoOrder]
    /\ recorded = {}
    /\ crashes = 0 /\ changes = 0

-----------------------------------------------------------------------------
(* The world: the treasury is administered, the DKG re-run, time passes.   *)

\* Owners, threshold and cap change, or the allowlist does.  For each request
\* in flight, `listed` records that its payee was listed at some moment.
ChangeTreasury(config, allowed) ==
    /\ changes < MaxChanges
    /\ changes' = changes + 1
    /\ onchain' = [config |-> config, allowed |-> allowed]
    /\ client' = [c \in Client |-> [client[c] EXCEPT
          !.listed = @ \/ client[c].req.recipient \in allowed]]
    /\ UNCHANGED <<frost, gateway, chain, disk, policyCache, jobs, job,
                   pendingMints, running, work, order, recorded, crashes>>

RunDKG ==
    /\ changes < MaxChanges
    /\ changes' = changes + 1
    /\ frost' = onchain.config
    /\ UNCHANGED <<onchain, gateway, chain, disk, policyCache, jobs, job,
                   pendingMints, running, work, client, order, recorded,
                   crashes>>

\* 60 seconds pass since the policy was cached.
ExpirePolicy ==
    /\ policyCache # NoPolicy
    /\ policyCache' = NoPolicy
    /\ UNCHANGED <<world, gateway, chain, disk, jobs, job, pendingMints,
                   running, work, client, order, recorded, crashes>>

\* A mint transaction is mined; the minter takes an attestation once, and may
\* refuse it for reasons of its own.
Mine(k) ==
    /\ txs[k].status = "sent"
    /\ \/ /\ txs[k].att \notin minted
          /\ txs' = [txs EXCEPT ![k].status = "success"]
          /\ minted' = minted \cup {txs[k].att}
       \/ /\ txs' = [txs EXCEPT ![k].status = "reverted"]
          /\ UNCHANGED minted
    /\ UNCHANGED <<world, gateway, disk, policyCache, jobs, job, pendingMints,
                   running, work, client, order, recorded, crashes>>

-----------------------------------------------------------------------------
(* startSend.                                                              *)

requestVars == <<world, gateway, chain, disk, jobs, job, pendingMints,
                 running, work, order, recorded, crashes>>

Post(c, req) ==
    /\ client[c].pc = "idle"
    /\ client' = [client EXCEPT ![c] =
          [Idle EXCEPT !.pc = "policy", !.req = req,
                       !.listed = req.recipient \in onchain.allowed]]
    /\ UNCHANGED <<requestVars, policyCache>>

\* policy(): the cache, or the first half of readPolicy (owners, weights and
\* allowlist).
ReadPolicy(c) ==
    /\ client[c].pc = "policy"
    /\ client' = [client EXCEPT ![c] =
          IF policyCache # NoPolicy
          THEN [@ EXCEPT !.pc = "allowlist", !.pol = policyCache]
          ELSE [@ EXCEPT !.pc = "limits",
                         !.pol.weights = onchain.config.weights,
                         !.pol.allowlist = onchain.allowed]]
    /\ UNCHANGED <<requestVars, policyCache>>

\* The second half of readPolicy, separate calls; the result is cached.
ReadLimits(c) ==
    LET pol == [client[c].pol EXCEPT !.threshold = onchain.config.threshold,
                                     !.cap = onchain.config.cap]
    IN
    /\ client[c].pc = "limits"
    /\ client' = [client EXCEPT ![c].pc = "allowlist", ![c].pol = pol]
    /\ policyCache' = pol
    /\ UNCHANGED requestVars

\* isAllowlisted asks the chain.  Mutant: the cached allowlist is good enough.
isAllowlisted_cached(c) == client[c].req.recipient \in client[c].pol.allowlist

isAllowlisted(c) == client[c].req.recipient \in onchain.allowed

ReadAllowlist(c) ==
    /\ client[c].pc = "allowlist"
    /\ client' = [client EXCEPT ![c].pc = "balances",
                     ![c].allowlisted = client[c].req.wellFormed
                                        /\ isAllowlisted(c)]
    /\ UNCHANGED <<requestVars, policyCache>>

ReadBalances(c) ==
    /\ client[c].pc = "balances"
    /\ client' = [client EXCEPT ![c].pc = "decide",
                                ![c].balances = gateway.balance]
    /\ UNCHANGED <<requestVars, policyCache>>

\* An await of startSend throws.
RequestFails(c) ==
    /\ client[c].pc \notin {"idle", "decide"}
    /\ client' = [client EXCEPT ![c] = Idle]
    /\ UNCHANGED <<requestVars, policyCache>>

Source(c) ==
    validateSend(client[c].req, client[c].pol, client[c].allowlisted,
                 client[c].balances, frost)

\* What validateSend, assertNoPendingMint and the check of `running` demand.
MayStart(c) ==
    /\ Source(c) # "none"
    /\ assertNoPendingMint(client[c].req.recipient, client[c].req.value)
    /\ running = None

\* The caller got something wrong, or (bound) no id is left.
RejectSend(c) ==
    /\ client[c].pc = "decide"
    /\ ~MayStart(c) \/ \A id \in JobId : order[id] # NoOrder
    /\ client' = [client EXCEPT ![c] = Idle]
    /\ UNCHANGED <<requestVars, policyCache>>

\* jobs.set(id, ..) and the removal of the oldest.  Mutant: of the newest.
keepJobs_newestDropped(js) ==
    IF Len(js) > MaxJobs THEN SubSeq(js, 1, Len(js) - 1) ELSE js

keepJobs(js) == IF Len(js) > MaxJobs THEN Tail(js) ELSE js

\* The job starts and runs to its first await: the EVM leg to getBlockNumber,
\* the Solana leg to getSlot, or to its end when the payee is not listed.
StartSend(c, id) ==
    LET r == client[c]
        source == Source(c)
        refused == source = "solana" /\ ~r.allowlisted
    IN
    /\ r.pc = "decide"
    /\ MayStart(c)
    /\ order[id] = NoOrder
    /\ order' = [order EXCEPT ![id] =
          [recipient |-> r.req.recipient, value |-> r.req.value,
           source |-> source, signers |-> r.req.signers,
           allowlisted |-> r.allowlisted,
           quorate |-> Weight(r.pol.weights, r.req.signers)
                          >= r.pol.threshold,
           expectRefusal |-> r.req.expectRefusal, listed |-> r.listed]]
    /\ jobs' = keepJobs(Append(jobs, id))
    /\ job' = [i \in JobId |->
          IF i = id
          THEN [NoJob EXCEPT
                  !.status = IF refused THEN "refused" ELSE "running",
                  !.steps["approvals"] = IF refused THEN "failed" ELSE "running"]
          ELSE IF i \in Range(jobs') THEN job[i] ELSE NoJob]
    /\ running' = id
    /\ work' = [NoWork EXCEPT !.pc = IF refused THEN "finally" ELSE source]
    /\ client' = [client EXCEPT ![c] = Idle]
    /\ UNCHANGED <<world, gateway, chain, disk, policyCache, pendingMints,
                   recorded, crashes>>

-----------------------------------------------------------------------------
(* The job.                                                                *)

jobVars == <<world, policyCache, jobs, running, client, order, crashes>>

me == order[running]
At(pc) == running # None /\ work.pc = pc
Goto(pc) == work' = [work EXCEPT !.pc = pc]

\* refuse(job, at, ..): the step fails, the job is refused and ends.
refuse(step) ==
    /\ job' = [job EXCEPT ![running].status = "refused",
                          ![running].steps[step] = "failed"]
    /\ Goto("finally")

\* Mutant: the status is one of a step.
Caught_stepStatus(j, kept) ==
    [status |-> "failed", resumable |-> j.resumable \/ kept,
     steps |-> [s \in StepKey |->
                   IF j.steps[s] = "running" THEN "failed" ELSE j.steps[s]]]

\* Mutant: the step that was running is left as it is.
Caught_stepOpen(j, kept) ==
    [status |-> "error", resumable |-> j.resumable \/ kept, steps |-> j.steps]

\* What the catch handler of track does to the job, `kept` saying whether an
\* attestation is pending.
Caught(j, kept) ==
    [status |-> "error", resumable |-> j.resumable \/ kept,
     steps |-> [s \in StepKey |->
                   IF j.steps[s] = "running" THEN "failed" ELSE j.steps[s]]]

\* An await of the job throws: an RPC, Gateway or frost-delegate fails, an
\* answer is lost or unreadable, the receipt does not come in time.
JobFails ==
    /\ running # None
    /\ work.pc # "finally"
    /\ job' = [job EXCEPT ![running] = Caught(@, running \in pendingMints)]
    /\ Goto("finally")
    /\ UNCHANGED <<jobVars, gateway, chain, disk, pendingMints, recorded>>

\* The finally handler of track: steps not reached are skipped.
Finally ==
    /\ At("finally")
    /\ job' = [job EXCEPT ![running].steps = [s \in StepKey |->
          IF job[running].steps[s] = "pending" THEN "skipped"
          ELSE job[running].steps[s]]]
    /\ running' = None
    /\ work' = NoWork
    /\ UNCHANGED <<world, policyCache, jobs, client, order, crashes, gateway,
                   chain, disk, pendingMints, recorded>>

\* runEvm up to postTransfer: the owners sign; the verdict of the treasury's
\* own isValidSignature is shown, and the intent is posted whatever it is.
ApproveEvm ==
    /\ At("evm")
    /\ job' = [job EXCEPT
          ![running].steps["approvals"] = IF me.quorate THEN "done" ELSE "failed",
          ![running].steps["attestation"] = "running"]
    /\ Goto("post")
    /\ UNCHANGED <<jobVars, gateway, chain, disk, pendingMints, recorded>>

\* runSolana up to postTransfer: FROST signs when the shares of the signers
\* reach the threshold; its coordinator policy may refuse.
ApproveSolana ==
    /\ At("solana")
    /\ \/ /\ Weight(frost.weights, me.signers) >= frost.threshold
          /\ job' = [job EXCEPT ![running].steps["approvals"] = "done",
                                ![running].steps["attestation"] = "running"]
          /\ Goto("post")
       \/ refuse("approvals")
    /\ UNCHANGED <<jobVars, gateway, chain, disk, pendingMints, recorded>>

\* Gateway takes the intent: on the EVM side if the treasury's view approves.
GatewayAccepts ==
    LET need == me.value + Fee[me.source] IN
    /\ At("post")
    /\ gateway.balance[me.source] >= need
    /\ me.source = "evm" =>
          /\ me.recipient \in onchain.allowed
          /\ Weight(onchain.config.weights, me.signers)
                >= onchain.config.threshold
          /\ me.value <= onchain.config.cap
    /\ gateway' = [balance |-> [gateway.balance EXCEPT ![me.source] = @ - need],
                   accepted |-> gateway.accepted \cup {running}]
    /\ work' = [work EXCEPT !.pc = "answer", !.answer = "ok"]
    /\ UNCHANGED <<jobVars, job, chain, disk, pendingMints, recorded>>

\* Gateway refuses the intent, which is not consumed.
GatewayRefuses ==
    /\ At("post")
    /\ \E a \in {"refused", "not authorized"} :
          work' = [work EXCEPT !.pc = "answer", !.answer = a]
    /\ UNCHANGED <<jobVars, job, gateway, chain, disk, pendingMints, recorded>>

\* The delegate is not indexed yet and tries remain.  Mutant: no end to them.
mayRetry_always == me.source = "solana" /\ work.answer = "not authorized"

mayRetry ==
    /\ me.source = "solana"
    /\ work.answer = "not authorized"
    /\ work.retries < MaxRetries

Retry ==
    /\ At("answer")
    /\ mayRetry
    /\ work' = [work EXCEPT !.pc = "post", !.answer = "none",
                   !.retries = IF @ < MaxRetries THEN @ + 1 ELSE @]
    /\ UNCHANGED <<jobVars, job, gateway, chain, disk, pendingMints, recorded>>

Refused ==
    /\ At("answer")
    /\ work.answer # "ok"
    /\ ~mayRetry
    /\ refuse("attestation")
    /\ UNCHANGED <<jobVars, gateway, chain, disk, pendingMints, recorded>>

\* accepted(): the attestation is kept in memory and on disk, and the mint
\* begins; when the file cannot be written, the job fails with the attestation
\* in memory only.
Accepted ==
    /\ At("answer")
    /\ work.answer = "ok"
    /\ pendingMints' = pendingMints \cup {running}
    /\ \/ /\ disk' = disk \cup {running}
          /\ recorded' = recorded \cup {running}
          /\ job' = [job EXCEPT ![running].steps["attestation"] = "done",
                                ![running].steps["mint"] = "running"]
          /\ Goto("mint")
       \/ /\ job' = [job EXCEPT ![running] = Caught(@, TRUE)]
          /\ Goto("finally")
          /\ UNCHANGED <<disk, recorded>>
    /\ UNCHANGED <<jobVars, gateway, chain>>

\* gatewayMint up to the wait for the receipt.  Gas estimation throws when the
\* attestation is used up; the answer to a transaction sent may be lost.
SubmitMint ==
    /\ At("mint")
    /\ running \notin minted
    /\ Len(txs) < MaxTx
    /\ txs' = Append(txs, [att |-> running, status |-> "sent"])
    /\ \/ /\ work' = [work EXCEPT !.pc = "receipt", !.tx = Len(txs) + 1]
          /\ UNCHANGED job
       \/ /\ job' = [job EXCEPT ![running] =
                        Caught(@, running \in pendingMints)]
          /\ Goto("finally")
    /\ UNCHANGED <<jobVars, gateway, minted, disk, pendingMints, recorded>>

\* Mutant: any receipt will do.
receiptSucceeded_any == txs[work.tx].status # "sent"

receiptSucceeded == txs[work.tx].status = "success"

\* The receipt succeeded; the balance is polled for display.
SeeReceipt ==
    /\ At("receipt")
    /\ receiptSucceeded
    /\ Goto("balance")
    /\ UNCHANGED <<jobVars, job, gateway, chain, disk, pendingMints, recorded>>

\* mint() after gatewayMint returned: clearPendingMint, and the job is minted;
\* when the file cannot be removed, the job fails after all.
Minted ==
    /\ At("balance")
    /\ pendingMints' = pendingMints \ {running}
    /\ \/ /\ disk' = disk \ {running}
          /\ job' = [job EXCEPT ![running].status = "minted",
                                ![running].steps["mint"] = "done"]
       \/ /\ job' = [job EXCEPT ![running] = Caught(@, FALSE)]
          /\ UNCHANGED disk
    /\ Goto("finally")
    /\ UNCHANGED <<jobVars, gateway, chain, recorded>>

-----------------------------------------------------------------------------
\* resumeMint: the saved attestation again, for a job in memory or not.
resumeMint(id) ==
    /\ id \in pendingMints
    /\ running = None
    /\ jobs' = IF id \in Range(jobs) THEN jobs ELSE Append(jobs, id)
    /\ job' = [job EXCEPT ![id] =
          LET j == IF id \in Range(jobs) THEN @
                   ELSE [NoJob EXCEPT !.steps =
                            Steps("done", "done", "pending")]
          IN  [j EXCEPT !.status = "running", !.resumable = FALSE,
                        !.steps["mint"] = "running"]]
    /\ running' = id
    /\ work' = [NoWork EXCEPT !.pc = "mint"]
    /\ UNCHANGED <<world, gateway, chain, disk, policyCache, pendingMints,
                   client, order, recorded, crashes>>

\* The server stops and starts again: loadPendingMints reads the files back.
Restart ==
    /\ crashes < MaxCrashes
    /\ crashes' = crashes + 1
    /\ pendingMints' = disk
    /\ policyCache' = NoPolicy
    /\ jobs' = <<>> /\ job' = [id \in JobId |-> NoJob]
    /\ running' = None
    /\ work' = NoWork
    /\ client' = [c \in Client |-> Idle]
    /\ UNCHANGED <<world, gateway, chain, disk, order, recorded>>

\* What the running job does next, whichever way its awaits end.
JobStep ==
    \/ JobFails
    \/ ApproveEvm \/ ApproveSolana
    \/ GatewayAccepts \/ GatewayRefuses
    \/ Retry \/ Refused \/ Accepted
    \/ SubmitMint \/ SeeReceipt \/ Minted
    \/ Finally

RequestStep(c) ==
    \/ ReadPolicy(c) \/ ReadLimits(c) \/ ReadAllowlist(c) \/ ReadBalances(c)
    \/ RequestFails(c) \/ RejectSend(c)
    \/ \E id \in JobId : StartSend(c, id)

Next ==
    \/ JobStep
    \/ \E c \in Client : RequestStep(c) \/ \E req \in Request : Post(c, req)
    \/ \E id \in JobId : resumeMint(id)
    \/ \E k \in 1 .. Len(txs) : Mine(k)
    \/ \E config \in Config, allowed \in SUBSET Recipient :
          ChangeTreasury(config, allowed)
    \/ RunDKG \/ ExpirePolicy \/ Restart

\* The event loop runs what is ready, and every await of a job ends: execFile
\* has a timeout of 30 s, fetch and the RPC client have theirs by default.
Spec == Init /\ [][Next]_vars /\ WF_vars(JobStep)

-----------------------------------------------------------------------------
(* Correctness.                                                            *)

StepState == {"pending", "running", "done", "failed", "skipped"}

\* Type invariant of the module state of send.ts and of the world around it.
TypeOK ==
    /\ onchain.config \in Config /\ onchain.allowed \subseteq Recipient
    /\ frost \in Config
    /\ gateway.balance \in [Position -> Nat]
    /\ gateway.accepted \subseteq JobId
    /\ txs \in Seq([att : JobId, status : {"sent", "success", "reverted"}])
    /\ minted \subseteq JobId
    /\ disk \subseteq JobId /\ pendingMints \subseteq JobId
    /\ recorded \subseteq JobId
    /\ jobs \in Seq(JobId)
    /\ job \in [JobId -> [status : {"none", "running", "minted", "refused",
                                     "error"},
                           resumable : BOOLEAN,
                           steps : [StepKey -> StepState]]]
    /\ running \in JobId \cup {None}
    /\ work \in [pc : {"idle", "evm", "solana", "post", "answer", "mint",
                        "receipt", "balance", "finally"},
                  retries : 0 .. MaxRetries, tx : 0 .. Len(txs),
                  answer : {"none", "ok", "refused", "not authorized"}]
    /\ crashes \in 0 .. MaxCrashes /\ changes \in 0 .. MaxChanges

\* An attestation that reached the disk stays there, through failures, resumed
\* mints and restarts, until it is minted on the destination chain.
AttestationKeptUntilMinted == recorded \subseteq disk \cup minted

SamePayment(a, b) ==
    order[a].recipient = order[b].recipient /\ order[a].value = order[b].value

\* The server never holds two unminted notes for one payment: as long as one is
\* known, in memory or on disk, the same amount to the same payee is not sent
\* again.
NoSecondNote ==
    \A a, b \in (pendingMints \cup disk) \ minted :
        a # b => ~SamePayment(a, b)

\* A job the browser polls tells the truth once it has settled: no step is left
\* open, a minted job was minted, a refused one committed nothing at Gateway,
\* and one that offers to be resumed has an attestation to resume.
SettledJobsTellTheTruth ==
    \A id \in Range(jobs) \ {running} :
        /\ job[id].status \in {"minted", "refused", "error"}
        /\ \A s \in StepKey : job[id].steps[s] \notin {"pending", "running"}
        /\ job[id].status = "minted" => id \in minted
        /\ job[id].status = "refused" => id \notin gateway.accepted
        /\ job[id].resumable => id \in pendingMints \cap gateway.accepted

\* The job that runs can be polled: of the jobs kept, it is never the one that
\* makes room for another.
RunningJobIsKnown == running # None => running \in Range(jobs)

\* The Solana vault has no allowlist on chain; a payment from it is committed
\* only to a payee the treasury listed at some moment since the request for it
\* came in, however old the cached policy was.
SolanaPaysListed ==
    \A id \in gateway.accepted :
        order[id].source = "solana" => order[id].listed

\* Every job settles, whichever awaits fail, so the next send can start.
JobsSettle == running # None ~> running = None

\* "Once Gateway accepts, the treasury's balance is committed ... a failed or
\* slow mint is RESUMED, never paid twice": Gateway never holds two accepted,
\* unminted intents for one payment.
CommittedOnce ==
    \A a, b \in gateway.accepted \ minted : a # b => ~SamePayment(a, b)

\* "The receipt succeeded ... Never report this as an error": a job that has
\* seen its receipt succeed does not end in error.
ReceiptNeverAnError ==
    [][ At("balance") => job'[running].status # "error" ]_vars

\* "Refusal demo: the signer refuses to run a request that would actually
\* succeed (it must never spend)".
RefusalDemoNeverSpends ==
    \A id \in gateway.accepted : ~order[id].expectRefusal
=============================================================================
