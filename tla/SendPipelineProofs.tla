------------------------- MODULE SendPipelineProofs -------------------------
(***************************************************************************)
(* Theorems about SendPipeline, for any number of concurrent requests and  *)
(* jobs, restarts and changes of the treasury.                             *)
(***************************************************************************)
EXTENDS SendPipeline, TLAPS

-----------------------------------------------------------------------------
(* The inductive invariant.                                                *)

NoRequest == [recipient |-> None]
PolicyType == [weights : [Owner -> Nat], threshold : Nat, cap : Nat,
               allowlist : SUBSET Recipient]
ClientType == [pc : {"idle", "policy", "limits", "allowlist", "balances", "decide"},
               req : Request \cup {NoRequest}, pol : PolicyType,
               allowlisted : BOOLEAN, listed : BOOLEAN,
               balances : [Position -> Nat]]
Verdict == {Weight(w, S) >= t : w \in [Owner -> Nat], S \in SUBSET Owner, t \in Nat}
OrderType == [recipient : Recipient \cup {None}, value : Nat, source : Position,
              signers : SUBSET Owner, allowlisted : BOOLEAN,
              quorate : Verdict \cup {FALSE},
              expectRefusal : BOOLEAN, listed : BOOLEAN]
JobType == [status : {"none", "running", "minted", "refused", "error"},
            resumable : BOOLEAN, steps : [StepKey -> StepState]]

\* The types of the coroutines of startSend and of what they leave.
RequestTypes ==
    /\ client \in [Client -> ClientType]
    /\ \A c \in Client : client[c].pc # "idle" => client[c].req \in Request
    /\ policyCache \in PolicyType
    /\ order \in [JobId -> OrderType]

\* The ids that have been dealt: nothing is known of the others.
Dealt == {id \in JobId : order[id] # NoOrder}

IdsWereDealt ==
    /\ gateway.accepted \subseteq Dealt
    /\ pendingMints \subseteq gateway.accepted
    /\ disk \subseteq gateway.accepted
    /\ running # None => running \in Dealt
    /\ work.pc = "idle" <=> running = None

\* The mint transactions of an attestation, and what the job has seen of them.
MintsAreTracked ==
    /\ \A k \in 1 .. Len(txs) : txs[k].status = "success" => txs[k].att \in minted
    /\ work.pc = "receipt" => work.tx # 0 /\ txs[work.tx].att = running
    /\ work.pc = "balance" => running \in minted

\* Before its attestation is saved, a job pays what no pending one does.
NothingPendingLikeIt ==
    work.pc \in {"evm", "solana", "post", "answer"} =>
        \A id \in pendingMints : id # running => ~SamePayment(running, id)

\* The file of an attestation outlives its entry in memory only if minted.
DiskIsPending == disk \subseteq pendingMints \cup minted

\* The record of the running job, from one await to the next.
OpenJob(j) ==
    /\ work.pc # "finally" => j.status = "running" /\ ~j.resumable
    /\ work.pc \in {"evm", "solana"} =>
          j.steps["attestation"] = "pending" /\ j.steps["mint"] = "pending"
    /\ work.pc \in {"post", "answer"} =>
          /\ j.steps["approvals"] \in {"done", "failed"}
          /\ j.steps["attestation"] = "running" /\ j.steps["mint"] = "pending"
    /\ work.pc \in {"mint", "receipt", "balance"} =>
          /\ j.steps["approvals"] \notin {"pending", "running"}
          /\ j.steps["attestation"] \notin {"pending", "running"}
          /\ running \in pendingMints
    /\ work.pc \in {"evm", "solana", "post"} => running \notin gateway.accepted
    /\ work.pc = "answer" => (work.answer = "ok" <=> running \in gateway.accepted)
    /\ work.pc = "finally" =>
          /\ j.status \in {"minted", "refused", "error"}
          /\ \A s \in StepKey : j.steps[s] # "running"
          /\ j.status = "minted" => running \in minted
          /\ j.status = "refused" => running \notin gateway.accepted
          /\ j.resumable => running \in pendingMints

OpenJobIsInOrder == running # None => OpenJob(job[running])

\* A Solana leg goes on only for a payee found listed, and found listed means
\* listed at some moment.
ListedWhenFound ==
    /\ \A c \in Client :
          /\ client[c].req.recipient \in onchain.allowed => client[c].listed
          /\ client[c].allowlisted => client[c].listed
    /\ \A id \in JobId : order[id].allowlisted => order[id].listed
    /\ work.pc \in {"evm", "solana", "post", "answer"} =>
          (me.source = "solana" => me.allowlisted)

IInv ==
    /\ TypeOK /\ RequestTypes /\ IdsWereDealt
    /\ MintsAreTracked /\ AttestationKeptUntilMinted
    /\ DiskIsPending /\ NothingPendingLikeIt /\ NoSecondNote
    /\ OpenJobIsInOrder /\ SettledJobsTellTheTruth /\ RunningJobIsKnown
    /\ ListedWhenFound /\ SolanaPaysListed


USE DEF Position, StepKey, StepState, None, world, chain, requestVars, jobVars,
        At, Goto

-----------------------------------------------------------------------------
(* The requests.                                                           *)

\* Whether a payee is listed is a Boolean the record of a request may hold.
LEMMA MembershipIsBoolean == \A x, S : (x \in S) \in BOOLEAN
  OBVIOUS

LEMMA IdleType ==
    /\ NoPolicy \in PolicyType
    /\ Idle \in ClientType
    /\ Idle.pc = "idle" /\ Idle.req = NoRequest
    /\ ~Idle.allowlisted /\ ~Idle.listed
<1>1. NoPolicy \in PolicyType
    BY DEF NoPolicy, PolicyType
<1> QED
    BY <1>1 DEF Idle, ClientType, NoRequest

\* A step of one request leaves the others, and fills in its own record.
LEMMA ClientUpdate ==
    ASSUME client \in [Client -> ClientType],
           NEW c \in Client, NEW r \in ClientType,
           client' = [client EXCEPT ![c] = r]
    PROVE  /\ client' \in [Client -> ClientType]
           /\ client'[c] = r
           /\ \A d \in Client : d # c => client'[d] = client[d]
BY DEF ClientType

\* The record that a step of startSend short of the decision leaves.
LEMMA RequestStepEffect ==
    ASSUME IInv, NEW c \in Client, client[c].pc # "idle",
           \/ ReadPolicy(c) \/ ReadLimits(c) \/ ReadAllowlist(c) \/ ReadBalances(c)
    PROVE  \E r \in ClientType :
               /\ client' = [client EXCEPT ![c] = r]
               /\ r.req = client[c].req
               /\ r.listed = client[c].listed
               /\ \/ r.allowlisted = client[c].allowlisted
                  \/ r.allowlisted => r.req.recipient \in onchain.allowed
               /\ policyCache' \in PolicyType
<1>1. /\ client \in [Client -> ClientType] /\ client[c] \in ClientType
      /\ client[c].pol \in PolicyType /\ policyCache \in PolicyType
      /\ client[c].req \in Request
      /\ onchain.config \in Config /\ onchain.allowed \subseteq Recipient
      /\ gateway.balance \in [Position -> Nat]
    BY DEF IInv, TypeOK, RequestTypes, ClientType
<1>2. /\ onchain.config.weights \in [Owner -> Nat]
      /\ onchain.config.threshold \in Nat /\ onchain.config.cap \in Nat
    BY <1>1, SendAssumption
<1>3. CASE ReadPolicy(c)
  <2>1. CASE policyCache # NoPolicy
    <3>1. client' = [client EXCEPT ![c] =
              [client[c] EXCEPT !.pc = "allowlist", !.pol = policyCache]]
        BY <1>1, <1>3, <2>1 DEF ReadPolicy
    <3> QED
        BY <1>1, <1>3, <3>1 DEF ClientType, ReadPolicy
  <2>2. CASE policyCache = NoPolicy
    <3> DEFINE p == [client[c].pol EXCEPT !.weights = onchain.config.weights,
                                          !.allowlist = onchain.allowed]
    <3>1. p \in PolicyType
        BY <1>1, <1>2 DEF PolicyType
    <3>2. client' = [client EXCEPT ![c] =
              [client[c] EXCEPT !.pc = "limits", !.pol = p]]
        BY <1>1, <1>3, <2>2 DEF ReadPolicy, ClientType, PolicyType
    <3> HIDE DEF p
    <3> QED
        BY <1>1, <1>3, <3>1, <3>2 DEF ClientType, ReadPolicy
  <2> QED
    BY <2>1, <2>2
<1>4. CASE ReadLimits(c)
  <2> DEFINE p == [client[c].pol EXCEPT !.threshold = onchain.config.threshold,
                                        !.cap = onchain.config.cap]
  <2>1. p \in PolicyType
    BY <1>1, <1>2 DEF PolicyType
  <2>2. /\ client' = [client EXCEPT ![c] =
              [client[c] EXCEPT !.pc = "allowlist", !.pol = p]]
        /\ policyCache' = p
    BY <1>1, <1>4 DEF ReadLimits
  <2> HIDE DEF p
  <2> QED
    BY <1>1, <2>1, <2>2 DEF ClientType
<1>5. CASE ReadAllowlist(c)
  <2> DEFINE a == client[c].req.wellFormed /\ client[c].req.recipient \in onchain.allowed
  <2>1. client' = [client EXCEPT ![c] =
              [client[c] EXCEPT !.pc = "balances", !.allowlisted = a]]
    BY <1>1, <1>5 DEF ReadAllowlist, isAllowlisted
  <2>2. a \in BOOLEAN /\ (a => client[c].req.recipient \in onchain.allowed)
    OBVIOUS
  <2> HIDE DEF a
  <2> QED
    BY <1>1, <1>5, <2>1, <2>2 DEF ClientType, ReadAllowlist
<1>6. CASE ReadBalances(c)
  <2>1. client' = [client EXCEPT ![c] =
              [client[c] EXCEPT !.pc = "decide", !.balances = gateway.balance]]
    BY <1>1, <1>6 DEF ReadBalances
  <2> QED
    BY <1>1, <1>6, <2>1 DEF ClientType, ReadBalances
<1> QED
    BY <1>3, <1>4, <1>5, <1>6

-----------------------------------------------------------------------------
(* The record of the running job.                                          *)

WorkType == [pc : {"idle", "evm", "solana", "post", "answer", "mint", "receipt",
                   "balance", "finally"},
             retries : 0 .. MaxRetries, tx : 0 .. Len(txs),
             answer : {"none", "ok", "refused", "not authorized"}]

LEMMA JobsAreIds ==
    ASSUME jobs \in Seq(JobId)
    PROVE  Range(jobs) \subseteq JobId
BY DEF Range

LEMMA RangeAppend ==
    ASSUME NEW js \in Seq(JobId), NEW id \in JobId
    PROVE  /\ Append(js, id) \in Seq(JobId)
           /\ Range(Append(js, id)) = Range(js) \cup {id}
<1> DEFINE long == Append(js, id)
<1>1. /\ long \in Seq(JobId) /\ Len(js) \in Nat /\ Len(long) = Len(js) + 1
      /\ long[Len(js) + 1] = id
      /\ \A i \in 1 .. Len(js) : long[i] = js[i]
    OBVIOUS
<1> HIDE DEF long
<1>2. /\ DOMAIN long = 1 .. Len(js) + 1 /\ DOMAIN js = 1 .. Len(js)
      /\ DOMAIN long = DOMAIN js \cup {Len(js) + 1}
    BY <1>1
<1>3. Range(long) = Range(js) \cup {id}
    BY <1>1, <1>2 DEF Range
<1> QED
    BY <1>1, <1>3 DEF long

\* Dropping the oldest job never drops the newest, or brings one back.
LEMMA KeepsNewest ==
    ASSUME NEW js \in Seq(JobId), NEW id \in JobId
    PROVE  LET new == keepJobs(Append(js, id)) IN
           /\ new \in Seq(JobId)
           /\ id \in Range(new)
           /\ Range(new) \subseteq Range(js) \cup {id}
<1> DEFINE long == Append(js, id)
<1>1. /\ long \in Seq(JobId) /\ Len(js) \in Nat /\ Len(long) = Len(js) + 1
      /\ long[Len(long)] = id
    OBVIOUS
<1>2. MaxJobs \in Nat /\ MaxJobs > 0
    BY SendAssumption
<1> HIDE DEF long
<1>3. CASE Len(long) > MaxJobs
  <2> DEFINE new == Tail(long)
  <2>1. long # <<>> /\ Len(long) \in Nat /\ Len(long) > 1
    BY <1>1, <1>2, <1>3
  <2>2. /\ new \in Seq(JobId) /\ Len(new) = Len(long) - 1
        /\ \A i \in 1 .. Len(new) : new[i] = long[i + 1]
    BY <1>1, <2>1
  <2> HIDE DEF new
  <2>3. Len(new) \in 1 .. Len(new) /\ new[Len(new)] = id
    BY <1>1, <2>1, <2>2
  <2>4. id \in Range(new)
    BY <2>2, <2>3 DEF Range
  <2>5. Range(new) \subseteq Range(long)
    BY <1>1, <2>1, <2>2 DEF Range
  <2>6. Range(long) = Range(js) \cup {id}
    BY RangeAppend DEF long
  <2>7. keepJobs(Append(js, id)) = new
    BY <1>3 DEF keepJobs, new, long
  <2> QED
    BY <2>2, <2>4, <2>5, <2>6, <2>7
<1>4. CASE ~(Len(long) > MaxJobs)
    BY <1>1, <1>4, RangeAppend DEF keepJobs, long
<1> QED
    BY <1>3, <1>4

LEMMA JobTypes ==
    ASSUME IInv, running # None
    PROVE  /\ running \in JobId
           /\ job \in [JobId -> JobType]
           /\ job[running] \in JobType
           /\ job[running].steps \in [StepKey -> StepState]
           /\ work \in WorkType
           /\ OpenJob(job[running])
BY DEF IInv, TypeOK, JobType, WorkType, OpenJobIsInOrder

\* What the catch handler of track leaves of a job.
LEMMA CaughtJob ==
    ASSUME NEW j \in JobType, NEW kept \in BOOLEAN
    PROVE  LET k == Caught(j, kept) IN
           /\ k \in JobType
           /\ k.status = "error"
           /\ k.resumable <=> j.resumable \/ kept
           /\ \A s \in StepKey : k.steps[s] # "running"
<1> DEFINE steps == [s \in StepKey |->
                IF j.steps[s] = "running" THEN "failed" ELSE j.steps[s]]
           res == j.resumable \/ kept
<1>1. /\ steps \in [StepKey -> StepState]
      /\ \A s \in StepKey : steps[s] # "running"
    BY DEF JobType
<1>2. res \in BOOLEAN /\ (res <=> j.resumable \/ kept)
    BY DEF JobType
<1>3. Caught(j, kept) = [status |-> "error", resumable |-> res, steps |-> steps]
    BY DEF Caught
<1> HIDE DEF steps, res
<1> QED
    BY <1>1, <1>2, <1>3 DEF JobType

\* A step of the job writes its own record only.
Writes(j) == job' = [job EXCEPT ![running] = j]

LEMMA JobUpdate ==
    ASSUME job \in [JobId -> JobType], running \in JobId,
           NEW j \in JobType, Writes(j)
    PROVE  /\ job' \in [JobId -> JobType]
           /\ job'[running] = j
           /\ \A id \in JobId : id # running => job'[id] = job[id]
BY DEF JobType, Writes

\* Each step of the job leaves its record in order for the await that follows.
JobEffect ==
    /\ job' \in [JobId -> JobType]
    /\ \A id \in JobId : id # running => job'[id] = job[id]
    /\ OpenJobIsInOrder'

LEMMA FailsEffect ==
    ASSUME IInv, JobFails
    PROVE  JobEffect
<1> DEFINE j == Caught(job[running], running \in pendingMints)
<1>1. running # None /\ work.pc # "finally"
    BY DEF JobFails
<1>2. /\ j \in JobType /\ j.status = "error"
      /\ j.resumable <=> job[running].resumable \/ running \in pendingMints
      /\ \A s \in StepKey : j.steps[s] # "running"
  <2>1. job[running] \in JobType /\ (running \in pendingMints) \in BOOLEAN
    BY <1>1, JobTypes
  <2> QED
    BY <2>1, CaughtJob, Zenon
<1>3. Writes(j)
    BY <1>1, JobTypes DEF JobFails, Writes
<1>4. /\ job' \in [JobId -> JobType] /\ job'[running] = j
      /\ \A id \in JobId : id # running => job'[id] = job[id]
    BY <1>1, <1>2, <1>3, JobTypes, JobUpdate
<1>5. ~job[running].resumable
    BY <1>1, JobTypes DEF OpenJob
<1>6. work'.pc = "finally" /\ UNCHANGED <<running, pendingMints, minted, gateway>>
    BY <1>1, JobTypes DEF JobFails, WorkType
<1> HIDE DEF j
<1>7. OpenJobIsInOrder'
    BY <1>2, <1>4, <1>5, <1>6 DEF OpenJobIsInOrder, OpenJob
<1> QED
    BY <1>4, <1>7 DEF JobEffect

LEMMA ApproveEffect ==
    ASSUME IInv, ApproveEvm \/ ApproveSolana
    PROVE  JobEffect
<1>1. /\ running # None /\ work.pc \in {"evm", "solana"}
      /\ UNCHANGED <<running, pendingMints, minted, gateway>>
    BY DEF ApproveEvm, ApproveSolana
<1>2. CASE \E x \in {"done", "failed"} :
              /\ job' = [job EXCEPT ![running].steps["approvals"] = x,
                                    ![running].steps["attestation"] = "running"]
              /\ Goto("post")
  <2>1. PICK x \in {"done", "failed"} :
              /\ job' = [job EXCEPT ![running].steps["approvals"] = x,
                                    ![running].steps["attestation"] = "running"]
              /\ Goto("post")
    BY <1>2
  <2> DEFINE j == [job[running] EXCEPT !.steps["approvals"] = x,
                                       !.steps["attestation"] = "running"]
  <2>2. /\ j \in JobType
        /\ j.status = job[running].status /\ j.resumable = job[running].resumable
        /\ j.steps["approvals"] = x /\ j.steps["attestation"] = "running"
        /\ j.steps["mint"] = job[running].steps["mint"]
    BY <1>1, JobTypes DEF JobType
  <2>3. Writes(j)
    BY <1>1, <2>1, JobTypes DEF Writes, JobType
  <2>4. /\ job' \in [JobId -> JobType] /\ job'[running] = j
        /\ \A id \in JobId : id # running => job'[id] = job[id]
    BY <1>1, <2>2, <2>3, JobTypes, JobUpdate
  <2>5. work'.pc = "post"
    BY <1>1, <2>1, JobTypes DEF WorkType
  <2> HIDE DEF j
  <2>6. OpenJobIsInOrder'
    BY <1>1, <2>2, <2>4, <2>5, JobTypes DEF OpenJobIsInOrder, OpenJob
  <2> QED
    BY <2>4, <2>6 DEF JobEffect
<1>3. CASE refuse("approvals")
  <2> DEFINE j == [job[running] EXCEPT !.status = "refused", !.steps["approvals"] = "failed"]
  <2>1. /\ j \in JobType
        /\ j.status = "refused" /\ j.resumable = job[running].resumable
        /\ j.steps["approvals"] = "failed"
        /\ j.steps["attestation"] = job[running].steps["attestation"]
        /\ j.steps["mint"] = job[running].steps["mint"]
    BY <1>1, JobTypes DEF JobType
  <2>2. Writes(j)
    BY <1>1, <1>3, JobTypes DEF Writes, JobType, refuse
  <2>3. /\ job' \in [JobId -> JobType] /\ job'[running] = j
        /\ \A id \in JobId : id # running => job'[id] = job[id]
    BY <1>1, <2>1, <2>2, JobTypes, JobUpdate
  <2>4. work'.pc = "finally"
    BY <1>1, <1>3, JobTypes DEF WorkType, refuse
  <2> HIDE DEF j
  <2>5. OpenJobIsInOrder'
    BY <1>1, <2>1, <2>3, <2>4, JobTypes DEF OpenJobIsInOrder, OpenJob
  <2> QED
    BY <2>3, <2>5 DEF JobEffect
<1> QED
    BY <1>2, <1>3 DEF ApproveEvm, ApproveSolana

LEMMA PostEffect ==
    ASSUME IInv, GatewayAccepts \/ GatewayRefuses \/ Retry
    PROVE  JobEffect
<1>1. /\ running # None /\ work.pc \in {"post", "answer"}
      /\ UNCHANGED <<running, job, pendingMints, minted>>
    BY DEF GatewayAccepts, GatewayRefuses, Retry
<1>2. CASE GatewayAccepts
  <2>1. /\ work.pc = "post" /\ work'.pc = "answer" /\ work'.answer = "ok"
        /\ running \in gateway'.accepted
    BY <1>1, <1>2, JobTypes DEF GatewayAccepts, WorkType
  <2>2. OpenJobIsInOrder'
    BY <1>1, <2>1, JobTypes DEF OpenJobIsInOrder, OpenJob
  <2> QED
    BY <1>1, <2>2, JobTypes DEF JobEffect
<1>3. CASE GatewayRefuses
  <2>1. /\ work.pc = "post" /\ work'.pc = "answer" /\ work'.answer # "ok"
        /\ gateway' = gateway
    BY <1>1, <1>3, JobTypes DEF GatewayRefuses, WorkType
  <2>2. OpenJobIsInOrder'
    BY <1>1, <2>1, JobTypes DEF OpenJobIsInOrder, OpenJob
  <2> QED
    BY <1>1, <2>2, JobTypes DEF JobEffect
<1>4. CASE Retry
  <2>1. /\ work.pc = "answer" /\ work.answer # "ok" /\ work'.pc = "post"
        /\ gateway' = gateway
    BY <1>1, <1>4, JobTypes DEF Retry, mayRetry, WorkType
  <2>2. OpenJobIsInOrder'
    BY <1>1, <2>1, JobTypes DEF OpenJobIsInOrder, OpenJob
  <2> QED
    BY <1>1, <2>2, JobTypes DEF JobEffect
<1> QED
    BY <1>2, <1>3, <1>4

LEMMA RefusedEffect ==
    ASSUME IInv, Refused
    PROVE  JobEffect
<1> DEFINE j == [job[running] EXCEPT !.status = "refused", !.steps["attestation"] = "failed"]
<1>1. /\ running # None /\ work.pc = "answer" /\ work.answer # "ok"
      /\ UNCHANGED <<running, pendingMints, minted, gateway>>
    BY DEF Refused
<1>2. /\ j \in JobType
      /\ j.status = "refused" /\ j.resumable = job[running].resumable
      /\ j.steps["attestation"] = "failed"
      /\ j.steps["approvals"] = job[running].steps["approvals"]
      /\ j.steps["mint"] = job[running].steps["mint"]
    BY <1>1, JobTypes DEF JobType
<1>3. Writes(j)
    BY <1>1, JobTypes DEF Writes, JobType, Refused, refuse
<1>4. /\ job' \in [JobId -> JobType] /\ job'[running] = j
      /\ \A id \in JobId : id # running => job'[id] = job[id]
    BY <1>1, <1>2, <1>3, JobTypes, JobUpdate
<1>5. work'.pc = "finally"
    BY <1>1, JobTypes DEF WorkType, Refused, refuse
<1> HIDE DEF j
<1>6. OpenJobIsInOrder'
    BY <1>1, <1>2, <1>4, <1>5, JobTypes DEF OpenJobIsInOrder, OpenJob
<1> QED
    BY <1>4, <1>6 DEF JobEffect

LEMMA AcceptedEffect ==
    ASSUME IInv, Accepted
    PROVE  JobEffect
<1>1. /\ running # None /\ work.pc = "answer" /\ work.answer = "ok"
      /\ UNCHANGED <<running, minted, gateway>>
      /\ pendingMints' = pendingMints \cup {running}
    BY DEF Accepted
<1>2. CASE /\ job' = [job EXCEPT ![running].steps["attestation"] = "done",
                                 ![running].steps["mint"] = "running"]
           /\ Goto("mint")
  <2> DEFINE j == [job[running] EXCEPT !.steps["attestation"] = "done",
                                       !.steps["mint"] = "running"]
  <2>1. /\ j \in JobType
        /\ j.status = job[running].status /\ j.resumable = job[running].resumable
        /\ j.steps["attestation"] = "done"
        /\ j.steps["approvals"] = job[running].steps["approvals"]
    BY <1>1, JobTypes DEF JobType
  <2>2. Writes(j)
    BY <1>1, <1>2, JobTypes DEF Writes, JobType
  <2>3. /\ job' \in [JobId -> JobType] /\ job'[running] = j
        /\ \A id \in JobId : id # running => job'[id] = job[id]
    BY <1>1, <2>1, <2>2, JobTypes, JobUpdate
  <2>4. work'.pc = "mint"
    BY <1>1, <1>2, JobTypes DEF WorkType
  <2> HIDE DEF j
  <2>5. OpenJobIsInOrder'
    BY <1>1, <2>1, <2>3, <2>4, JobTypes DEF OpenJobIsInOrder, OpenJob
  <2> QED
    BY <2>3, <2>5 DEF JobEffect
<1>3. CASE job' = [job EXCEPT ![running] = Caught(@, TRUE)] /\ Goto("finally")
  <2> DEFINE j == Caught(job[running], TRUE)
  <2>1. /\ j \in JobType /\ j.status = "error"
        /\ \A s \in StepKey : j.steps[s] # "running"
    BY <1>1, JobTypes, CaughtJob
  <2>2. Writes(j)
    BY <1>1, <1>3, JobTypes DEF Writes
  <2>3. /\ job' \in [JobId -> JobType] /\ job'[running] = j
        /\ \A id \in JobId : id # running => job'[id] = job[id]
    BY <1>1, <2>1, <2>2, JobTypes, JobUpdate
  <2>4. work'.pc = "finally"
    BY <1>1, <1>3, JobTypes DEF WorkType
  <2> HIDE DEF j
  <2>5. OpenJobIsInOrder'
    BY <1>1, <2>1, <2>3, <2>4 DEF OpenJobIsInOrder, OpenJob
  <2> QED
    BY <2>3, <2>5 DEF JobEffect
<1> QED
    BY <1>2, <1>3 DEF Accepted

LEMMA SubmitEffect ==
    ASSUME IInv, SubmitMint \/ SeeReceipt
    PROVE  JobEffect
<1>1. /\ running # None /\ work.pc \in {"mint", "receipt"}
      /\ UNCHANGED <<running, pendingMints, minted, gateway>>
    BY DEF SubmitMint, SeeReceipt
<1>2. CASE job' = job /\ work'.pc \in {"receipt", "balance"}
  <2>1. OpenJobIsInOrder'
    BY <1>1, <1>2, JobTypes DEF OpenJobIsInOrder, OpenJob
  <2> QED
    BY <1>1, <1>2, <2>1, JobTypes DEF JobEffect
<1>3. CASE /\ job' = [job EXCEPT ![running] = Caught(@, running \in pendingMints)]
           /\ Goto("finally")
  <2> DEFINE j == Caught(job[running], running \in pendingMints)
  <2>1. /\ j \in JobType /\ j.status = "error"
        /\ \A s \in StepKey : j.steps[s] # "running"
    <3>1. job[running] \in JobType /\ (running \in pendingMints) \in BOOLEAN
        BY <1>1, JobTypes
    <3> QED
        BY <3>1, CaughtJob, Zenon
  <2>2. Writes(j)
    BY <1>1, <1>3, JobTypes DEF Writes
  <2>3. /\ job' \in [JobId -> JobType] /\ job'[running] = j
        /\ \A id \in JobId : id # running => job'[id] = job[id]
    BY <1>1, <2>1, <2>2, JobTypes, JobUpdate
  <2>4. work'.pc = "finally"
    BY <1>1, <1>3, JobTypes DEF WorkType
  <2> HIDE DEF j
  <2>5. OpenJobIsInOrder'
    BY <1>1, <2>1, <2>3, <2>4, JobTypes DEF OpenJobIsInOrder, OpenJob
  <2> QED
    BY <2>3, <2>5 DEF JobEffect
<1>4. (job' = job /\ work'.pc \in {"receipt", "balance"})
      \/ (/\ job' = [job EXCEPT ![running] = Caught(@, running \in pendingMints)]
          /\ Goto("finally"))
    BY <1>1, JobTypes DEF SubmitMint, SeeReceipt, WorkType
<1> QED
    BY <1>2, <1>3, <1>4

LEMMA MintedEffect ==
    ASSUME IInv, Minted
    PROVE  JobEffect
<1>1. /\ running # None /\ work.pc = "balance" /\ Goto("finally")
      /\ UNCHANGED <<running, minted, gateway>>
      /\ running \in minted
    BY DEF Minted, IInv, MintsAreTracked
<1>2. work'.pc = "finally"
    BY <1>1, JobTypes DEF WorkType
<1>3. CASE job' = [job EXCEPT ![running].status = "minted",
                              ![running].steps["mint"] = "done"]
  <2> DEFINE j == [job[running] EXCEPT !.status = "minted", !.steps["mint"] = "done"]
  <2>1. /\ j \in JobType
        /\ j.status = "minted" /\ j.resumable = job[running].resumable
        /\ j.steps["mint"] = "done"
        /\ j.steps["approvals"] = job[running].steps["approvals"]
        /\ j.steps["attestation"] = job[running].steps["attestation"]
    BY <1>1, JobTypes DEF JobType
  <2>2. Writes(j)
    BY <1>1, <1>3, JobTypes DEF Writes, JobType
  <2>3. /\ job' \in [JobId -> JobType] /\ job'[running] = j
        /\ \A id \in JobId : id # running => job'[id] = job[id]
    BY <1>1, <2>1, <2>2, JobTypes, JobUpdate
  <2> HIDE DEF j
  <2>4. OpenJobIsInOrder'
    BY <1>1, <1>2, <2>1, <2>3, JobTypes DEF OpenJobIsInOrder, OpenJob
  <2> QED
    BY <2>3, <2>4 DEF JobEffect
<1>4. CASE job' = [job EXCEPT ![running] = Caught(@, FALSE)]
  <2> DEFINE j == Caught(job[running], FALSE)
  <2>1. /\ j \in JobType /\ j.status = "error"
        /\ j.resumable <=> job[running].resumable
        /\ \A s \in StepKey : j.steps[s] # "running"
    BY <1>1, JobTypes, CaughtJob
  <2>2. Writes(j)
    BY <1>1, <1>4, JobTypes DEF Writes
  <2>3. /\ job' \in [JobId -> JobType] /\ job'[running] = j
        /\ \A id \in JobId : id # running => job'[id] = job[id]
    BY <1>1, <2>1, <2>2, JobTypes, JobUpdate
  <2> HIDE DEF j
  <2>4. OpenJobIsInOrder'
    BY <1>1, <1>2, <2>1, <2>3, JobTypes DEF OpenJobIsInOrder, OpenJob
  <2> QED
    BY <2>3, <2>4 DEF JobEffect
<1> QED
    BY <1>3, <1>4 DEF Minted

\* The finally handler closes the steps that are pending; the job has settled.
LEMMA FinallyEffect ==
    ASSUME IInv, Finally
    PROVE  LET j == job'[running] IN
           /\ job' \in [JobId -> JobType]
           /\ \A id \in JobId : id # running => job'[id] = job[id]
           /\ j.status = job[running].status /\ j.resumable = job[running].resumable
           /\ \A s \in StepKey : j.steps[s] \notin {"pending", "running"}
<1> DEFINE steps == [s \in StepKey |->
                IF job[running].steps[s] = "pending" THEN "skipped"
                ELSE job[running].steps[s]]
           j == [job[running] EXCEPT !.steps = steps]
<1>1. running # None /\ work.pc = "finally"
    BY DEF Finally
<1>2. /\ steps \in [StepKey -> StepState]
      /\ \A s \in StepKey : steps[s] \notin {"pending", "running"}
    BY <1>1, JobTypes DEF OpenJob
<1>3. job' = [job EXCEPT ![running] = j]
    BY <1>1, JobTypes DEF Finally, JobType
<1> HIDE DEF steps
<1>4. /\ j \in JobType /\ j.status = job[running].status
      /\ j.resumable = job[running].resumable /\ j.steps = steps
    BY <1>1, <1>2, JobTypes DEF JobType
<1> HIDE DEF j
<1> QED
    BY <1>1, <1>2, <1>3, <1>4, JobTypes, JobUpdate DEF Writes

-----------------------------------------------------------------------------
(* The steps of the job keep the invariant.                                *)

\* All but the finally handler, with what none of them changes.
Working == JobStep /\ ~At("finally")

LEMMA WorkingEffect ==
    ASSUME IInv, Working
    PROVE  /\ JobEffect /\ running # None /\ ~Finally
           /\ UNCHANGED <<onchain, frost, changes, policyCache, jobs, running,
                          client, order, crashes, minted>>
<1>1. running # None /\ ~Finally
    BY DEF Working, JobStep, Finally, JobFails, ApproveEvm, ApproveSolana,
           GatewayAccepts, GatewayRefuses, Retry, Refused, Accepted, SubmitMint,
           SeeReceipt, Minted
<1>2. JobEffect
    BY <1>1, FailsEffect, ApproveEffect, PostEffect, RefusedEffect, AcceptedEffect,
       SubmitEffect, MintedEffect DEF Working, JobStep
<1>3. UNCHANGED <<onchain, frost, changes, policyCache, jobs, running, client,
                  order, crashes, minted>>
    BY <1>1 DEF Working, JobStep, JobFails, ApproveEvm, ApproveSolana,
           GatewayAccepts, GatewayRefuses, Retry, Refused, Accepted, SubmitMint,
           SeeReceipt, Minted
<1> QED
    BY <1>1, <1>2, <1>3

LEMMA WorkingTypes ==
    ASSUME IInv, Working
    PROVE  TypeOK'
<1> USE WorkingEffect, JobTypes
<1>1. job' \in [JobId -> JobType]
    BY DEF JobEffect
<1>2. /\ gateway'.balance \in [Position -> Nat] /\ gateway'.accepted \subseteq JobId
      /\ disk' \subseteq JobId /\ pendingMints' \subseteq JobId
      /\ recorded' \subseteq JobId
  <2>1. CASE GatewayAccepts
    <3> DEFINE need == me.value + Fee[me.source]
    <3>1. me \in OrderType
        BY DEF me, IInv, RequestTypes
    <3>2. need \in Nat /\ me.source \in Position
        BY <3>1, SendAssumption DEF OrderType
    <3>3. /\ gateway'.balance = [gateway.balance EXCEPT ![me.source] = @ - need]
          /\ gateway'.accepted = gateway.accepted \cup {running}
          /\ gateway.balance[me.source] >= need
          /\ UNCHANGED <<disk, pendingMints, recorded>>
        BY <2>1 DEF GatewayAccepts
    <3>4. gateway.balance \in [Position -> Nat]
        BY DEF IInv, TypeOK
    <3> HIDE DEF need
    <3>5. gateway'.balance \in [Position -> Nat]
        BY <3>2, <3>3, <3>4
    <3> QED
        BY <3>3, <3>5 DEF IInv, TypeOK
  <2>2. CASE ~GatewayAccepts
    <3>1. gateway' = gateway
        BY <2>2 DEF Working, JobStep, JobFails, ApproveEvm, ApproveSolana,
           GatewayRefuses, Retry, Refused, Accepted, SubmitMint, SeeReceipt, Minted
    <3>2. /\ disk' \subseteq JobId /\ pendingMints' \subseteq JobId
          /\ recorded' \subseteq JobId
        BY <2>2 DEF Working, JobStep, JobFails, ApproveEvm, ApproveSolana,
           GatewayRefuses, Retry, Refused, Accepted, SubmitMint, SeeReceipt, Minted,
           IInv, TypeOK
    <3> QED
        BY <3>1, <3>2 DEF IInv, TypeOK
  <2> QED
    BY <2>1, <2>2
<1>3. /\ txs' \in Seq([att : JobId, status : {"sent", "success", "reverted"}])
      /\ Len(txs') \in Nat /\ Len(txs) \in Nat /\ Len(txs) <= Len(txs')
      /\ SubmitMint => Len(txs) + 1 = Len(txs')
  <2>1. txs \in Seq([att : JobId, status : {"sent", "success", "reverted"}])
    BY DEF IInv, TypeOK
  <2>2. CASE SubmitMint
    BY <2>1, <2>2 DEF SubmitMint
  <2>3. CASE ~SubmitMint
    <3>1. txs' = txs
        BY <2>3 DEF Working, JobStep, JobFails, ApproveEvm, ApproveSolana,
           GatewayAccepts, GatewayRefuses, Retry, Refused, Accepted, SeeReceipt, Minted
    <3> QED
        BY <2>1, <2>3, <3>1
  <2> QED
    BY <2>2, <2>3
<1>4. work' \in WorkType'
  <2> DEFINE Tries == 0 .. MaxRetries
             Txs == 0 .. Len(txs')
             W == [pc : {"idle", "evm", "solana", "post", "answer", "mint",
                         "receipt", "balance", "finally"},
                   retries : Tries, tx : Txs,
                   answer : {"none", "ok", "refused", "not authorized"}]
  <2>1. work \in WorkType /\ W = WorkType'
    BY DEF WorkType
  <2>2. work.tx \in Txs /\ (SubmitMint => Len(txs) + 1 \in Txs)
    <3>1. work.tx \in 0 .. Len(txs)
        BY <2>1 DEF WorkType
    <3> QED
        BY ONLY <1>3, <3>1
  <2>3. work.retries \in Tries
        /\ (work.retries < MaxRetries => work.retries + 1 \in Tries)
    <3>1. work.retries \in 0 .. MaxRetries
        BY <2>1 DEF WorkType
    <3>2. MaxRetries \in Nat
        BY SendAssumption
    <3> QED
        BY ONLY <3>1, <3>2
  <2>4. work = [pc |-> work.pc, retries |-> work.retries, tx |-> work.tx,
                answer |-> work.answer]
    BY <2>1 DEF WorkType
  <2>5. /\ work.pc \in {"idle", "evm", "solana", "post", "answer", "mint",
                         "receipt", "balance", "finally"}
        /\ work.answer \in {"none", "ok", "refused", "not authorized"}
    BY <2>1 DEF WorkType
  <2> HIDE DEF Tries, Txs
  <2>6. work \in W
    BY <2>2, <2>3, <2>4, <2>5
  <2>7. CASE Retry
    <3>1. work' = [work EXCEPT !.pc = "post", !.answer = "none",
                               !.retries = work.retries + 1]
          /\ work.retries < MaxRetries
        BY <2>6, <2>7 DEF Retry, mayRetry
    <3> QED
        BY <2>1, <2>3, <2>6, <3>1
  <2>8. CASE SubmitMint
    <3>1. \/ work' = [work EXCEPT !.pc = "receipt", !.tx = Len(txs) + 1]
          \/ work' = [work EXCEPT !.pc = "finally"]
        BY <2>8 DEF SubmitMint
    <3> QED
        BY <2>1, <2>2, <2>6, <2>8, <3>1
  <2>9. CASE GatewayAccepts \/ GatewayRefuses
    <3>1. \E x \in {"ok", "refused", "not authorized"} :
             work' = [work EXCEPT !.pc = "answer", !.answer = x]
        BY <2>9 DEF GatewayAccepts, GatewayRefuses
    <3> QED
        BY <2>1, <2>6, <3>1
  <2>10. CASE JobFails \/ ApproveEvm \/ ApproveSolana \/ Refused \/ Accepted
              \/ SeeReceipt \/ Minted
    <3>1. \E pc \in {"post", "mint", "balance", "finally"} :
             work' = [work EXCEPT !.pc = pc]
        BY <2>10 DEF JobFails, ApproveEvm, ApproveSolana, Refused, Accepted,
                     SeeReceipt, Minted, refuse
    <3> QED
        BY <2>1, <2>6, <3>1
  <2> QED
    BY <2>7, <2>8, <2>9, <2>10 DEF Working, JobStep
<1> QED
    BY <1>1, <1>2, <1>3, <1>4 DEF TypeOK, IInv, JobType, WorkType

\* How the notes and the transactions move, for each step of the job.
NotesMove ==
    \/ /\ UNCHANGED <<gateway, pendingMints, disk, recorded, txs>>
       /\ \/ work'.pc = "finally"
          \/ work.pc \in {"evm", "solana"} /\ work'.pc = "post"
          \/ work.pc = "post" /\ work'.pc = "answer"
          \/ work.pc = "answer" /\ work'.pc = "post"
          \/ /\ work.pc = "receipt" /\ work'.pc = "balance"
             /\ txs[work.tx].status = "success"
    \/ /\ UNCHANGED <<pendingMints, disk, recorded, txs>>
       /\ work.pc = "post" /\ work'.pc = "answer"
       /\ gateway'.accepted = gateway.accepted \cup {running}
    \/ /\ UNCHANGED <<gateway, txs>>
       /\ work.pc = "answer" /\ work'.pc \in {"mint", "finally"}
       /\ running \in gateway.accepted
       /\ pendingMints' = pendingMints \cup {running}
       /\ \/ UNCHANGED <<disk, recorded>>
          \/ disk' = disk \cup {running} /\ recorded' = recorded \cup {running}
    \/ /\ UNCHANGED <<gateway, pendingMints, disk, recorded>>
       /\ work.pc = "mint" /\ running \notin minted
       /\ txs' = Append(txs, [att |-> running, status |-> "sent"])
       /\ work'.pc = "finally" \/ (work'.pc = "receipt" /\ work'.tx = Len(txs) + 1)
    \/ /\ UNCHANGED <<gateway, recorded, txs>>
       /\ work.pc = "balance" /\ work'.pc = "finally"
       /\ pendingMints' = pendingMints \ {running}
       /\ disk' \in {disk, disk \ {running}}

LEMMA WorkingNotes ==
    ASSUME IInv, Working
    PROVE  NotesMove
<1>1. running # None
    BY WorkingEffect
<1> USE <1>1, JobTypes DEF WorkType, NotesMove
<1>2. CASE JobFails
    BY <1>2 DEF JobFails
<1>3. CASE ApproveEvm \/ ApproveSolana
    BY <1>3 DEF ApproveEvm, ApproveSolana, refuse
<1>4. CASE GatewayAccepts
    BY <1>4 DEF GatewayAccepts
<1>5. CASE GatewayRefuses \/ Retry
    BY <1>5 DEF GatewayRefuses, Retry
<1>6. CASE Refused
    BY <1>6 DEF Refused, refuse
<1>7. CASE Accepted
    BY <1>7 DEF Accepted, OpenJob
<1>8. CASE SubmitMint
    BY <1>8 DEF SubmitMint
<1>9. CASE SeeReceipt
    BY <1>9 DEF SeeReceipt, receiptSucceeded
<1>10. CASE Minted
    BY <1>10 DEF Minted
<1> QED
    BY <1>2, <1>3, <1>4, <1>5, <1>6, <1>7, <1>8, <1>9, <1>10, WorkingEffect
    DEF Working, JobStep

LEMMA WorkingKeeps ==
    ASSUME IInv, Working
    PROVE  IInv'
<1>1. /\ NotesMove /\ JobEffect /\ running # None
      /\ UNCHANGED <<onchain, frost, changes, policyCache, jobs, running, client,
                     order, crashes, minted>>
      /\ running \in JobId
    BY WorkingEffect, WorkingNotes, JobTypes
<1>2. TypeOK' /\ RequestTypes'
    BY <1>1, WorkingTypes DEF IInv, RequestTypes
<1>3. IdsWereDealt'
    BY <1>1 DEF NotesMove, IInv, IdsWereDealt, Dealt
<1>4. MintsAreTracked'
  <2>1. txs \in Seq([att : JobId, status : {"sent", "success", "reverted"}])
    BY DEF IInv, TypeOK
  <2>2. CASE txs' = txs
    <3>1. work.pc = "receipt" => work.tx \in 1 .. Len(txs) /\ txs[work.tx].att = running
      <4>1. work.tx \in 0 .. Len(txs)
          BY <1>1, JobTypes DEF WorkType
      <4>2. Len(txs) \in Nat
          BY <2>1
      <4> QED
          BY <4>1, <4>2 DEF IInv, MintsAreTracked
    <3> QED
        BY <1>1, <2>2, <3>1, SMTT(30) DEF NotesMove, IInv, MintsAreTracked
  <2>3. CASE txs' # txs
    <3>1. /\ txs' = Append(txs, [att |-> running, status |-> "sent"])
          /\ work'.pc = "finally" \/ (work'.pc = "receipt" /\ work'.tx = Len(txs) + 1)
        BY <1>1, <2>3 DEF NotesMove
    <3>2. /\ Len(txs) \in Nat /\ Len(txs') = Len(txs) + 1
          /\ txs'[Len(txs) + 1] = [att |-> running, status |-> "sent"]
          /\ \A k \in 1 .. Len(txs) : txs'[k] = txs[k]
        BY <1>1, <2>1, <3>1
    <3> QED
        BY <1>1, <3>1, <3>2, SMTT(30) DEF IInv, MintsAreTracked
  <2> QED
    BY <2>2, <2>3
<1>5. AttestationKeptUntilMinted' /\ DiskIsPending'
    BY <1>1 DEF NotesMove, IInv, AttestationKeptUntilMinted, DiskIsPending, MintsAreTracked
<1>6. NothingPendingLikeIt' /\ NoSecondNote'
    BY <1>1, SMTT(30) DEF NotesMove, IInv, NothingPendingLikeIt, NoSecondNote, SamePayment,
                DiskIsPending
<1>7. OpenJobIsInOrder' /\ RunningJobIsKnown'
    BY <1>1 DEF JobEffect, IInv, RunningJobIsKnown
<1>8. SettledJobsTellTheTruth'
  <2> SUFFICES ASSUME NEW id \in Range(jobs) \ {running}
               PROVE  /\ job'[id].status \in {"minted", "refused", "error"}
                      /\ \A s \in StepKey : job'[id].steps[s] \notin {"pending", "running"}
                      /\ job'[id].status = "minted" => id \in minted
                      /\ job'[id].status = "refused" => id \notin gateway'.accepted
                      /\ job'[id].resumable => id \in pendingMints' \cap gateway'.accepted
    BY <1>1 DEF SettledJobsTellTheTruth
  <2>1. id \in JobId /\ id # running
    BY JobsAreIds DEF IInv, TypeOK
  <2>2. job'[id] = job[id]
    BY <1>1, <2>1 DEF JobEffect
  <2> QED
    BY <1>1, <2>1, <2>2 DEF NotesMove, IInv, SettledJobsTellTheTruth
<1>9. ListedWhenFound' /\ SolanaPaysListed'
    BY <1>1 DEF NotesMove, IInv, ListedWhenFound, SolanaPaysListed, me
<1> QED
    BY <1>2, <1>3, <1>4, <1>5, <1>6, <1>7, <1>8, <1>9 DEF IInv

LEMMA TxsType ==
    ASSUME IInv
    PROVE  /\ txs \in Seq([att : JobId, status : {"sent", "success", "reverted"}])
           /\ Len(txs) \in Nat
<1>1. txs \in Seq([att : JobId, status : {"sent", "success", "reverted"}])
    BY DEF IInv, TypeOK
<1> QED
    BY <1>1

LEMMA NoWorkType ==
    ASSUME IInv
    PROVE  /\ NoWork.pc = "idle" /\ NoWork.answer = "none"
           /\ NoWork \in WorkType
           /\ \A pc \in {"evm", "solana", "mint", "finally"} :
                 LET w == [NoWork EXCEPT !.pc = pc] IN w \in WorkType /\ w.pc = pc
<1>1. Len(txs) \in Nat /\ MaxRetries \in Nat
    BY TxsType, SendAssumption
<1>2. 0 \in 0 .. Len(txs) /\ 0 \in 0 .. MaxRetries
    BY <1>1
<1> QED
    BY <1>2 DEF NoWork, WorkType

LEMMA FinallyKeeps ==
    ASSUME IInv, Finally
    PROVE  IInv'
<1>1. /\ running # None /\ work.pc = "finally" /\ running' = None /\ work' = NoWork
      /\ UNCHANGED <<onchain, frost, changes, policyCache, jobs, client, order,
                     crashes, gateway, txs, minted, disk, pendingMints, recorded>>
    BY DEF Finally
<1>2. NoWork.pc = "idle" /\ NoWork \in WorkType
    BY NoWorkType
<1>3. TypeOK' /\ RequestTypes'
    BY <1>1, <1>2, FinallyEffect DEF IInv, TypeOK, RequestTypes, WorkType, JobType
<1>4. /\ IdsWereDealt' /\ MintsAreTracked' /\ AttestationKeptUntilMinted'
      /\ DiskIsPending' /\ NothingPendingLikeIt' /\ NoSecondNote'
  <2>1. IdsWereDealt' /\ AttestationKeptUntilMinted' /\ DiskIsPending'
    BY <1>1, <1>2 DEF IInv, IdsWereDealt, Dealt, DiskIsPending, AttestationKeptUntilMinted
  <2>2. MintsAreTracked'
    BY <1>1, <1>2 DEF IInv, MintsAreTracked
  <2>3. NothingPendingLikeIt' /\ NoSecondNote'
    BY <1>1, <1>2 DEF IInv, NothingPendingLikeIt, NoSecondNote, SamePayment
  <2> QED
    BY <2>1, <2>2, <2>3
<1>5. OpenJobIsInOrder' /\ RunningJobIsKnown' /\ ListedWhenFound' /\ SolanaPaysListed'
    BY <1>1, <1>2 DEF IInv, OpenJobIsInOrder, RunningJobIsKnown, ListedWhenFound,
           SolanaPaysListed
<1>6. SettledJobsTellTheTruth'
  <2> SUFFICES ASSUME NEW id \in Range(jobs)
               PROVE  /\ job'[id].status \in {"minted", "refused", "error"}
                      /\ \A s \in StepKey : job'[id].steps[s] \notin {"pending", "running"}
                      /\ job'[id].status = "minted" => id \in minted
                      /\ job'[id].status = "refused" => id \notin gateway.accepted
                      /\ job'[id].resumable => id \in pendingMints \cap gateway.accepted
    BY <1>1 DEF SettledJobsTellTheTruth
  <2>1. id \in JobId
    BY JobsAreIds DEF IInv, TypeOK
  <2>2. CASE id = running
    BY <1>1, <2>2, JobTypes, FinallyEffect DEF OpenJob, IInv, IdsWereDealt
  <2>3. CASE id # running
    BY <2>1, <2>3, FinallyEffect DEF IInv, SettledJobsTellTheTruth
  <2> QED
    BY <2>2, <2>3
<1> QED
    BY <1>3, <1>4, <1>5, <1>6 DEF IInv

-----------------------------------------------------------------------------
(* The requests, the treasury and the chain keep it.                       *)

\* What the job and the notes rest on.
jobState == <<gateway, minted, disk, jobs, job, pendingMints, running, work, order,
              recorded>>

LEMMA JobStateKeeps ==
    ASSUME IInv, UNCHANGED jobState, UNCHANGED txs,
           TypeOK', RequestTypes', ListedWhenFound'
    PROVE  IInv'
<1>1. /\ IdsWereDealt' /\ MintsAreTracked' /\ AttestationKeptUntilMinted'
      /\ DiskIsPending' /\ NothingPendingLikeIt' /\ NoSecondNote'
    BY SMTT(30) DEF jobState, IInv, IdsWereDealt, Dealt, MintsAreTracked, DiskIsPending,
           AttestationKeptUntilMinted, NothingPendingLikeIt, NoSecondNote, SamePayment
<1>2. /\ OpenJobIsInOrder' /\ RunningJobIsKnown' /\ SolanaPaysListed'
      /\ SettledJobsTellTheTruth'
    BY DEF jobState, IInv, OpenJobIsInOrder, OpenJob, RunningJobIsKnown,
           SolanaPaysListed, SettledJobsTellTheTruth
<1> QED
    BY <1>1, <1>2 DEF IInv

LEMMA RequestKeeps ==
    ASSUME IInv, NEW c \in Client,
           \/ ReadPolicy(c) \/ ReadLimits(c) \/ ReadAllowlist(c) \/ ReadBalances(c)
           \/ RequestFails(c) \/ RejectSend(c) \/ \E req \in Request : Post(c, req)
    PROVE  IInv'
<1>1. /\ UNCHANGED jobState /\ UNCHANGED <<onchain, frost, changes, crashes, txs>>
      /\ client \in [Client -> ClientType]
    BY DEF ReadPolicy, ReadLimits, ReadAllowlist, ReadBalances, RequestFails,
           RejectSend, Post, jobState, IInv, RequestTypes
<1>2. TypeOK'
    BY <1>1 DEF jobState, IInv, TypeOK
<1>3. \E r \in ClientType :
         /\ client' = [client EXCEPT ![c] = r]
         /\ r.pc # "idle" => r.req \in Request
         /\ r.req.recipient \in onchain.allowed => r.listed
         /\ r.allowlisted => r.listed
         /\ policyCache' \in PolicyType
  <2>1. CASE ReadPolicy(c) \/ ReadLimits(c) \/ ReadAllowlist(c) \/ ReadBalances(c)
    <3>1. client[c].pc # "idle" /\ client[c].req \in Request
        BY <2>1 DEF ReadPolicy, ReadLimits, ReadAllowlist, ReadBalances, IInv, RequestTypes
    <3>2. /\ client[c].req.recipient \in onchain.allowed => client[c].listed
          /\ client[c].allowlisted => client[c].listed
        BY DEF IInv, ListedWhenFound
    <3>3. PICK r \in ClientType :
             /\ client' = [client EXCEPT ![c] = r]
             /\ r.req = client[c].req
             /\ r.listed = client[c].listed
             /\ \/ r.allowlisted = client[c].allowlisted
                \/ r.allowlisted => r.req.recipient \in onchain.allowed
             /\ policyCache' \in PolicyType
        BY <2>1, <3>1, RequestStepEffect
    <3> QED
        BY <3>1, <3>2, <3>3
  <2>2. CASE RequestFails(c) \/ RejectSend(c)
    <3>1. /\ client' = [client EXCEPT ![c] = Idle]
          /\ policyCache' = policyCache
        BY <2>2 DEF RequestFails, RejectSend
    <3>2. None \notin onchain.allowed
        BY SendAssumption DEF IInv, TypeOK
    <3>3. NoRequest.recipient = None
        BY DEF NoRequest
    <3> HIDE DEF None
    <3> QED
        BY <3>1, <3>2, <3>3, IdleType DEF IInv, RequestTypes
  <2>3. CASE \E req \in Request : Post(c, req)
    <3>1. PICK req \in Request : Post(c, req)
        BY <2>3
    <3> DEFINE b == req.recipient \in onchain.allowed
               r == [Idle EXCEPT !.pc = "policy", !.req = req, !.listed = b]
    <3>2. client' = [client EXCEPT ![c] = r] /\ policyCache' = policyCache
        BY <3>1 DEF Post
    <3>3. b \in BOOLEAN /\ (b <=> req.recipient \in onchain.allowed)
        BY MembershipIsBoolean
    <3> HIDE DEF b
    <3>4. /\ r \in ClientType /\ r.req = req /\ r.listed = b /\ ~r.allowlisted
        BY <3>3, IdleType DEF ClientType
    <3> HIDE DEF r
    <3> QED
        BY <3>2, <3>3, <3>4 DEF IInv, RequestTypes
  <2> QED
    BY <2>1, <2>2, <2>3
<1>4. PICK r \in ClientType :
         /\ client' = [client EXCEPT ![c] = r]
         /\ r.pc # "idle" => r.req \in Request
         /\ r.req.recipient \in onchain.allowed => r.listed
         /\ r.allowlisted => r.listed
         /\ policyCache' \in PolicyType
    BY <1>3
<1>5. /\ client' \in [Client -> ClientType] /\ client'[c] = r
      /\ \A d \in Client : d # c => client'[d] = client[d]
    BY <1>1, <1>4, ClientUpdate
<1>6. RequestTypes'
    BY <1>1, <1>4, <1>5 DEF jobState, IInv, RequestTypes
<1>7. ListedWhenFound'
    BY <1>1, <1>4, <1>5 DEF jobState, IInv, ListedWhenFound, me
<1> QED
    BY <1>1, <1>2, <1>6, <1>7, JobStateKeeps

LEMMA WorldKeeps ==
    ASSUME IInv,
           \/ \E config \in Config, allowed \in SUBSET Recipient :
                 ChangeTreasury(config, allowed)
           \/ RunDKG \/ ExpirePolicy
    PROVE  IInv'
<1>1. UNCHANGED jobState /\ UNCHANGED <<txs, crashes>>
    BY DEF ChangeTreasury, RunDKG, ExpirePolicy, jobState
<1>2. CASE \E config \in Config, allowed \in SUBSET Recipient :
              ChangeTreasury(config, allowed)
  <2>1. PICK config \in Config, allowed \in SUBSET Recipient :
              ChangeTreasury(config, allowed)
    BY <1>2
  <2>2. /\ onchain'.config = config /\ onchain'.allowed = allowed
        /\ changes < MaxChanges /\ changes' = changes + 1 /\ UNCHANGED frost
        /\ policyCache' = policyCache
    BY <2>1 DEF ChangeTreasury
  <2>3. changes' \in 0 .. MaxChanges
    <3>1. changes \in 0 .. MaxChanges /\ MaxChanges \in Nat
        BY SendAssumption DEF IInv, TypeOK
    <3> QED
        BY <2>2, <3>1
  <2>4. TypeOK'
    BY <1>1, <2>2, <2>3 DEF jobState, IInv, TypeOK
  <2>5. \A c \in Client :
           /\ client'[c] \in ClientType
           /\ client'[c].pc = client[c].pc /\ client'[c].req = client[c].req
           /\ client'[c].allowlisted = client[c].allowlisted
           /\ client'[c].listed <=>
                 (client[c].listed \/ client[c].req.recipient \in allowed)
    <3> TAKE c \in Client
    <3> DEFINE b == client[c].listed \/ client[c].req.recipient \in allowed
    <3>1. client'[c] = [client[c] EXCEPT !.listed = b]
        BY <2>1 DEF ChangeTreasury
    <3>2. client[c] \in ClientType
        BY DEF IInv, RequestTypes
    <3>3. b \in BOOLEAN /\ (b <=> client[c].listed \/ client[c].req.recipient \in allowed)
        BY <3>2 DEF ClientType
    <3> HIDE DEF b
    <3> QED
        BY <3>1, <3>2, <3>3 DEF ClientType
  <2>6. client' \in [Client -> ClientType]
    <3>1. client' = [c \in Client |-> client'[c]]
        BY <2>1 DEF ChangeTreasury
    <3> QED
        BY <2>5, <3>1
  <2>7. RequestTypes'
    BY <1>1, <2>2, <2>5, <2>6 DEF jobState, IInv, RequestTypes
  <2>8. ListedWhenFound'
    BY <1>1, <2>2, <2>5 DEF jobState, IInv, ListedWhenFound, me
  <2> QED
    BY <1>1, <2>4, <2>7, <2>8, JobStateKeeps
<1>3. CASE RunDKG
  <2>1. changes' \in 0 .. MaxChanges
    <3>1. changes \in 0 .. MaxChanges /\ MaxChanges \in Nat
        BY SendAssumption DEF IInv, TypeOK
    <3> QED
        BY <1>3, <3>1 DEF RunDKG
  <2>2. frost' = onchain.config /\ UNCHANGED <<onchain, client, policyCache>>
    BY <1>3 DEF RunDKG
  <2>3. TypeOK'
    BY <1>1, <2>1, <2>2 DEF jobState, IInv, TypeOK
  <2>4. RequestTypes' /\ ListedWhenFound'
    BY <1>1, <2>2 DEF jobState, IInv, RequestTypes, ListedWhenFound, me
  <2> QED
    BY <1>1, <2>3, <2>4, JobStateKeeps
<1>4. CASE ExpirePolicy
  <2>1. policyCache' = NoPolicy /\ UNCHANGED <<onchain, frost, changes, client>>
    BY <1>4 DEF ExpirePolicy
  <2>2. TypeOK'
    BY <1>1, <2>1 DEF jobState, IInv, TypeOK
  <2>3. RequestTypes' /\ ListedWhenFound'
    BY <1>1, <2>1, IdleType DEF jobState, IInv, RequestTypes, ListedWhenFound, me
  <2> QED
    BY <1>1, <2>2, <2>3, JobStateKeeps
<1> QED
    BY <1>2, <1>3, <1>4

\* Mining settles a transaction; what was minted stays minted.
LEMMA MineKeeps ==
    ASSUME IInv, NEW k \in 1 .. Len(txs), Mine(k)
    PROVE  IInv'
<1> DEFINE Tx == [att : JobId, status : {"sent", "success", "reverted"}]
<1>1. txs \in Seq(Tx) /\ Len(txs) \in Nat /\ txs[k] \in Tx /\ txs[k].att \in JobId
  <2>1. txs \in Seq(Tx) /\ Len(txs) \in Nat
    BY TxsType
  <2>2. txs[k] \in Tx
    <3> HIDE DEF Tx
    <3> QED
        BY <2>1
  <2> QED
    BY <2>1, <2>2
<1>2. /\ UNCHANGED <<onchain, frost, changes, gateway, disk, policyCache, jobs, job,
                     pendingMints, running, work, client, order, recorded, crashes>>
      /\ txs[k].status = "sent"
    BY DEF Mine
<1>3. PICK st \in {"success", "reverted"} :
         /\ txs' = [txs EXCEPT ![k].status = st]
         /\ minted' = IF st = "success" THEN minted \cup {txs[k].att} ELSE minted
    BY DEF Mine
<1>4. PICK t \in Tx : /\ txs' = [txs EXCEPT ![k] = t]
                      /\ t.att = txs[k].att /\ t.status = st
  <2> DEFINE t == [txs[k] EXCEPT !.status = st]
  <2>1. t \in Tx /\ t.att = txs[k].att /\ t.status = st
    BY <1>1
  <2>2. txs' = [txs EXCEPT ![k] = t]
    BY <1>3
  <2> HIDE DEF t, Tx
  <2> QED
    BY <2>1, <2>2
<1> HIDE DEF Tx
<1>5. /\ txs' \in Seq(Tx) /\ Len(txs') = Len(txs)
      /\ txs'[k].att = txs[k].att /\ txs'[k].status = st
      /\ \A i \in 1 .. Len(txs) : i # k => txs'[i] = txs[i]
    BY <1>1, <1>4
<1>6. minted \subseteq minted' /\ minted' \subseteq JobId
    BY <1>1, <1>3 DEF IInv, TypeOK
<1>7. TypeOK' /\ RequestTypes'
    BY <1>2, <1>5, <1>6 DEF IInv, TypeOK, RequestTypes, Tx
<1>8. MintsAreTracked'
  <2>1. \A i \in 1 .. Len(txs') : txs'[i].status = "success" => txs'[i].att \in minted'
    BY <1>3, <1>5, <1>6 DEF IInv, MintsAreTracked
  <2>2. work.pc = "receipt" => work.tx # 0 /\ txs'[work.tx].att = running
    <3>1. work.tx \in 0 .. Len(txs)
        BY DEF IInv, TypeOK
    <3>2. work.tx # 0 => work.tx \in 1 .. Len(txs) /\ txs'[work.tx].att = txs[work.tx].att
        BY <1>1, <1>5, <3>1
    <3> QED
        BY <3>2 DEF IInv, MintsAreTracked
  <2> QED
    BY <1>2, <1>6, <2>1, <2>2 DEF IInv, MintsAreTracked
<1>9. /\ IdsWereDealt' /\ AttestationKeptUntilMinted'
      /\ DiskIsPending' /\ NothingPendingLikeIt' /\ NoSecondNote'
    BY <1>2, <1>6, SMTT(30) DEF IInv, IdsWereDealt, Dealt, DiskIsPending,
           AttestationKeptUntilMinted, NothingPendingLikeIt, NoSecondNote, SamePayment
<1>10. /\ OpenJobIsInOrder' /\ RunningJobIsKnown' /\ SolanaPaysListed'
       /\ SettledJobsTellTheTruth'
    BY <1>2, <1>6 DEF IInv, OpenJobIsInOrder, OpenJob, RunningJobIsKnown,
           SolanaPaysListed, SettledJobsTellTheTruth
<1>11. ListedWhenFound'
    BY <1>2 DEF IInv, ListedWhenFound, me
<1> QED
    BY <1>7, <1>8, <1>9, <1>10, <1>11 DEF IInv

-----------------------------------------------------------------------------
(* Jobs start, are resumed, and are forgotten when the server stops.       *)

LEMMA RestartKeeps ==
    ASSUME IInv, Restart
    PROVE  IInv'
<1>1. /\ pendingMints' = disk /\ policyCache' = NoPolicy /\ running' = None
      /\ jobs' = <<>> /\ work' = NoWork
      /\ UNCHANGED <<onchain, frost, changes, gateway, txs, minted, disk, order, recorded>>
      /\ crashes' = crashes + 1 /\ crashes < MaxCrashes
    BY DEF Restart
<1>2. job' \in [JobId -> JobType]
  <2>1. NoJob \in JobType
    <3>1. Steps("pending", "pending", "pending") \in [StepKey -> StepState]
        BY DEF Steps
    <3> QED
        BY <3>1 DEF NoJob, JobType
  <2> QED
    BY <2>1 DEF Restart
<1>3. /\ client' \in [Client -> ClientType]
      /\ \A c \in Client : client'[c] = Idle
    BY IdleType DEF Restart
<1>4. crashes' \in 0 .. MaxCrashes
  <2>1. crashes \in 0 .. MaxCrashes /\ MaxCrashes \in Nat
    BY SendAssumption DEF IInv, TypeOK
  <2> QED
    BY <1>1, <2>1
<1>5. Range(jobs') = {} /\ jobs' \in Seq(JobId)
    BY <1>1 DEF Range
<1>6. TypeOK'
    BY <1>1, <1>2, <1>4, <1>5, NoWorkType DEF IInv, TypeOK, JobType, WorkType
<1>7. RequestTypes'
    BY <1>1, <1>3, IdleType DEF IInv, RequestTypes
<1>8. /\ IdsWereDealt' /\ MintsAreTracked' /\ AttestationKeptUntilMinted'
      /\ DiskIsPending' /\ NothingPendingLikeIt' /\ NoSecondNote'
    BY <1>1, NoWorkType DEF IInv, IdsWereDealt, Dealt, MintsAreTracked, DiskIsPending,
           AttestationKeptUntilMinted, NothingPendingLikeIt, NoSecondNote, SamePayment
<1>9. OpenJobIsInOrder' /\ RunningJobIsKnown' /\ SettledJobsTellTheTruth'
    BY <1>1, <1>5 DEF OpenJobIsInOrder, RunningJobIsKnown, SettledJobsTellTheTruth
<1>10. ListedWhenFound' /\ SolanaPaysListed'
  <2>1. None \notin onchain.allowed /\ NoRequest.recipient = None
    BY SendAssumption DEF IInv, TypeOK, NoRequest
  <2> HIDE DEF None
  <2> QED
    BY <1>1, <1>3, <2>1, IdleType, NoWorkType DEF IInv, ListedWhenFound, SolanaPaysListed
<1> QED
    BY <1>6, <1>7, <1>8, <1>9, <1>10 DEF IInv

LEMMA ResumeKeeps ==
    ASSUME IInv, NEW id \in JobId, resumeMint(id)
    PROVE  IInv'
<1>1. /\ id \in pendingMints /\ running = None /\ running' = id
      /\ work' = [NoWork EXCEPT !.pc = "mint"]
      /\ jobs' = IF id \in Range(jobs) THEN jobs ELSE Append(jobs, id)
      /\ UNCHANGED <<onchain, frost, changes, gateway, txs, minted, disk, policyCache,
                     pendingMints, client, order, recorded, crashes>>
    BY DEF resumeMint
<1>2. /\ jobs \in Seq(JobId) /\ job \in [JobId -> JobType] /\ id # None
      /\ id \in gateway.accepted /\ id \in Dealt
    BY <1>1, SendAssumption DEF IInv, TypeOK, JobType, IdsWereDealt
<1>3. work'.pc = "mint" /\ work' \in WorkType
    BY <1>1, NoWorkType
<1>4. jobs' \in Seq(JobId) /\ Range(jobs') = Range(jobs) \cup {id}
  <2>1. CASE id \in Range(jobs)
    BY <1>1, <1>2, <2>1
  <2>2. CASE id \notin Range(jobs)
    BY <1>1, <1>2, <2>2, RangeAppend
  <2> QED
    BY <2>1, <2>2
<1>5. /\ job' \in [JobId -> JobType]
      /\ \A i \in JobId : i # id => job'[i] = job[i]
      /\ job'[id].status = "running" /\ ~job'[id].resumable
      /\ job'[id].steps["approvals"] \notin {"pending", "running"}
      /\ job'[id].steps["attestation"] \notin {"pending", "running"}
  <2> DEFINE new == [NoJob EXCEPT !.steps = Steps("done", "done", "pending")]
             old == IF id \in Range(jobs) THEN job[id] ELSE new
             j == [old EXCEPT !.status = "running", !.resumable = FALSE,
                              !.steps["mint"] = "running"]
  <2>1. /\ new \in JobType
        /\ new.steps["approvals"] = "done" /\ new.steps["attestation"] = "done"
    <3>1. /\ Steps("done", "done", "pending") \in [StepKey -> StepState]
          /\ Steps("done", "done", "pending")["approvals"] = "done"
          /\ Steps("done", "done", "pending")["attestation"] = "done"
        BY DEF Steps
    <3> QED
        BY <3>1 DEF NoJob, JobType
  <2>2. job' = [job EXCEPT ![id] = j]
    BY <1>2 DEF resumeMint
  <2> HIDE DEF new
  <2>3. /\ old \in JobType
        /\ old.steps["approvals"] \notin {"pending", "running"}
        /\ old.steps["attestation"] \notin {"pending", "running"}
    BY <1>1, <1>2, <2>1 DEF IInv, SettledJobsTellTheTruth
  <2> HIDE DEF old
  <2>4. /\ j \in JobType /\ j.status = "running" /\ ~j.resumable
        /\ j.steps["approvals"] = old.steps["approvals"]
        /\ j.steps["attestation"] = old.steps["attestation"]
    BY <2>3 DEF JobType
  <2> HIDE DEF j
  <2> QED
    BY <1>2, <2>2, <2>3, <2>4
<1>6. TypeOK' /\ RequestTypes'
    BY <1>1, <1>3, <1>4, <1>5 DEF IInv, TypeOK, RequestTypes, JobType, WorkType
<1>7. /\ IdsWereDealt' /\ MintsAreTracked' /\ AttestationKeptUntilMinted'
      /\ DiskIsPending' /\ NothingPendingLikeIt' /\ NoSecondNote'
    BY <1>1, <1>2, <1>3 DEF IInv, IdsWereDealt, Dealt, MintsAreTracked, DiskIsPending,
           AttestationKeptUntilMinted, NothingPendingLikeIt, NoSecondNote, SamePayment
<1>8. OpenJobIsInOrder' /\ RunningJobIsKnown'
    BY <1>1, <1>3, <1>4, <1>5 DEF OpenJobIsInOrder, OpenJob, RunningJobIsKnown
<1>9. SettledJobsTellTheTruth'
  <2> SUFFICES ASSUME NEW i \in Range(jobs') \ {running'}
               PROVE  /\ job'[i].status \in {"minted", "refused", "error"}
                      /\ \A s \in StepKey : job'[i].steps[s] \notin {"pending", "running"}
                      /\ job'[i].status = "minted" => i \in minted'
                      /\ job'[i].status = "refused" => i \notin gateway'.accepted
                      /\ job'[i].resumable => i \in pendingMints' \cap gateway'.accepted
    BY DEF SettledJobsTellTheTruth
  <2>1. i \in Range(jobs) \ {running} /\ i \in JobId /\ i # id
    BY <1>1, <1>2, <1>4, SendAssumption, JobsAreIds
  <2>2. job'[i] = job[i]
    BY <1>5, <2>1
  <2> QED
    BY <1>1, <2>1, <2>2 DEF IInv, SettledJobsTellTheTruth
<1>10. ListedWhenFound' /\ SolanaPaysListed'
    BY <1>1, <1>3 DEF IInv, ListedWhenFound, SolanaPaysListed
<1> QED
    BY <1>6, <1>7, <1>8, <1>9, <1>10 DEF IInv

\* validateSend settles on a position or throws.
LEMMA SourceIsPosition ==
    ASSUME NEW req \in Request, NEW pol, NEW a, NEW shares,
           NEW balances \in [Position -> Nat]
    PROVE  validateSend(req, pol, a, balances, shares) \in Position \cup {"none"}
<1>1. pickSource(balances, req.value, pol.cap) \in Position \cup {"none"}
  <2> DEFINE can == {p \in Position : /\ p = "evm" => req.value <= pol.cap
                                      /\ balances[p] >= req.value + Fee[p]}
  <2>1. can \subseteq Position
    OBVIOUS
  <2>2. pickSource(balances, req.value, pol.cap) =
           IF can = {} THEN "none"
           ELSE IF "evm" \in can /\ \A p \in can : balances["evm"] >= balances[p]
                THEN "evm"
                ELSE CHOOSE p \in can : \A q \in can : balances[p] >= balances[q]
    BY DEF pickSource
  <2> HIDE DEF can
  <2>3. can # {} => \E p \in can : \A q \in can : balances[p] >= balances[q]
    <3>1. balances["evm"] \in Nat /\ balances["solana"] \in Nat
        OBVIOUS
    <3>2. CASE balances["evm"] >= balances["solana"]
      <4>1. CASE "evm" \in can
        <5>1. \A q \in Position : balances["evm"] >= balances[q]
            BY <3>1, <3>2
        <5> QED
            BY <2>1, <4>1, <5>1
      <4>2. CASE "evm" \notin can
        <5>1. can \subseteq {"solana"} /\ balances["solana"] >= balances["solana"]
            BY <2>1, <3>1, <4>2
        <5> QED
            BY <5>1
      <4> QED
          BY <4>1, <4>2
    <3>3. CASE ~(balances["evm"] >= balances["solana"])
      <4>1. CASE "solana" \in can
        <5>1. \A q \in Position : balances["solana"] >= balances[q]
            BY <3>1, <3>3
        <5> QED
            BY <2>1, <4>1, <5>1
      <4>2. CASE "solana" \notin can
        <5>1. can \subseteq {"evm"} /\ balances["evm"] >= balances["evm"]
            BY <2>1, <3>1, <4>2
        <5> QED
            BY <5>1
      <4> QED
          BY <4>1, <4>2
    <3> QED
        BY <3>2, <3>3
  <2> QED
    BY <2>1, <2>2, <2>3
<1>2. req.source \in Position \cup {"auto"}
    BY SendAssumption
<1> QED
    BY <1>1, <1>2 DEF validateSend

LEMMA VerdictOf ==
    ASSUME NEW w \in [Owner -> Nat], NEW S \in SUBSET Owner, NEW t \in Nat
    PROVE  (Weight(w, S) >= t) \in Verdict
BY SMT DEF Verdict

LEMMA StartKeeps ==
    ASSUME IInv, NEW c \in Client, NEW id \in JobId, StartSend(c, id)
    PROVE  IInv'
<1> DEFINE r == client[c]
           source == Source(c)
           refused == source = "solana" /\ ~r.allowlisted
           o == order'[id]
<1>1. /\ r.pc = "decide" /\ source # "none" /\ running = None /\ running' = id
      /\ order[id] = NoOrder
      /\ \A i \in pendingMints :
            ~(order[i].recipient = r.req.recipient /\ order[i].value = r.req.value)
      /\ jobs' = keepJobs(Append(jobs, id))
      /\ work' = [NoWork EXCEPT !.pc = IF refused THEN "finally" ELSE source]
      /\ client' = [client EXCEPT ![c] = Idle]
      /\ UNCHANGED <<onchain, frost, changes, gateway, txs, minted, disk, policyCache,
                     pendingMints, recorded, crashes>>
    BY DEF StartSend, MayStart, assertNoPendingMint
<1>2. /\ jobs \in Seq(JobId) /\ job \in [JobId -> JobType] /\ id # None
      /\ r \in ClientType /\ r.req \in Request /\ order \in [JobId -> OrderType]
      /\ client \in [Client -> ClientType]
    BY <1>1, SendAssumption DEF IInv, TypeOK, JobType, RequestTypes
<1>3. source \in Position
  <2>1. r.balances \in [Position -> Nat]
    BY <1>2 DEF ClientType
  <2>2. source \in Position \cup {"none"}
    BY <1>2, <2>1, SourceIsPosition DEF Source
  <2> QED
    BY <1>1, <2>2
<1> HIDE DEF source
<1>4. /\ work'.pc = IF refused THEN "finally" ELSE source
      /\ work' \in WorkType
    BY <1>1, <1>3, NoWorkType
<1>5. /\ order' \in [JobId -> OrderType] /\ o # NoOrder
      /\ o.recipient = r.req.recipient /\ o.value = r.req.value
      /\ o.source = source
      /\ (o.allowlisted <=> r.allowlisted) /\ (o.listed <=> r.listed)
      /\ \A i \in JobId : i # id => order'[i] = order[i]
  <2> DEFINE q == Weight(r.pol.weights, r.req.signers) >= r.pol.threshold
             new == [recipient |-> r.req.recipient, value |-> r.req.value,
                     source |-> source, signers |-> r.req.signers,
                     allowlisted |-> r.allowlisted, quorate |-> q,
                     expectRefusal |-> r.req.expectRefusal, listed |-> r.listed]
  <2>1. order' = [order EXCEPT ![id] = new]
    BY DEF StartSend, source
  <2>2. q \in Verdict
    <3>1. /\ r.pol.weights \in [Owner -> Nat] /\ r.pol.threshold \in Nat
          /\ r.req.signers \in SUBSET Owner
        BY <1>2, SendAssumption DEF ClientType, PolicyType
    <3> QED
        BY <3>1, VerdictOf, Zenon
  <2> HIDE DEF q
  <2>3. /\ r.req.recipient \in Recipient /\ r.req.value \in Nat
        /\ r.req.signers \in SUBSET Owner /\ r.req.expectRefusal \in BOOLEAN
        /\ r.allowlisted \in BOOLEAN /\ r.listed \in BOOLEAN
        /\ r.req.recipient # None
    BY <1>2, SendAssumption, SMTT(30) DEF ClientType
  <2>4. new \in OrderType /\ new.recipient # NoOrder.recipient
    BY <1>3, <2>2, <2>3 DEF OrderType, NoOrder
  <2> QED
    BY <1>2, <2>1, <2>4
<1>6. /\ jobs' \in Seq(JobId) /\ id \in Range(jobs')
      /\ Range(jobs') \subseteq Range(jobs) \cup {id}
    BY <1>1, <1>2, KeepsNewest
<1>7. /\ job' \in [JobId -> JobType]
      /\ \A i \in Range(jobs') : i # id => job'[i] = job[i]
      /\ job'[id].status = IF refused THEN "refused" ELSE "running"
      /\ ~job'[id].resumable
      /\ job'[id].steps["approvals"] = IF refused THEN "failed" ELSE "running"
      /\ job'[id].steps["attestation"] = "pending" /\ job'[id].steps["mint"] = "pending"
  <2> DEFINE st == IF refused THEN "refused" ELSE "running"
             ap == IF refused THEN "failed" ELSE "running"
             j == [NoJob EXCEPT !.status = st, !.steps["approvals"] = ap]
  <2>1. /\ NoJob \in JobType /\ ~NoJob.resumable
        /\ NoJob.steps["attestation"] = "pending" /\ NoJob.steps["mint"] = "pending"
    <3>1. /\ Steps("pending", "pending", "pending") \in [StepKey -> StepState]
          /\ \A s \in StepKey : Steps("pending", "pending", "pending")[s] = "pending"
        BY DEF Steps
    <3> QED
        BY <3>1 DEF NoJob, JobType
  <2>2. job' = [i \in JobId |-> IF i = id THEN j
                                ELSE IF i \in Range(jobs') THEN job[i] ELSE NoJob]
    BY DEF StartSend, source
  <2>3. st \in {"refused", "running"} /\ ap \in {"failed", "running"}
    OBVIOUS
  <2> HIDE DEF st, ap
  <2>4. /\ j \in JobType /\ j.status = st /\ ~j.resumable
        /\ j.steps["approvals"] = ap
        /\ j.steps["attestation"] = "pending" /\ j.steps["mint"] = "pending"
    BY <2>1, <2>3 DEF JobType
  <2> HIDE DEF j
  <2>5. /\ job' \in [JobId -> JobType] /\ job'[id] = j
        /\ \A i \in Range(jobs') : i # id => job'[i] = job[i]
    BY <1>2, <1>6, <2>1, <2>2, <2>4, JobsAreIds
  <2> QED
    BY <2>4, <2>5 DEF st, ap
<1>8. /\ client' \in [Client -> ClientType] /\ client'[c] = Idle
      /\ \A d \in Client : d # c => client'[d] = client[d]
    BY <1>1, <1>2, IdleType, ClientUpdate
<1>9. TypeOK'
    BY <1>1, <1>4, <1>6, <1>7 DEF IInv, TypeOK, JobType, WorkType
<1>10. RequestTypes'
    BY <1>1, <1>5, <1>8, IdleType DEF IInv, RequestTypes
<1>11. id \notin gateway.accepted /\ id \notin pendingMints /\ id \notin disk
    BY <1>1 DEF IInv, IdsWereDealt, Dealt
<1>12. \A i \in gateway.accepted : i \in JobId /\ order'[i] = order[i]
    BY <1>5, <1>11 DEF IInv, TypeOK
<1>13. IdsWereDealt'
    BY <1>1, <1>2, <1>3, <1>4, <1>5, <1>12 DEF IInv, IdsWereDealt, Dealt
<1>14. MintsAreTracked' /\ AttestationKeptUntilMinted' /\ DiskIsPending'
    BY <1>1, <1>3, <1>4 DEF IInv, MintsAreTracked, AttestationKeptUntilMinted, DiskIsPending
<1>15. NothingPendingLikeIt' /\ NoSecondNote'
    BY <1>1, <1>5, <1>12 DEF IInv, IdsWereDealt, NothingPendingLikeIt, NoSecondNote,
           SamePayment
<1>16. OpenJobIsInOrder' /\ RunningJobIsKnown'
    BY <1>1, <1>3, <1>4, <1>6, <1>7, <1>11 DEF OpenJobIsInOrder, OpenJob, RunningJobIsKnown
<1>17. SettledJobsTellTheTruth'
  <2> SUFFICES ASSUME NEW i \in Range(jobs') \ {running'}
               PROVE  /\ job'[i].status \in {"minted", "refused", "error"}
                      /\ \A s \in StepKey : job'[i].steps[s] \notin {"pending", "running"}
                      /\ job'[i].status = "minted" => i \in minted'
                      /\ job'[i].status = "refused" => i \notin gateway'.accepted
                      /\ job'[i].resumable => i \in pendingMints' \cap gateway'.accepted
    BY DEF SettledJobsTellTheTruth
  <2>1. i \in Range(jobs) \ {running} /\ job'[i] = job[i]
    BY <1>1, <1>2, <1>6, <1>7, SendAssumption, JobsAreIds
  <2> QED
    BY <1>1, <2>1 DEF IInv, SettledJobsTellTheTruth
<1>18. ListedWhenFound'
  <2>1. None \notin onchain.allowed /\ NoRequest.recipient = None
    BY SendAssumption DEF IInv, TypeOK, NoRequest
  <2>2. \A d \in Client :
           /\ client'[d].req.recipient \in onchain.allowed => client'[d].listed
           /\ client'[d].allowlisted => client'[d].listed
    <3> HIDE DEF None
    <3> QED
        BY <1>8, <2>1, IdleType DEF IInv, ListedWhenFound
  <2>3. \A i \in JobId : order'[i].allowlisted => order'[i].listed
    BY <1>5 DEF IInv, ListedWhenFound
  <2>4. work'.pc \in {"evm", "solana", "post", "answer"} =>
           (o.source = "solana" => o.allowlisted)
    BY <1>4, <1>5
  <2> QED
    BY <1>1, <2>2, <2>3, <2>4 DEF ListedWhenFound, me
<1>19. SolanaPaysListed'
    BY <1>1, <1>12 DEF IInv, SolanaPaysListed
<1> QED
    BY <1>9, <1>10, <1>13, <1>14, <1>15, <1>16, <1>17, <1>18, <1>19 DEF IInv

-----------------------------------------------------------------------------
(* The theorems.                                                           *)

LEMMA InitHolds == Init => IInv
<1> SUFFICES ASSUME Init PROVE IInv
    OBVIOUS
<1>1. /\ onchain.config \in Config /\ onchain.allowed \subseteq Recipient
      /\ frost \in Config /\ gateway.accepted = {}
      /\ gateway.balance = [p \in Position |-> Funds]
      /\ txs = <<>> /\ minted = {} /\ disk = {} /\ pendingMints = {} /\ recorded = {}
      /\ policyCache = NoPolicy /\ jobs = <<>> /\ running = None /\ work = NoWork
      /\ crashes = 0 /\ changes = 0
      /\ job = [id \in JobId |-> NoJob]
      /\ client = [c \in Client |-> Idle]
      /\ order = [id \in JobId |-> NoOrder]
    BY DEF Init
<1>2. job \in [JobId -> JobType]
  <2>1. Steps("pending", "pending", "pending") \in [StepKey -> StepState]
    BY DEF Steps
  <2>2. NoJob \in JobType
    BY <2>1 DEF NoJob, JobType
  <2> QED
    BY <1>1, <2>2
<1>3. /\ client \in [Client -> ClientType] /\ \A c \in Client : client[c] = Idle
    BY <1>1, IdleType
<1>4. NoOrder \in OrderType /\ ~NoOrder.allowlisted
    BY DEF NoOrder, OrderType
<1>5. order \in [JobId -> OrderType] /\ \A id \in JobId : ~order[id].allowlisted
    BY <1>1, <1>4
<1>6. Range(jobs) = {} /\ jobs \in Seq(JobId)
    BY <1>1 DEF Range
<1>7. /\ txs \in Seq([att : JobId, status : {"sent", "success", "reverted"}])
      /\ Len(txs) = 0
    BY <1>1
<1>8. /\ 0 \in 0 .. Len(txs) /\ 0 \in 0 .. MaxRetries
      /\ 0 \in 0 .. MaxCrashes /\ 0 \in 0 .. MaxChanges
    BY <1>7, SendAssumption
<1>9. work \in WorkType /\ work.pc = "idle"
    BY <1>1, <1>8 DEF NoWork, WorkType
<1>10. gateway.balance \in [Position -> Nat]
    BY <1>1, SendAssumption
<1>11. TypeOK
    BY <1>1, <1>2, <1>6, <1>7, <1>8, <1>9, <1>10 DEF TypeOK, JobType, WorkType
<1>12. RequestTypes
    BY <1>1, <1>3, <1>5, IdleType DEF RequestTypes
<1>13. /\ IdsWereDealt /\ MintsAreTracked /\ AttestationKeptUntilMinted
       /\ DiskIsPending /\ NothingPendingLikeIt /\ NoSecondNote
  <2>1. \A k \in 1 .. Len(txs) : FALSE
    BY <1>7
  <2> QED
    BY <1>1, <1>9, <2>1 DEF IdsWereDealt, MintsAreTracked, DiskIsPending,
           AttestationKeptUntilMinted, NothingPendingLikeIt, NoSecondNote
<1>14. OpenJobIsInOrder /\ RunningJobIsKnown /\ SettledJobsTellTheTruth
    BY <1>1, <1>6 DEF OpenJobIsInOrder, RunningJobIsKnown, SettledJobsTellTheTruth
<1>15. ListedWhenFound /\ SolanaPaysListed
  <2>1. None \notin onchain.allowed /\ NoRequest.recipient = None
    BY <1>1, SendAssumption DEF NoRequest
  <2> HIDE DEF None
  <2> QED
    BY <1>1, <1>3, <1>5, <1>9, <2>1, IdleType DEF ListedWhenFound, SolanaPaysListed
<1> QED
    BY <1>11, <1>12, <1>13, <1>14, <1>15 DEF IInv

LEMMA Stuttering ==
    ASSUME IInv, UNCHANGED vars
    PROVE  IInv'
<1>1. UNCHANGED jobState
      /\ UNCHANGED <<txs, onchain, frost, changes, policyCache, client, crashes>>
    BY DEF vars, jobState
<1>2. TypeOK' /\ RequestTypes' /\ ListedWhenFound'
    BY <1>1 DEF jobState, IInv, TypeOK, RequestTypes, ListedWhenFound, me
<1> QED
    BY <1>1, <1>2, JobStateKeeps

LEMMA NextHolds == IInv /\ [Next]_vars => IInv'
<1> SUFFICES ASSUME IInv, [Next]_vars PROVE IInv'
    OBVIOUS
<1>1. CASE JobStep
  <2>1. CASE At("finally")
    <3>1. Finally
        BY <1>1, <2>1 DEF JobStep, JobFails, ApproveEvm, ApproveSolana, GatewayAccepts,
               GatewayRefuses, Retry, Refused, Accepted, SubmitMint, SeeReceipt, Minted
    <3> QED
        BY <3>1, FinallyKeeps
  <2>2. CASE ~At("finally")
    BY <1>1, <2>2, WorkingKeeps DEF Working
  <2> QED
    BY <2>1, <2>2
<1>2. CASE \E c \in Client : RequestStep(c) \/ \E req \in Request : Post(c, req)
  <2>1. PICK c \in Client : RequestStep(c) \/ \E req \in Request : Post(c, req)
    BY <1>2
  <2>2. CASE \E id \in JobId : StartSend(c, id)
    BY <2>2, StartKeeps
  <2>3. CASE ~\E id \in JobId : StartSend(c, id)
    BY <2>1, <2>3, RequestKeeps DEF RequestStep
  <2> QED
    BY <2>2, <2>3
<1>3. CASE \E id \in JobId : resumeMint(id)
    BY <1>3, ResumeKeeps
<1>4. CASE \E k \in 1 .. Len(txs) : Mine(k)
    BY <1>4, MineKeeps
<1>5. CASE \/ \E config \in Config, allowed \in SUBSET Recipient :
                 ChangeTreasury(config, allowed)
           \/ RunDKG \/ ExpirePolicy
    BY <1>5, WorldKeeps
<1>6. CASE Restart
    BY <1>6, RestartKeeps
<1>7. CASE UNCHANGED vars
    BY <1>7, Stuttering
<1> QED
    BY <1>1, <1>2, <1>3, <1>4, <1>5, <1>6, <1>7 DEF Next

LEMMA Inductive == Spec => []IInv
BY InitHolds, NextHolds, PTL DEF Spec

\* The module state of send.ts and the world around it keep their types,
\* however the awaits of requests and of the job interleave.
THEOREM TypeCorrect == Spec => []TypeOK
<1>1. IInv => TypeOK
    BY DEF IInv
<1> QED
    BY <1>1, Inductive, PTL

\* An attestation once saved to ATTESTATION_DIR stays there until it is minted,
\* through every failure of the job, every resumeMint and every restart.
THEOREM AttestationsKept == Spec => []AttestationKeptUntilMinted
<1>1. IInv => AttestationKeptUntilMinted
    BY DEF IInv
<1> QED
    BY <1>1, Inductive, PTL

\* assertNoPendingMint does what it is for: the server never holds, in memory
\* or on disk, two unminted attestations for one payment.
THEOREM OneNotePerPayment == Spec => []NoSecondNote
<1>1. IInv => NoSecondNote
    BY DEF IInv
<1> QED
    BY <1>1, Inductive, PTL

\* Once track has run its handlers, the job the browser polls says what happened
\* to the money.
THEOREM JobsTellTheTruth == Spec => []SettledJobsTellTheTruth
<1>1. IInv => SettledJobsTellTheTruth
    BY DEF IInv
<1> QED
    BY <1>1, Inductive, PTL

\* The removal of the oldest job never removes the one that runs.
THEOREM RunningJobKnown == Spec => []RunningJobIsKnown
<1>1. IInv => RunningJobIsKnown
    BY DEF IInv
<1> QED
    BY <1>1, Inductive, PTL

\* A payment Gateway committed from the Solana vault goes to a payee the
\* treasury listed at some moment since the request came in.
THEOREM SolanaPaysTheListed == Spec => []SolanaPaysListed
<1>1. IInv => SolanaPaysListed
    BY DEF IInv
<1> QED
    BY <1>1, Inductive, PTL
=============================================================================
