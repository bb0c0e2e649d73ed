---------------------------- MODULE CircleSandbox ----------------------------
(***************************************************************************)
(* The mock Circle server (bundler, wallet registry, address mappings) and *)
(* the SDK flows that use it: opening a smart account, the EIP-1193        *)
(* eth_sendTransaction, and passkey recovery (executeRecovery).            *)
(*                                                                         *)
(* One smart account, one EntryPoint on anvil.  A server action is what a  *)
(* handler does between two awaits; requests interleave.  The hash of a    *)
(* user operation is its content: who prepared it and with which nonce.    *)
(***************************************************************************)
EXTENDS Naturals, Sequences, SequencesExt, FiniteSets

CONSTANTS Client,      \* wallet users, each running one flow at a time
          Recovering,  \* the clients whose flow is executeRecovery
          Req,         \* HTTP requests in flight
          MaxNonce,    \* operations that may be mined
          MaxFaults    \* lost answers and failing anvil calls

VARIABLES wallets, nextId,       \* owner -> wallet id (0: none), ids given
          addressMappings,       \* owners mapped to the account
          userOps, sendQueue,    \* bundler records; submissions in order
          req,                   \* requests being handled
          client,                \* SDK flows
          nonce, mined, owners,  \* EntryPoint nonce, mined ops, account owners
          faults

server == <<wallets, nextId, addressMappings, userOps, sendQueue>>
chain == <<nonce, mined, owners>>
vars == <<server, req, client, chain, faults>>

Hash == [nonce : 0..MaxNonce, by : Client]
NoOp == [nonce |-> MaxNonce, by |-> CHOOSE c \in Client : TRUE]
Request(label, op, c) ==
    [pc |-> label, op |-> op, by |-> c, ans |-> "none", id |-> 0,
     open |-> TRUE]    \* the connection its answer goes to
Free == Request("free", NoOp, NoOp.by)
Submitting == {"simulating", "writing", "receipt"}

Init ==
    /\ wallets = [c \in Client |-> 0] /\ nextId = 1 /\ addressMappings = {}
    /\ userOps = [h \in Hash |-> "none"] /\ sendQueue = <<>>
    /\ req = [r \in Req |-> Free]
    /\ client = [c \in Client |-> [pc |-> "closed", op |-> NoOp, ids |-> {}]]
    /\ nonce = 0 /\ mined = {} /\ owners = {} /\ faults = 0

\* c posts a request; its handler starts and runs to its first await.
Post(c, label, op) ==
    \E r \in Req : /\ req[r].pc = "free"
                   /\ req' = [req EXCEPT ![r] = Request(label, op, c)]
Answer(r, a) == req' = [req EXCEPT ![r].pc = "answered", ![r].ans = a]
To(c, label) == client' = [client EXCEPT ![c].pc = label]

-----------------------------------------------------------------------------
(* The server *)

knownWallet_stale(r) == 0
knownWallet(r) == wallets[req[r].by]

\* circle_getAddress after the factory's eth_call: one record per address.
circleGetAddress(r) ==
    /\ req[r].pc = "deriving"
    /\ LET c == req[r].by
           id == IF knownWallet(r) # 0 THEN knownWallet(r) ELSE nextId
       IN /\ wallets' = [wallets EXCEPT ![c] = id]
          /\ nextId' = IF id = nextId THEN nextId + 1 ELSE nextId
          /\ req' = [req EXCEPT ![r].pc = "answered", ![r].ans = "ok",
                                ![r].id = id]
    /\ UNCHANGED <<addressMappings, userOps, sendQueue, client, chain, faults>>

\* eth_sendUserOperation after getUserOpHash: refused when recorded and not
\* failed, otherwise queued behind every earlier submission.
ethSendUserOperation(r) ==
    /\ req[r].pc = "hashing"
    /\ IF userOps[req[r].op] = "included"
       THEN Answer(r, "error") /\ UNCHANGED sendQueue
       ELSE /\ sendQueue' = Append(sendQueue, r)
            /\ req' = [req EXCEPT ![r].pc = "queued"]
    /\ UNCHANGED <<wallets, nextId, addressMappings, userOps, client, chain,
                   faults>>

mayRun_atOnce(r) == TRUE
mayRun(r) == r = Head(sendQueue)

queueRuns(r) ==
    /\ req[r].pc = "queued" /\ mayRun(r)
    /\ req' = [req EXCEPT ![r].pc = "simulating"]
    /\ UNCHANGED <<server, client, chain, faults>>

leavesQueue_onSuccess(r) == IF req'[r].ans = "ok" THEN Remove(sendQueue, r)
                            ELSE sendQueue
leavesQueue(r) == Remove(sendQueue, r)

dryRunPassed(h) == UNCHANGED userOps

\* The dry run of handleOps: the EntryPoint refuses any other nonce.
simulateContract(r) ==
    /\ req[r].pc = "simulating"
    /\ LET h == req[r].op
       IN IF h.nonce = nonce
          THEN /\ req' = [req EXCEPT ![r].pc = "writing"]
               /\ dryRunPassed(h) /\ UNCHANGED sendQueue
          ELSE /\ userOps' = [userOps EXCEPT ![h] = "failed"]
               /\ Answer(r, "error") /\ sendQueue' = leavesQueue(r)
    /\ UNCHANGED <<wallets, nextId, addressMappings, client, chain, faults>>

\* anvil mines the bundle: addOwners of an owner it already has reverts
\* inside the operation, which is mined all the same.
writeContract(r) ==
    /\ req[r].pc = "writing"
    /\ req' = [req EXCEPT ![r].pc = "receipt"]
    /\ IF req[r].op.nonce = nonce /\ nonce < MaxNonce
       THEN /\ nonce' = nonce + 1 /\ mined' = mined \cup {req[r].op}
            /\ owners' = owners \cup ({req[r].op.by} \cap Recovering)
       ELSE UNCHANGED chain
    /\ UNCHANGED <<server, client, faults>>

waitForTransactionReceipt(r) ==
    /\ req[r].pc = "receipt"
    /\ LET h == req[r].op
           status == IF h \in mined THEN "included" ELSE "failed"
       IN /\ userOps' = [userOps EXCEPT ![h] = status]
          /\ Answer(r, IF status = "included" THEN "ok" ELSE "error")
    /\ sendQueue' = leavesQueue(r)
    /\ UNCHANGED <<wallets, nextId, addressMappings, client, chain, faults>>

\* anvil does not answer: a failed dry run is recorded, a failure after it is
\* not; the queue goes on either way.
anvilFails(r) ==
    /\ req[r].pc \in Submitting /\ faults < MaxFaults
    /\ faults' = faults + 1
    /\ userOps' = IF req[r].pc = "simulating"
                  THEN [userOps EXCEPT ![req[r].op] = "failed"] ELSE userOps
    /\ Answer(r, "error") /\ sendQueue' = leavesQueue(r)
    /\ UNCHANGED <<wallets, nextId, addressMappings, client, chain>>

-----------------------------------------------------------------------------
(* The SDK *)

\* toCircleSmartAccount resolves the address through circle_getAddress, here
\* from two tabs at once.
open(c) ==
    /\ client[c].pc = "closed"
    /\ \E r1, r2 \in Req :
          /\ r1 # r2 /\ req[r1].pc = "free" /\ req[r2].pc = "free"
          /\ req' = [req EXCEPT ![r1] = Request("deriving", NoOp, c),
                                ![r2] = Request("deriving", NoOp, c)]
    /\ To(c, "opening")
    /\ UNCHANGED <<server, chain, faults>>

opened(c) ==
    /\ client[c].pc = "opening"
    /\ \E r \in Req :
          /\ req[r].by = c /\ req[r].pc = "answered"
          /\ req' = [req EXCEPT ![r] = Free]
          /\ client' = [client EXCEPT
                ![c].ids = @ \cup {req[r].id},
                ![c].pc = IF \E t \in Req \ {r} : /\ req[t].by = c
                                                  /\ req[t].pc # "free"
                          THEN "opening" ELSE "ready"]
    /\ UNCHANGED <<server, chain, faults>>

proceeds(outcome) == outcome \in {"created", "alreadyKnown"}

\* executeRecovery first maps the new credential to the account; of the errors
\* only "already known" is ignored.  The mock answers a second mapping with the
\* existing row, Circle with that error; a lost answer may have been applied.
createAddressMapping(c) ==
    /\ client[c].pc = "ready" /\ c \in Recovering
    /\ \E outcome \in {"created", "alreadyKnown", "failed"} :
          /\ CASE outcome = "created" ->
                    addressMappings' = addressMappings \cup {c}
                    /\ UNCHANGED faults
               [] outcome = "alreadyKnown" ->
                    c \in addressMappings /\ UNCHANGED <<addressMappings, faults>>
               [] outcome = "failed" ->
                    /\ faults < MaxFaults /\ faults' = faults + 1
                    /\ addressMappings' \in {addressMappings,
                                             addressMappings \cup {c}}
          /\ To(c, IF proceeds(outcome) THEN "preparing" ELSE "ready")
    /\ UNCHANGED <<wallets, nextId, userOps, sendQueue, req, chain>>

\* viem reads the nonce, then estimates, sponsors and signs, then sends.
prepareUserOperation(c) ==
    /\ client[c].pc = IF c \in Recovering THEN "preparing" ELSE "ready"
    /\ nonce < MaxNonce
    /\ client' = [client EXCEPT ![c].pc = "signed",
                                ![c].op = [nonce |-> nonce, by |-> c]]
    /\ UNCHANGED <<server, req, chain, faults>>

sendUserOperation(c) ==
    /\ client[c].pc = "signed" /\ Post(c, "hashing", client[c].op)
    /\ To(c, "sent")
    /\ UNCHANGED <<server, chain, faults>>

\* The connection breaks: the transport posts the same operation again.
retries(c) ==
    /\ client[c].pc = "sent" /\ faults < MaxFaults /\ faults' = faults + 1
    /\ \E r, t \in Req :
          /\ req[r].by = c /\ req[r].open /\ req[r].pc # "free"
          /\ req[t].pc = "free"
          /\ req' = [req EXCEPT ![r].open = FALSE,
                                ![t] = Request("hashing", client[c].op, c)]
    /\ UNCHANGED <<server, client, chain>>

answered(c) ==
    /\ client[c].pc = "sent"
    /\ \E r \in Req :
          /\ req[r].by = c /\ req[r].pc = "answered" /\ req[r].open
          /\ To(c, IF req[r].ans = "ok" THEN "polling" ELSE "ready")
          /\ req' = [req EXCEPT ![r] = Free]
    /\ UNCHANGED <<server, chain, faults>>

\* waitForUserOperationReceipt: null unless the record says included.
ethGetUserOperationReceipt(c) ==
    /\ client[c].pc = "polling" /\ userOps[client[c].op] = "included"
    /\ client[c].op \in mined /\ To(c, "done")
    /\ UNCHANGED <<server, req, chain, faults>>

\* Nobody reads the answer of a connection that was given up.
forgotten(r) ==
    /\ req[r].pc = "answered" /\ ~req[r].open
    /\ req' = [req EXCEPT ![r] = Free]
    /\ UNCHANGED <<server, client, chain, faults>>

Handles(r) ==
    \/ circleGetAddress(r) \/ ethSendUserOperation(r) \/ queueRuns(r)
    \/ simulateContract(r) \/ writeContract(r) \/ waitForTransactionReceipt(r)
    \/ anvilFails(r)

Flows(c) ==
    \/ open(c) \/ opened(c) \/ createAddressMapping(c)
    \/ prepareUserOperation(c) \/ sendUserOperation(c) \/ retries(c)
    \/ answered(c) \/ ethGetUserOperationReceipt(c)

Next == \/ \E r \in Req : Handles(r) \/ forgotten(r)
        \/ \E c \in Client : Flows(c)
Spec == Init /\ [][Next]_vars /\ \A r \in Req : WF_vars(Handles(r))

-----------------------------------------------------------------------------
\* Type invariant.  The server's records and queue, the requests and the SDK flows.
TypeOK ==
    /\ wallets \in [Client -> 0..nextId] /\ addressMappings \subseteq Client
    /\ userOps \in [Hash -> {"none", "included", "failed"}]
    /\ nonce \in 0..MaxNonce /\ mined \subseteq Hash
    /\ owners \subseteq Recovering /\ faults \in 0..MaxFaults
    /\ \A r \in Req : /\ req[r].op \in Hash /\ req[r].by \in Client
                      /\ req[r].ans \in {"none", "ok", "error"}
    /\ \A r \in Req : req[r].pc \in Submitting \cup {"queued"}
                      => r \in ToSet(sendQueue)
    /\ \A c \in Client : client[c].op \in Hash

\* "stable id per owner set": however two lookups of one owner interleave,
\* both are told the same wallet record, and it is the one the registry keeps.
WalletIdIsStable ==
    \A c \in Client : client[c].ids \subseteq {wallets[c]}

\* The queue "serialises handleOps submissions so the bundler nonce never
\* races": between the dry run of an operation and its receipt no other
\* submission runs, so what the dry run accepted is mined.
OneSubmissionAtATime ==
    /\ \A r, t \in Req : req[r].pc \in Submitting /\ req[t].pc \in Submitting
                         => r = t
    /\ \A r \in Req : req[r].pc = "writing" => req[r].op.nonce = nonce

\* What a recorded or reported inclusion means: the operation is on chain, at
\* most one per nonce, and a finished recovery left its owner on the account.
InclusionIsReal ==
    /\ \A h \in Hash : userOps[h] = "included" => h \in mined
    /\ \A c \in Client : client[c].pc = "done" /\ c \in Recovering
                         => c \in owners
    /\ \A g, h \in mined : g.nonce = h.nonce => g = h

\* executeRecovery: an owner the chain knows can be looked up, whatever failed
\* and was tried again in between.
OwnersAreMapped == owners \subseteq addressMappings

\* A rejected submission does not stall the ones behind it: every request is
\* answered.
RequestsAreAnswered ==
    \A r \in Req : req[r].pc # "free" ~> req[r].pc \in {"free", "answered"}
=============================================================================
