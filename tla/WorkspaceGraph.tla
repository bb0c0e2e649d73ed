--------------------------- MODULE WorkspaceGraph ---------------------------
(***************************************************************************)
(* The subgraph of packages/subgraph-arc: identities (ERC-8004), ratings,  *)
(* escrow jobs (ERC-8183) and the joins between them.  Each action on the  *)
(* store is one event handler, run in log order; `load' gives a copy and   *)
(* `save' overwrites the whole entity.  The contracts that emit the events *)
(* are not in the repository: what they allow is marked external.  Amounts *)
(* are 0 or 1, so a volume is the count of its payments.                   *)
(***************************************************************************)
EXTENDS Naturals, Sequences, FiniteSets

CONSTANTS Agents, Wallets, Jobs, Ratings,
          None,                \* no entity, or a null field
          MaxChanges           \* events that change an identity

VARIABLES agent, binding, job, engagement, feedback,   \* the store
          commerce, registry,
          events,       \* logs of the current transaction still to index
          changes,      \* events that changed an identity
          claim         \* ghost: who set each wallet last

store == <<agent, binding, job, engagement, feedback, commerce, registry>>
vars == <<store, events, changes, claim>>

Edges == Agents \X Agents

NewAgent == [wallet |-> None, approved |-> FALSE, burned |-> FALSE,
             asClient |-> 0, asProvider |-> 0,
             settledClient |-> 0, settledProvider |-> 0, refunded |-> 0,
             active |-> 0, verified |-> 0, responses |-> 0]
NewEngagement == [jobs |-> 0, settled |-> 0, refunded |-> 0,
                  ratings |-> 0, verified |-> 0, last |-> None]

Init ==
    /\ agent = [a \in Agents |-> None] /\ binding = [w \in Wallets |-> None]
    /\ job = [j \in Jobs |-> None] /\ engagement = [e \in Edges |-> None]
    /\ feedback = [r \in Ratings |-> None]
    /\ commerce = [jobs |-> 0, settled |-> 0, refunded |-> 0]
    /\ registry = [agents |-> 0, unburned |-> 0, ratings |-> 0, active |-> 0,
                   responses |-> 0]
    /\ events = <<>> /\ changes = 0 /\ claim = [w \in Wallets |-> None]

Known(a) == agent[a] # None
\* A transaction starts once the logs of the one before are indexed.
NewTransaction == events = <<>>
Changes == changes < MaxChanges /\ changes' = changes + 1

-----------------------------------------------------------------------------
(* identity/identity-registry.ts *)

resolveAgentByWallet(w) == IF w = None THEN None ELSE binding[w]

handleRegistered(a) ==
    /\ NewTransaction /\ ~Known(a)
    /\ registry' = [registry EXCEPT !.agents = @ + 1, !.unburned = @ + 1]
    /\ agent' = [agent EXCEPT ![a] = NewAgent]
    /\ UNCHANGED <<binding, job, engagement, feedback, commerce, events,
                   changes, claim>>

unbindWallet_any(a, w, b) == IF w = None THEN b ELSE [b EXCEPT ![w] = None]
unbindWallet(a, w, b) == IF w # None /\ b[w] = a
                         THEN [b EXCEPT ![w] = None] ELSE b
bindWallet(a, w, b) == IF w = None THEN b ELSE [b EXCEPT ![w] = a]

rebound(a, w) == bindWallet(a, w, unbindWallet(a, agent[a].wallet, binding))

\* The key agentWallet; None is a cleared or malformed value.
handleMetadataSet(a, w) ==
    /\ NewTransaction /\ Known(a) /\ ~agent[a].burned
    /\ Changes
    /\ binding' = rebound(a, w)
    /\ agent' = [agent EXCEPT ![a].wallet = w]
    /\ claim' = IF w = None THEN claim ELSE [claim EXCEPT ![w] = a]
    /\ UNCHANGED <<job, engagement, feedback, commerce, registry, events>>

handleApproval(a, approved) ==
    /\ NewTransaction /\ Known(a) /\ ~agent[a].burned
    /\ agent[a].approved # approved /\ Changes
    /\ agent' = [agent EXCEPT ![a].approved = approved]
    /\ UNCHANGED <<binding, job, engagement, feedback, commerce, registry,
                   events, claim>>

\* Of a token that exists; the mint's Transfer is ignored by the handler.
handleTransfer(a, isBurn) ==
    /\ NewTransaction /\ Known(a) /\ ~agent[a].burned /\ Changes
    /\ binding' = unbindWallet(a, agent[a].wallet, binding)
    /\ agent' = [agent EXCEPT ![a].approved = FALSE, ![a].wallet = None,
                              ![a].burned = isBurn]
    /\ registry' = IF isBurn THEN [registry EXCEPT !.unburned = @ - 1]
                   ELSE registry
    /\ UNCHANGED <<job, engagement, feedback, commerce, events, claim>>

-----------------------------------------------------------------------------
(* identity/reputation-registry.ts *)

getOrCreateEngagement(e) == IF engagement[e] = None THEN NewEngagement
                            ELSE engagement[e]

hasSettled(edge) == edge.settled > 0
Bit(b) == IF b THEN 1 ELSE 0

handleNewFeedback(r, a, w) ==
    LET rater == resolveAgentByWallet(w)
        edge == getOrCreateEngagement(<<rater, a>>)
        verified == rater # None /\ hasSettled(edge)
    IN /\ NewTransaction /\ feedback[r] = None /\ Known(a) /\ ~agent[a].burned
       /\ feedback' = [feedback EXCEPT ![r] =
             [agent |-> a, rater |-> rater, verified |-> verified,
              evidence |-> IF verified THEN edge.last ELSE None,
              revoked |-> FALSE, responses |-> 0]]
       /\ agent' = [agent EXCEPT ![a].active = @ + 1,
                                 ![a].verified = @ + Bit(verified)]
       /\ engagement' = IF rater = None THEN engagement
                        ELSE [engagement EXCEPT ![<<rater, a>>] =
                                [edge EXCEPT !.ratings = @ + 1,
                                             !.verified = @ + Bit(verified)]]
       /\ registry' = [registry EXCEPT !.ratings = @ + 1, !.active = @ + 1]
       /\ UNCHANGED <<binding, job, commerce, events, changes, claim>>

takesBack(f) == [engagement EXCEPT ![<<f.rater, f.agent>>].ratings = @ - 1,
                                   ![<<f.rater, f.agent>>].verified =
                                       @ - Bit(f.verified)]

retracted(f) == [agent EXCEPT ![f.agent].active = @ - 1,
                              ![f.agent].verified = @ - Bit(f.verified)]

\* external: a rating is revoked once
handleFeedbackRevoked(r) ==
    LET f == feedback[r]
    IN /\ NewTransaction /\ f # None /\ ~f.revoked
       /\ feedback' = [feedback EXCEPT ![r].revoked = TRUE]
       /\ agent' = retracted(f)
       /\ engagement' = IF f.rater = None THEN engagement ELSE takesBack(f)
       /\ registry' = [registry EXCEPT !.active = @ - 1]
       /\ UNCHANGED <<binding, job, commerce, events, changes, claim>>

\* Bounded: the first response to a rating.
handleResponseAppended(r) ==
    /\ NewTransaction /\ feedback[r] # None /\ feedback[r].responses = 0
    /\ feedback' = [feedback EXCEPT ![r].responses = @ + 1]
    /\ agent' = [agent EXCEPT ![feedback[r].agent].responses = @ + 1]
    /\ registry' = [registry EXCEPT !.responses = @ + 1]
    /\ UNCHANGED <<binding, job, engagement, commerce, events, changes, claim>>

-----------------------------------------------------------------------------
(* commerce/job.ts: what a handler makes of a job and of the entities      *)
(* around it, as a record of the entities it saves                         *)

Loaded(j) == [job |-> j, agent |-> agent, engagement |-> engagement,
              commerce |-> commerce]

\* Both workspaces are loaded before either is saved: when they are one, the
\* second save writes the copy that has not seen the first.
linkWorkspaces(s) ==
    LET client == IF s.job.clientAgent # None THEN s.job.clientAgent
                  ELSE resolveAgentByWallet(s.job.client)
        provider == IF s.job.providerAgent # None THEN s.job.providerAgent
                    ELSE resolveAgentByWallet(s.job.provider)
        linked == [s.job EXCEPT !.clientAgent = client,
                                !.providerAgent = provider]
        e == <<client, provider>>
    IN IF s.job.engagement # None \/ client = None \/ provider = None
       THEN [s EXCEPT !.job = linked]
       ELSE [s EXCEPT
               !.job = [linked EXCEPT !.engagement = e],
               !.engagement = [@ EXCEPT ![e] =
                   [getOrCreateEngagement(e) EXCEPT !.jobs = @ + 1]],
               !.agent = [@ EXCEPT
                   ![client] = [s.agent[client] EXCEPT !.asClient = @ + 1],
                   ![provider] = [s.agent[provider] EXCEPT !.asProvider = @ + 1]]]

\* commerce/settlement.ts: here the client is loaded after the provider is
\* saved.
creditParties_twoCopies(s, t) ==
    [t EXCEPT ![s.job.providerAgent] =
                 [t[s.job.providerAgent] EXCEPT !.settledProvider = @ + 1],
              ![s.job.clientAgent] =
                 [t[s.job.clientAgent] EXCEPT !.settledClient = @ + 1]]
creditParties(s, t) ==
    LET paid == IF s.job.providerAgent = None THEN t
                ELSE [t EXCEPT ![s.job.providerAgent].settledProvider = @ + 1]
    IN IF s.job.clientAgent = None THEN paid
       ELSE [paid EXCEPT ![s.job.clientAgent].settledClient = @ + 1]

settles(j) == ~j.settled /\ j.status = "COMPLETED" /\ j.paid > 0

markSettledIfPaid(id, s) ==
    IF ~settles(s.job) THEN s
    ELSE [s EXCEPT
            !.job = [s.job EXCEPT !.settled = TRUE],
            !.commerce = [@ EXCEPT !.settled = @ + 1],
            !.agent = creditParties(s, s.agent),
            !.engagement = IF s.job.engagement = None THEN @
                           ELSE [@ EXCEPT ![s.job.engagement].settled = @ + 1,
                                          ![s.job.engagement].last = id]]

recordRefund(s, amount) ==
    [s EXCEPT
       !.commerce = [@ EXCEPT !.refunded = @ + amount],
       !.agent = IF s.job.clientAgent = None THEN @
                 ELSE [@ EXCEPT ![s.job.clientAgent].refunded = @ + amount],
       !.engagement = IF s.job.engagement = None THEN @
                      ELSE [@ EXCEPT ![s.job.engagement].refunded = @ + amount]]

handleJobCreated(id, client, provider) ==
    LET s == linkWorkspaces(Loaded(
                [status |-> "OPEN", client |-> client, provider |-> provider,
                 clientAgent |-> None, providerAgent |-> None,
                 engagement |-> None, paid |-> 0, fee |-> 0, refunded |-> 0,
                 settled |-> FALSE]))
    IN [s EXCEPT !.commerce = [@ EXCEPT !.jobs = @ + 1]]

handleProviderSet(j, provider) ==
    linkWorkspaces(Loaded([j EXCEPT !.provider = provider,
                                    !.providerAgent = None]))

handleJobCompleted(id, j) ==
    markSettledIfPaid(id, Loaded([j EXCEPT !.status = "COMPLETED"]))

handlePaymentReleased_later(id, j, amount) ==
    Loaded([j EXCEPT !.paid = @ + amount])
handlePaymentReleased(id, j, amount) ==
    markSettledIfPaid(id, Loaded([j EXCEPT !.paid = @ + amount]))

handleEvaluatorFeePaid(j) == Loaded([j EXCEPT !.fee = @ + 1])

handleRefunded(j, amount) ==
    recordRefund(Loaded([j EXCEPT !.refunded = @ + amount]), amount)

\* handleJobFunded, handleJobSubmitted, handleJobRejected, handleJobExpired
handleStatus(j, status) == Loaded([j EXCEPT !.status = status])

Save(id, s) == /\ job' = [job EXCEPT ![id] = s.job]
               /\ agent' = s.agent /\ engagement' = s.engagement
               /\ commerce' = s.commerce
               /\ UNCHANGED <<binding, feedback, registry, changes, claim>>

-----------------------------------------------------------------------------
(* The escrow contract (external): which transactions it accepts and which *)
(* logs they leave, in an order that is its own business                   *)

createJob(id, client, provider) ==
    /\ NewTransaction /\ job[id] = None
    /\ Save(id, handleJobCreated(id, client, provider)) /\ UNCHANGED events

\* a provider is set once, on an open job that was created without one
setProvider(id, provider) ==
    /\ NewTransaction /\ job[id] # None
    /\ job[id].status = "OPEN" /\ job[id].provider = None
    /\ Save(id, handleProviderSet(job[id], provider)) /\ UNCHANGED events

Moves(id, from, to) ==
    /\ NewTransaction /\ job[id] # None /\ job[id].status \in from
    /\ Save(id, handleStatus(job[id], to)) /\ UNCHANGED events
fund(id) == job[id] # None /\ job[id].provider # None
            /\ Moves(id, {"OPEN"}, "FUNDED")
submit(id) == Moves(id, {"FUNDED"}, "SUBMITTED")
reject(id) == Moves(id, {"OPEN"}, "REJECTED")

Logs(id, names) ==
    /\ NewTransaction
    /\ \E order \in [1..Cardinality(names) -> names] :
          /\ \A i, k \in 1..Cardinality(names) : order[i] = order[k] => i = k
          /\ events' = [i \in 1..Cardinality(names) |-> <<order[i], id>>]
    /\ UNCHANGED <<store, changes, claim>>
complete(id) ==
    /\ job[id] # None /\ job[id].status = "SUBMITTED"
    /\ \E payment \in {"Paid", "PaidNothing"} :
          Logs(id, {"Completed", payment, "FeePaid"})
refund(id) ==
    /\ job[id] # None /\ job[id].status \in {"FUNDED", "SUBMITTED"}
    /\ \E end \in {"Rejected", "Expired"} : Logs(id, {end, "Refunded"})

\* graph-node hands the next log of the transaction to its handler.
index ==
    /\ events # <<>> /\ events' = Tail(events)
    /\ LET log == Head(events)[1] id == Head(events)[2] j == job[id]
       IN Save(id, CASE log = "Completed" -> handleJobCompleted(id, j)
                     [] log = "Paid" -> handlePaymentReleased(id, j, 1)
                     [] log = "PaidNothing" -> handlePaymentReleased(id, j, 0)
                     [] log = "FeePaid" -> handleEvaluatorFeePaid(j)
                     [] log = "Refunded" -> handleRefunded(j, 1)
                     [] log = "Rejected" -> handleStatus(j, "REJECTED")
                     [] log = "Expired" -> handleStatus(j, "EXPIRED"))

Next ==
    \/ \E a \in Agents :
          \/ handleRegistered(a)
          \/ \E w \in Wallets \cup {None} : handleMetadataSet(a, w)
          \/ \E yes \in BOOLEAN : handleApproval(a, yes) \/ handleTransfer(a, yes)
          \/ \E r \in Ratings, w \in Wallets : handleNewFeedback(r, a, w)
    \/ \E r \in Ratings : handleFeedbackRevoked(r) \/ handleResponseAppended(r)
    \/ \E id \in Jobs :
          \/ \E c \in Wallets, p \in Wallets \cup {None} : createJob(id, c, p)
          \/ \E p \in Wallets : setProvider(id, p)
          \/ fund(id) \/ submit(id) \/ reject(id) \/ complete(id) \/ refund(id)
    \/ index

Spec == Init /\ [][Next]_vars

-----------------------------------------------------------------------------
(* Properties *)

KnownAgents == {a \in Agents : Known(a)}
KnownJobs == {id \in Jobs : job[id] # None}
Rated == {r \in Ratings : feedback[r] # None}
JobsWhere(P(_)) == Cardinality({id \in KnownJobs : P(job[id])})
RatingsWhere(P(_)) == Cardinality({r \in Rated : P(feedback[r])})

\* Type invariant.  The store's entities and the escrow's and registry's state.
TypeOK ==
    /\ binding \in [Wallets -> Agents \cup {None}]
    /\ \A a \in KnownAgents :
          /\ agent[a].wallet \in Wallets \cup {None}
          /\ agent[a].active \in 0..Cardinality(Ratings)
          /\ agent[a].verified \in 0..agent[a].active
          /\ agent[a].settledClient \in 0..Cardinality(Jobs)
    /\ \A id \in KnownJobs : job[id].engagement \in Edges \cup {None}
    /\ registry.unburned \in 0..registry.agents

\* A job is settled exactly when it completed and its provider was paid,
\* whichever order the escrow logs the two in, and never when it was
\* refunded (markSettledIfPaid, called from both handlers).
SettledMeansPaid ==
    events = <<>> => \A id \in KnownJobs :
        /\ job[id].settled <=> job[id].status = "COMPLETED" /\ job[id].paid > 0
        /\ job[id].settled => job[id].refunded = 0

\* Every count the workspaces, their engagements and the escrow publish is
\* the number of jobs it stands for, though it is kept by increments on
\* copies that several handlers load and save.  jobsAsClient leaves out the
\* jobs a workspace gives itself: linkWorkspaces' second save undoes them.
JobCountersAgree ==
    /\ commerce.settled = JobsWhere(LAMBDA j : j.settled)
    /\ \A a \in KnownAgents :
          /\ agent[a].settledProvider =
                 JobsWhere(LAMBDA j : j.settled /\ j.providerAgent = a)
          /\ agent[a].settledClient =
                 JobsWhere(LAMBDA j : j.settled /\ j.clientAgent = a)
          /\ agent[a].asProvider = JobsWhere(LAMBDA j :
                 j.engagement # None /\ j.engagement[2] = a)
          /\ agent[a].asClient = JobsWhere(LAMBDA j :
                 j.engagement # None /\ j.engagement[1] = a
                 /\ j.engagement[2] # a)
    /\ \A e \in Edges : engagement[e] # None =>
          /\ engagement[e].jobs = JobsWhere(LAMBDA j : j.engagement = e)
          /\ engagement[e].settled =
                 JobsWhere(LAMBDA j : j.engagement = e /\ j.settled)

\* The evidence of a verified rating is a settled job that the rater's
\* workspace gave to the rated one, however wallets were bound, rebound or
\* lost between the job and the rating.
EvidenceIsASettledJob ==
    \A r \in Rated : feedback[r].verified =>
        /\ feedback[r].evidence \in KnownJobs
        /\ LET j == job[feedback[r].evidence]
           IN /\ j.settled /\ j.clientAgent = feedback[r].rater
              /\ j.providerAgent = feedback[r].agent

\* Ratings still standing are what the published counts count, per
\* workspace, per engagement and in the registry, after any revocations.
RatingCountersAgree ==
    /\ registry.active = RatingsWhere(LAMBDA f : ~f.revoked)
    /\ \A a \in KnownAgents :
          /\ agent[a].active = RatingsWhere(LAMBDA f : f.agent = a /\ ~f.revoked)
          /\ agent[a].verified =
                RatingsWhere(LAMBDA f : f.agent = a /\ ~f.revoked /\ f.verified)
    /\ \A e \in Edges : engagement[e] # None =>
          engagement[e].verified = RatingsWhere(LAMBDA f :
              <<f.rater, f.agent>> = e /\ ~f.revoked /\ f.verified)

\* A wallet is bound to the workspace that set it last and still has it: no
\* other workspace's change, transfer or burn removes or steals the binding,
\* and no binding outlives its workspace's claim (bindWallet, unbindWallet).
BindingsAreCurrent ==
    \A w \in Wallets :
        binding[w] = IF claim[w] # None /\ agent[claim[w]].wallet = w
                     THEN claim[w] ELSE None

=============================================================================
