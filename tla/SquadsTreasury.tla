--------------------------- MODULE SquadsTreasury ---------------------------
(***************************************************************************)
(* The weighted treasury on Squads: the compiler from a weighted spec to   *)
(* spending policies, the flow that creates the account, has the policies  *)
(* approved and spends through them, and the playground tab that drives it *)
(* and judges every spend twice.  Owners are their positions in the spec;  *)
(* the allowlist is the recipient "R"; one asset, a fresh mint each time   *)
(* the vault is funded.  The Squads program is external: it is modelled by *)
(* the errors the flow names and the rules its callers state.              *)
(***************************************************************************)
EXTENDS Naturals, FiniteSets, Sequences, FiniteSetsExt, SequencesExt

CONSTANTS Specs,          \* what the editor may hold: [weight, threshold]
          TimeLock,       \* adminTimelockSeconds
          CreateAttempts, \* 5 in createTreasury
          MaxPolicies, Funding, Amounts,
          MaxMints, MaxOthers, MaxAccounts, MaxSpends, MaxEdits, MaxFaults, MaxTime,
          None

VARIABLES accounts,       \* on chain: the smart accounts, by index
          vault,          \* on chain: what the vault holds of each mint
          now,            \* on chain: the clock
          store,          \* the tab: spec, treasury, token, admin
          view,           \* the tab: what the last refresh read
          creating,       \* the tab: createTreasury in flight, or None
          attempts,       \* the tab: the spends it shows
          mints, others, edits, faults     \* counters the bounds are on

counters == <<mints, others, edits, faults>>
vars == <<accounts, vault, now, store, view, creating, attempts, counters>>

-----------------------------------------------------------------------------
(* The compiler *)

Owners(spec) == DOMAIN spec.weight
weightOf(spec, c) == MapThenSumSet(LAMBDA i : spec.weight[i], c)

isWinning(spec, ids) == weightOf(spec, ids \cap Owners(spec)) >= spec.threshold

\* Order of the policies: by size, then by the lowest position that differs.
lowBitOrder(a, b) ==
    \/ Cardinality(a) < Cardinality(b)
    \/ /\ Cardinality(a) = Cardinality(b) /\ a # b
       /\ Min((a \ b) \cup (b \ a)) \in a

reaches_almost(spec, sum) == sum + 1 >= spec.threshold
reaches(spec, sum) == sum >= spec.threshold

minimalWinningCoalitions(spec) ==
    SetToSortSeq({c \in SUBSET Owners(spec) \ {{}} :
                    /\ reaches(spec, weightOf(spec, c))
                    /\ \A i \in c : ~reaches(spec, weightOf(spec, c \ {i}))},
                 lowBitOrder)

validateSpec(spec) == spec.threshold \in 1..weightOf(spec, Owners(spec))

compiles(spec) == /\ validateSpec(spec)
                  /\ Len(minimalWinningCoalitions(spec)) <= MaxPolicies

settingsThreshold(spec) == Cardinality(Owners(spec))

compileSquads(spec, mint) ==
    [spec |-> spec, mint |-> mint, signers |-> Owners(spec),
     threshold |-> settingsThreshold(spec), coalitions |-> minimalWinningCoalitions(spec)]

-----------------------------------------------------------------------------

NoView == [proposal |-> FALSE, approved |-> {}, live |-> FALSE]
Forgotten(s) == [s EXCEPT !.treasury = 0, !.token = 0, !.admin = None]

Init ==
    /\ accounts = <<>> /\ vault = [m \in 1..MaxMints |-> 0] /\ now = 0
    /\ store \in [spec : Specs, treasury : {0}, token : {0}, admin : {None}]
    /\ view = NoView /\ creating = None /\ attempts = {}
    /\ mints = 0 /\ others = 0 /\ edits = 0 /\ faults = 0

\* A send: confirmed, refused before it lands, or landed with its
\* confirmation lost; confirm throws in both of the last two.
Outcomes == {"ok", "fails", "lost"}
Sends(o) == \/ o = "ok" /\ UNCHANGED faults
            \/ o # "ok" /\ faults < MaxFaults /\ faults' = faults + 1
Idle == creating = None            \* `busy` disables every button

Account(ours, plan) ==
    [ours |-> ours, signers |-> plan.signers, threshold |-> plan.threshold,
     txs |-> <<>>, policies |-> <<>>]

-----------------------------------------------------------------------------
(* createTreasury *)

clickCreate ==
    /\ Idle /\ compiles(store.spec) /\ Len(accounts) < MaxAccounts
    /\ creating' = [plan |-> compileSquads(store.spec, store.token),
                    at |-> "read", attempt |-> 1, index |-> 0]
    /\ UNCHANGED <<accounts, vault, now, store, view, attempts, counters>>

readConfig ==
    /\ ~Idle /\ creating.at = "read"
    /\ creating' = [creating EXCEPT !.index = Len(accounts) + 1, !.at = "send"]
    /\ UNCHANGED <<accounts, vault, now, store, view, attempts, counters>>

retryOrThrow ==
    creating' = IF creating.attempt < CreateAttempts
                THEN [creating EXCEPT !.attempt = @ + 1, !.at = "read"]
                ELSE None

\* The settings address follows from the index, which must be the next one.
createSmartAccount(o) ==
    /\ ~Idle /\ creating.at = "send" /\ Sends(o)
    /\ LET lands == creating.index = Len(accounts) + 1 /\ o # "fails"
       IN /\ accounts' = IF lands THEN Append(accounts, Account(TRUE, creating.plan))
                         ELSE accounts
          /\ IF lands /\ o = "ok" THEN creating' = [creating EXCEPT !.at = "created"]
             ELSE retryOrThrow
    /\ UNCHANGED <<vault, now, store, view, attempts, mints, others, edits>>

handle_latest == Len(accounts)
handle == creating.index

created ==
    /\ ~Idle /\ creating.at = "created"
    /\ store' = [Forgotten(store) EXCEPT !.treasury = handle]
    /\ attempts' = {} /\ creating' = None
    /\ UNCHANGED <<accounts, vault, now, view, counters>>

\* Somebody else's account takes the next index.
otherCreates ==
    /\ others < MaxOthers /\ others' = others + 1
    /\ accounts' = Append(accounts, Account(FALSE, [signers |-> {}, threshold |-> 0]))
    /\ UNCHANGED <<vault, now, store, view, creating, attempts, mints, edits, faults>>

-----------------------------------------------------------------------------
(* The other buttons; one account, one writer, so each is one step *)

Treasury == accounts[store.treasury]
Tx == Treasury.txs[store.admin.tx]

\* A new mint; a run that stops half-way has funded a token nobody records.
fundVault(o) ==
    /\ Idle /\ store.treasury # 0 /\ mints < MaxMints /\ Sends(o)
    /\ mints' = mints + 1
    /\ vault' = IF o = "fails" THEN vault ELSE [vault EXCEPT ![mints'] = Funding]
    /\ store' = IF o = "ok" THEN [store EXCEPT !.token = mints', !.admin = None] ELSE store
    /\ UNCHANGED <<accounts, now, view, creating, attempts, others, edits>>

\* Two transactions, the second the proposal; `o` is the second's outcome,
\* `p` the first's.
propose(p, o) ==
    /\ Idle /\ store.token # 0 /\ store.admin = None /\ compiles(store.spec)
    /\ IF p = "ok" THEN Sends(o) ELSE o = "fails" /\ Sends(p)
    /\ LET plan == compileSquads(store.spec, store.token)
           tx == [plan |-> plan, proposed |-> o # "fails", approved |-> {}, at |-> 0,
                  executedAt |-> None]
           index == Len(Treasury.txs) + 1
       IN /\ accounts' = IF p = "fails" THEN accounts
                         ELSE [accounts EXCEPT ![store.treasury].txs = Append(@, tx)]
          /\ store' = IF p = "ok" /\ o = "ok"
                      THEN [store EXCEPT !.admin = [tx |-> index, plan |-> plan]]
                      ELSE store
    /\ UNCHANGED <<vault, now, view, creating, attempts, mints, others, edits>>

\* The program: each signer once, while the proposal is not yet approved.
approve(id, o) ==
    /\ Idle /\ store.admin # None /\ view.proposal /\ id \notin view.approved /\ ~view.live
    /\ id \in Treasury.signers \ Tx.approved /\ Tx.proposed
    /\ Cardinality(Tx.approved) < Treasury.threshold
    /\ Sends(o)
    /\ accounts' = IF o = "fails" THEN accounts
                   ELSE [accounts EXCEPT ![store.treasury].txs[store.admin.tx] =
                           [@ EXCEPT !.approved = @ \cup {id}, !.at = now]]
    /\ UNCHANGED <<vault, now, store, view, creating, attempts, mints, others, edits>>

\* The program: approved, time lock over, and the policies, which the plan
\* counts from 1, are the account's next ones.
executeAdmin(o) ==
    /\ Idle /\ store.admin # None /\ view.proposal /\ ~view.live
    /\ Cardinality(Tx.approved) >= Treasury.threshold /\ now >= Tx.at + TimeLock
    /\ Tx.executedAt = None /\ Treasury.policies = <<>>
    /\ Sends(o)
    /\ accounts' = IF o = "fails" THEN accounts
                   ELSE [accounts EXCEPT ![store.treasury] =
                           [@ EXCEPT !.policies = [i \in DOMAIN Tx.plan.coalitions |->
                                         [signers |-> Tx.plan.coalitions[i],
                                          mint |-> Tx.plan.mint, spec |-> Tx.plan.spec]],
                                     !.txs[store.admin.tx].executedAt = now]]
    /\ UNCHANGED <<vault, now, store, view, creating, attempts, mints, others, edits>>

-----------------------------------------------------------------------------
(* Spending *)

bestOverlap(cs, group) ==
    CHOOSE i \in DOMAIN cs : \A j \in DOMAIN cs :
        LET common(k) == Cardinality(cs[k] \cap group)
        IN common(j) < common(i) \/ (common(j) = common(i) /\ i <= j)

policyFor(cs, group) ==
    LET i == SelectInSeq(cs, LAMBDA c : c \subseteq group)
    IN IF i # 0 THEN i ELSE bestOverlap(cs, group)

\* The program: the policy exists, is about this mint and this destination,
\* and is signed by its signers and nobody else.
policyAccepts(i, signers, destination, amount) ==
    /\ i \in DOMAIN Treasury.policies
    /\ LET p == Treasury.policies[i]
       IN p.signers = signers /\ p.mint = store.token
    /\ destination = "R" /\ amount <= vault[store.token]

judgedBy_editor == store.spec
judgedBy == store.admin.plan.spec

expectedSpendOutcome(group, destination, amount) ==
    /\ isWinning(judgedBy, group)
    /\ destination = "R" /\ amount <= vault[store.token]

\* On chain, the policies of the saved plan are where the tab looks for them.
PlanIsLive ==
    LET cs == store.admin.plan.coalitions
    IN /\ DOMAIN cs = DOMAIN Treasury.policies
       /\ \A i \in DOMAIN cs : /\ Treasury.policies[i].signers = cs[i]
                               /\ Treasury.policies[i].mint = store.token

spend(group, destination, amount, o) ==
    LET cs == store.admin.plan.coalitions
        i == policyFor(cs, group)
        signers == IF cs[i] \subseteq group THEN cs[i] ELSE group
        pays == o # "fails" /\ policyAccepts(i, signers, destination, amount)
    IN /\ Idle /\ store.treasury # 0 /\ store.token # 0 /\ store.admin # None
       /\ view.live /\ Cardinality(attempts) < MaxSpends /\ Sends(o)
       /\ vault' = IF pays THEN [vault EXCEPT ![store.token] = @ - amount] ELSE vault
       /\ attempts' = attempts \cup
            {[expected |-> expectedSpendOutcome(group, destination, amount),
              actual |-> pays /\ o = "ok",
              \* ghosts: what the program did, on whose rule
              sent |-> o # "fails", live |-> PlanIsLive,
              paid |-> IF pays THEN [to |-> destination, signers |-> signers,
                                     rule |-> Treasury.policies[i].spec]
                       ELSE None]}
       /\ UNCHANGED <<accounts, now, store, view, creating, mints, others, edits>>

-----------------------------------------------------------------------------
(* The tab, time *)

reset == /\ Idle /\ store.treasury # 0 /\ store' = Forgotten(store) /\ attempts' = {}
         /\ UNCHANGED <<accounts, vault, now, view, creating, counters>>

\* The editor's fields stay enabled while a step is in flight.
setSpec(spec) ==
    /\ edits < MaxEdits /\ edits' = edits + 1 /\ store' = [store EXCEPT !.spec = spec]
    /\ UNCHANGED <<accounts, vault, now, view, creating, attempts, mints, others, faults>>

\* The effect that reads the chain; its answer may come much later than the
\* change that asked for it.
refresh ==
    /\ view' = IF store.admin = None \/ store.treasury = 0 THEN NoView
               ELSE [proposal |-> Tx.proposed, approved |-> Tx.approved,
                     live |-> \A i \in DOMAIN store.admin.plan.coalitions :
                                  i \in DOMAIN Treasury.policies]
    /\ UNCHANGED <<accounts, vault, now, store, creating, attempts, counters>>

Tick == /\ now < MaxTime /\ now' = now + 1
        /\ UNCHANGED <<accounts, vault, store, view, creating, attempts, counters>>

People == UNION {Owners(spec) : spec \in Specs}

Next ==
    \/ clickCreate \/ readConfig \/ created \/ otherCreates
    \/ \E o \in Outcomes : createSmartAccount(o) \/ fundVault(o) \/ executeAdmin(o)
    \/ \E p, o \in Outcomes : propose(p, o)
    \/ \E id \in People, o \in Outcomes : approve(id, o)
    \/ \E group \in SUBSET People \ {{}}, to \in {"R", "S"}, amount \in Amounts,
          o \in Outcomes : spend(group, to, amount, o)
    \/ reset \/ refresh \/ Tick
    \/ \E spec \in Specs : setSpec(spec)

Spec == Init /\ [][Next]_vars

-----------------------------------------------------------------------------
(* Properties *)

\* Type invariant.  What the chain holds and what the tab has saved and read of it.
TypeOK ==
    /\ store.treasury \in 0..Len(accounts) /\ store.token \in 0..mints
    /\ store.token # 0 => store.treasury # 0
    /\ store.admin # None => /\ store.admin.plan.mint = store.token
                             /\ store.admin.tx \in DOMAIN Treasury.txs
    /\ \A m \in DOMAIN vault : vault[m] \in 0..Funding

\* The account createTreasury hands back is one it created, whoever else
\* creates accounts and whichever confirmations are lost meanwhile.
SavedTreasuryIsOurs == store.treasury # 0 => Treasury.ours

\* No policy exists on an account before every owner it was created for has
\* approved it and the time lock has passed since the last approval.
PoliciesNeedEveryOwner ==
    \A a \in Range(accounts) : a.policies # <<>> =>
        \E tx \in Range(a.txs) : /\ tx.executedAt # None /\ a.signers \subseteq tx.approved
                                 /\ tx.executedAt >= tx.at + TimeLock

\* Money leaves the vault only to the allowlisted recipient, signed by owners
\* who reach the threshold of the spec that the owners approved.
SpendsAreAuthorised ==
    \A a \in attempts : a.paid # None =>
        a.paid.to = "R" /\ isWinning(a.paid.rule, a.paid.signers)

\* The two judgements agree on every spend that reaches the program while
\* the policies on chain are those of the plan it is judged by, whatever the
\* editor holds by then and whichever group of owners signs.
JudgeAgrees == \A a \in attempts : a.sent /\ a.live => (a.expected <=> a.paid # None)

\* apps/playground/README.md says of the two judgements the tab shows:
\* "Same?" must always be ticked.
SameIsAlwaysTicked == \A a \in attempts : a.expected = a.actual

=============================================================================
