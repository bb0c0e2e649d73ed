--------------------------- MODULE AccountGuards ---------------------------
(***************************************************************************)
(* The two BUFI hooks of one Circle account: the Gateway intent guard      *)
(* (GatewayIntentGuardCore, packaged as a v0.7 plugin), which judges what  *)
(* the account's ERC-1271 view may approve, and the session recipient      *)
(* hook, which judges the payments of session keys.  Both read the         *)
(* account's AddressBook, a Circle plugin (external).  Owners and agents   *)
(* act through bundles: all operations are validated, then all execute.    *)
(***************************************************************************)
EXTENDS GatewayIntentPolicy, FiniteSets, Sequences, Functions

CONSTANTS
    Inits,          \* GatewayGuardInit structs the owners may install with
    Edits,          \* calls of the guard's setters
    Payees,         \* addresses of the book's recipients
    AgentCalls,     \* calls inside executeWithSessionKey
    Intents,        \* burn intents that may be asked about
    Code,           \* addresses with code
    Account, GatewayWallet, LocalDomain,
    MaxInstalls, MaxChanges, MaxBundle,
    None

VARIABLES
    limits,         \* _limits[account], None when not installed
    epoch,          \* _epoch[account]
    store,          \* the sets, by namespace
    bookInstalled, book,      \* the AddressBook and its recipients
    bound,          \* _addressBookOf[account] of the hook is set
    bundle, executing,        \* the EntryPoint's bundle
    changes,        \* operations the owners have signed
    granted,        \* ghost: words switched on since the guard was installed
    bookThen        \* ghost: the book when the bundle was validated

guard == <<limits, epoch, store>>
addressBook == <<bookInstalled, book>>
bundling == <<bundle, executing, changes>>
ghosts == <<granted, bookThen>>
vars == <<guard, addressBook, bound, bundling, ghosts>>

\* What the constants of an instance are: the Solidity types of the calls.
GuardsAssumption ==
    /\ Inits \subseteq [perIntentCap : Nat, maxFeeCap : Nat, maxExpiryBlocks : Nat,
                        addressBook : BOOLEAN, recipients : Seq(Word),
                        domains : SUBSET Domain, minters : [Domain -> Word],
                        tokens : SUBSET Address, destTokens : SUBSET Word,
                        callers : SUBSET Word]
    /\ Edits \subseteq
          [set : {"recipient", "destToken", "caller"}, word : Word, allowed : BOOLEAN]
          \cup [set : {"domain"}, word : Domain, allowed : BOOLEAN]
          \cup [set : {"token"}, word : Address, allowed : BOOLEAN]
          \cup [set : {"minter"}, word : Domain, minter : Word]
          \cup [set : {"limits"}, cap : Nat, fee : Nat, blocks : Nat]
    /\ AgentCalls \subseteq [target : Address, value : BOOLEAN, recipient : Address]
    /\ None \notin [perIntentCap : Nat, maxFeeCap : Nat, maxExpiryBlocks : Nat,
                    addressBook : BOOLEAN]
    /\ MaxInstalls \in Nat

Nothing == [recipients |-> {}, recipientCount |-> 0, domains |-> {},
            minters |-> [d \in Domain |-> ZeroWord], tokens |-> {},
            destTokens |-> {}, callers |-> {}]

Init ==
    /\ limits = None /\ epoch = 0
    /\ store = [e \in 0..MaxInstalls |-> Nothing]
    /\ bookInstalled = FALSE /\ book = {} /\ bound = FALSE
    /\ bundle = <<>> /\ executing = FALSE /\ changes = 0
    /\ granted = {} /\ bookThen = {}

\* _ns: the namespace of the current epoch.
live == store[epoch]

-----------------------------------------------------------------------------
(* The bundle *)

\* The head operation executes, op being what it is.
Executes(op) == /\ executing /\ bundle # <<>> /\ op = Head(bundle)
                /\ bundle' = Tail(bundle) /\ executing' = (Len(bundle) > 1)
                /\ UNCHANGED <<changes, bookThen>>

\* An owners' operation, validated by their own plugin.
ownersSign(op) ==
    /\ ~executing /\ Len(bundle) < MaxBundle /\ changes < MaxChanges
    /\ bundle' = Append(bundle, op) /\ changes' = changes + 1
    /\ UNCHANGED <<guard, addressBook, bound, executing, ghosts>>

handleOps == /\ ~executing /\ bundle # <<>> /\ executing' = TRUE
             /\ bookThen' = book
             /\ UNCHANGED <<guard, addressBook, bound, bundle, changes, granted>>

\* An execution reverts: its call, a check, or its gas.
reverts == /\ bundle # <<>> /\ Executes(Head(bundle))
           /\ UNCHANGED <<guard, addressBook, bound, granted>>

-----------------------------------------------------------------------------
(* GatewayIntentGuardCore: lifecycle and setters *)

\* The words an install or a setter switches on, tagged by their set.
tagged(kind, S) == {<<kind, x>> : x \in S}

\* How many of a list of recipients are new to the set.
countOf(rs) == Cardinality(Range(rs) \ live.recipients)

validLimits(cap, blocks) == cap # 0 /\ blocks # 0

\* _install and its loops; the recipients are a list that may repeat.
installs(init) ==
    /\ limits = None /\ epoch < MaxInstalls
    /\ validLimits(init.perIntentCap, init.maxExpiryBlocks)
    /\ init.addressBook => bookInstalled                   \* _validateAddressBook
    /\ live.recipientCount + countOf(init.recipients) # 0 \/ init.addressBook
    /\ \A d \in init.domains : init.minters[d] # ZeroWord
    /\ 0 \notin init.tokens
    /\ limits' = [perIntentCap |-> init.perIntentCap, maxFeeCap |-> init.maxFeeCap,
                  maxExpiryBlocks |-> init.maxExpiryBlocks,
                  addressBook |-> init.addressBook]
    /\ store' = [store EXCEPT ![epoch] =
          [recipients |-> @.recipients \cup Range(init.recipients),
           recipientCount |-> @.recipientCount + countOf(init.recipients),
           domains |-> @.domains \cup init.domains,
           minters |-> [d \in Domain |-> IF d \in init.domains THEN init.minters[d]
                                         ELSE @.minters[d]],
           tokens |-> @.tokens \cup init.tokens,
           destTokens |-> @.destTokens \cup init.destTokens,
           callers |-> @.callers \cup init.callers]]
    /\ granted' = tagged("recipient", Range(init.recipients))
                  \cup tagged("domain", init.domains) \cup tagged("token", init.tokens)
                  \cup tagged("destToken", init.destTokens)
                  \cup tagged("caller", init.callers)
    /\ UNCHANGED epoch

onInstall(op) == /\ op.kind = "install" /\ Executes(op) /\ installs(op.init)
                 /\ UNCHANGED <<addressBook, bound>>

nextEpoch_same == epoch
nextEpoch == epoch + 1

\* _uninstall
onUninstall(op) ==
    /\ op.kind = "uninstall" /\ Executes(op) /\ limits # None
    /\ limits' = None /\ epoch' = nextEpoch /\ granted' = {}
    /\ UNCHANGED <<store, addressBook, bound>>

\* A word enters or leaves one of the sets.
toggled(S, e) == IF e.allowed THEN S \cup {e.word} ELSE S \ {e.word}

setGatewayRecipient(e) ==
    LET s == live IN
    /\ e.set = "recipient" /\ (e.word \in s.recipients) # e.allowed
    /\ e.allowed \/ s.recipientCount > 1 \/ limits.addressBook
    /\ store' = [store EXCEPT ![epoch] = [s EXCEPT
          !.recipients = toggled(s.recipients, e),
          !.recipientCount = s.recipientCount + IF e.allowed THEN 1 ELSE -1]]
    /\ UNCHANGED limits

setGatewayDestinationDomain(e) ==
    /\ e.set = "domain"
    /\ store' = [store EXCEPT ![epoch].domains = toggled(@, e)]
    /\ UNCHANGED limits

setGatewayToken(e) ==
    /\ e.set = "token" /\ (e.allowed => e.word # 0)
    /\ store' = [store EXCEPT ![epoch].tokens = toggled(@, e)]
    /\ UNCHANGED limits

setGatewayDestinationToken(e) ==
    /\ e.set = "destToken"
    /\ store' = [store EXCEPT ![epoch].destTokens = toggled(@, e)]
    /\ UNCHANGED limits

setGatewayDestinationCaller(e) ==
    /\ e.set = "caller"
    /\ store' = [store EXCEPT ![epoch].callers = toggled(@, e)]
    /\ UNCHANGED limits

setGatewayDestinationMinter(e) ==
    /\ e.set = "minter"
    /\ store' = [store EXCEPT ![epoch].minters[e.word] = e.minter]
    /\ UNCHANGED limits

setGatewayLimits(e) ==
    /\ e.set = "limits" /\ validLimits(e.cap, e.blocks)
    /\ limits' = [limits EXCEPT !.perIntentCap = e.cap, !.maxFeeCap = e.fee,
                                !.maxExpiryBlocks = e.blocks]
    /\ UNCHANGED store

\* onlyInstalled, then the setter the owners called.
edits(op) ==
    /\ op.kind = "edit" /\ Executes(op) /\ limits # None
    /\ LET e == op.edit IN
       /\ \/ setGatewayRecipient(e) \/ setGatewayDestinationDomain(e)
          \/ setGatewayToken(e) \/ setGatewayDestinationToken(e)
          \/ setGatewayDestinationCaller(e) \/ setGatewayDestinationMinter(e)
          \/ setGatewayLimits(e)
       /\ granted' = IF e.set \in {"minter", "limits"} THEN granted
                     ELSE IF e.allowed THEN granted \cup {<<e.set, e.word>>}
                     ELSE granted \ {<<e.set, e.word>>}
    /\ UNCHANGED <<epoch, addressBook, bound>>

-----------------------------------------------------------------------------
(* GatewayIntentGuardCore: the policy, asked by Gateway at block 0 *)

\* _recipientAllowed
recipientAllowed(d, w) ==
    /\ matchesDomainShape(d, w)
    /\ \/ w \in live.recipients
       \/ limits.addressBook /\ isEvmDomain(d) /\ truncate(w) # 0 /\ truncate(w) \in book

\* _checkIntent and _checkBurnIntent, the digest being the one signed.
checkBurnIntent(i) ==
    LET spec == i.spec
        d == spec.destinationDomain
        s == live
    IN /\ limits # None
       /\ checkIntentShape(i,
             [gatewayWallet |-> GatewayWallet, sourceDomain |-> LocalDomain,
              depositor |-> Account, maxExpiryBlocks |-> limits.maxExpiryBlocks,
              perIntentCap |-> limits.perIntentCap, maxFeeCap |-> limits.maxFeeCap], 0)
       /\ truncate(spec.sourceToken) \in s.tokens
       /\ spec.destinationToken \in s.destTokens
       /\ matchesDomainShape(d, spec.destinationToken)
       /\ d \in s.domains /\ recipientAllowed(d, spec.destinationRecipient)
       /\ spec.destinationCaller # ZeroWord =>
             /\ spec.destinationCaller \in s.callers
             /\ matchesDomainShape(d, spec.destinationCaller)
       /\ s.minters[d] # ZeroWord /\ spec.destinationContract = s.minters[d]

-----------------------------------------------------------------------------
(* BufiSessionRecipientHookPlugin *)

hookInstall(op) ==
    /\ op.kind = "bind" /\ Executes(op) /\ ~bound /\ bookInstalled
    /\ bound' = TRUE /\ UNCHANGED <<guard, addressBook, granted>>

hookUninstall(op) ==
    /\ op.kind = "unbind" /\ Executes(op) /\ bound
    /\ bound' = FALSE /\ UNCHANGED <<guard, addressBook, granted>>

\* _getTargetOrRecipient: native value goes to the target and carries no data;
\* a token transfer goes to the recipient in its data; any other call is
\* judged by its target.
wellFormed(c) == IF c.value THEN c.recipient = 0 /\ c.target # 0 ELSE c.target \in Code
targetOrRecipient_target(c) == c.target
targetOrRecipient(c) == IF c.value \/ c.recipient = 0 THEN c.target ELSE c.recipient

\* preUserOpValidationHook and _verifyRecipients, while the operation is
\* validated; without the hook nothing is asked.
preUserOpValidationHook(op) ==
    /\ ~executing /\ Len(bundle) < MaxBundle
    /\ bound => wellFormed(op.call) /\ targetOrRecipient(op.call) \in book
    /\ bundle' = Append(bundle, [op EXCEPT !.hooked = bound])
    /\ UNCHANGED <<guard, addressBook, bound, executing, changes, ghosts>>

\* The session key plugin runs the validated calls; the hook is not asked again.
pays(op) ==
    /\ op.kind = "agent" /\ Executes(op)
    /\ UNCHANGED <<guard, addressBook, bound, granted>>

-----------------------------------------------------------------------------
(* The AddressBook plugin: external *)

bookOnInstall(op) ==
    /\ op.kind = "book" /\ Executes(op) /\ ~bookInstalled
    /\ bookInstalled' = TRUE /\ book' = op.payees
    /\ UNCHANGED <<guard, bound, granted>>

\* It clears its recipients on the way out.
bookOnUninstall(op) ==
    /\ op.kind = "unbook" /\ Executes(op) /\ bookInstalled
    /\ bookInstalled' = FALSE /\ book' = {}
    /\ UNCHANGED <<guard, bound, granted>>

addAllowedRecipients(op) ==
    /\ op.kind = "admit" /\ Executes(op) /\ bookInstalled
    /\ book' = book \cup {op.payee} /\ UNCHANGED <<guard, bookInstalled, bound, granted>>

removeAllowedRecipients(op) ==
    /\ op.kind = "expel" /\ Executes(op) /\ bookInstalled
    /\ book' = book \ {op.payee} /\ UNCHANGED <<guard, bookInstalled, bound, granted>>

-----------------------------------------------------------------------------

OwnerOps == [kind : {"install"}, init : Inits] \cup [kind : {"edit"}, edit : Edits]
            \cup [kind : {"uninstall", "bind", "unbind", "unbook"}]
            \cup [kind : {"book"}, payees : {{p} : p \in Payees}]
            \cup [kind : {"admit", "expel"}, payee : Payees]
AgentOps == [kind : {"agent"}, call : AgentCalls, hooked : {FALSE}]

Next ==
    \/ \E op \in OwnerOps : ownersSign(op)
    \/ \E op \in AgentOps : preUserOpValidationHook(op)
    \/ \E op \in Range(bundle) :
          \/ onInstall(op) \/ onUninstall(op) \/ edits(op)
          \/ hookInstall(op) \/ hookUninstall(op) \/ pays(op)
          \/ bookOnInstall(op) \/ bookOnUninstall(op)
          \/ addAllowedRecipients(op) \/ removeAllowedRecipients(op)
    \/ handleOps \/ reverts

Spec == Init /\ [][Next]_vars

-----------------------------------------------------------------------------
(* Properties *)

\* Type invariant.  The guard's and the book's storage and the bundle; an installed guard has
\* limits that validLimits accepts.
TypeOK ==
    /\ limits # None => limits.perIntentCap > 0 /\ limits.maxExpiryBlocks > 0
    /\ epoch \in 0..MaxInstalls /\ book \subseteq Payees
    /\ bookInstalled \in BOOLEAN /\ bound \in BOOLEAN /\ executing \in BOOLEAN
    /\ \A e \in DOMAIN store : store[e].recipients \subseteq Word

\* Whatever the order of installs with repeated recipients, setters and
\* uninstalls, the guard's counter is the number of its recipients, and an
\* installed guard without an address book always has one.
RecipientsAreCounted ==
    limits # None => /\ live.recipientCount = Cardinality(live.recipients)
                     /\ live.recipients # {} \/ limits.addressBook

\* A reinstalled guard inherits nothing: what it admits, its owners switched on
\* since that install, except a payee of the address book, and that one only
\* on an EVM domain and while the book itself is installed.
GuardAdmitsWhatWasGranted ==
    \A i \in Intents : checkBurnIntent(i) =>
        LET spec == i.spec
            r == spec.destinationRecipient
        IN /\ <<"domain", spec.destinationDomain>> \in granted
           /\ <<"token", spec.sourceToken.addr>> \in granted
           /\ <<"destToken", spec.destinationToken>> \in granted
           /\ spec.destinationCaller = ZeroWord
              \/ <<"caller", spec.destinationCaller>> \in granted
           /\ \/ <<"recipient", r>> \in granted
              \/ /\ bookInstalled /\ r.addr \in book
                 /\ spec.destinationDomain # SOLANA_DOMAIN

\* The guard's lists are what its owners made of them since the last install.
GuardListsAreTheOwners == RecipientsAreCounted /\ GuardAdmitsWhatWasGranted

\* Where a session key's call moves value to, if anywhere.
paidBy(c) == IF c.value THEN {c.target} ELSE {c.recipient} \ {0}

\* A payment of a session key that passed the recipient hook reaches only
\* addresses that were in the owners' book when its bundle began, whatever
\* plugins the owners install, remove or edit in the same bundle.
SessionPaymentsFollowTheBook ==
    [][\A op \in Range(bundle) :
          pays(op) /\ op.hooked => paidBy(op.call) \subseteq bookThen]_vars
=============================================================================
