-------------------------- MODULE TreasuryConduits --------------------------
(***************************************************************************)
(* The money of treasury accounts on its way through the contracts that    *)
(* may move it: TreasuryConduit, TreasurySwapAndDeposit as its target,     *)
(* TreasuryRedeemConduit and BufiEarnModule.  The agent quotes, asks at    *)
(* its gate, lets the owners sign and submits (apps/agent).  A contract    *)
(* call is atomic and a failing one changes nothing.  Venue, vaults and    *)
(* tokens are external: a venue may fill a part of an order at the price   *)
(* of the moment, a vault may pay out less than it took.                   *)
(***************************************************************************)
EXTENDS Integers, FiniteSets, Sequences, Functions

CONSTANTS Treasuries, Vaults, Amounts, Funds,
          ValidFor,                 \* validForSeconds
          MaxTime, MaxChanges, MaxSigned, None

VARIABLES bal,                      \* tokens by holder
          price, now,               \* the venue's price; the clock
          targets, vaults, routes,  \* registered with the conduits and swap-and-deposit
          gate,                     \* the request at each treasury's gate
          signed,                   \* intents a quorum has signed
          used,                     \* nonces consumed: intents and redeems
          redeems, allowance,       \* signed redeems; shares approved for them
          configs, adopted,         \* the Earn module's configs; each account's
          changes, mistakes,        \* bounded: what people decide; direct transfers
          owed                      \* ghost: the least each treasury agreed to

world == <<price, now>>
registry == <<targets, vaults, routes>>
approvals == <<signed, redeems, allowance>>
earn == <<configs, adopted>>
counts == <<changes, mistakes>>
vars == <<bal, world, registry, gate, approvals, used, earn, counts, owed>>

Tokens == {"USDC", "EURC"} \cup Vaults       \* a vault is the token of its shares
Contracts == {"conduit", "swapAndDeposit"}
Targets == {"venue", "swapAndDeposit"} \cup Vaults
Prices == {1, 2}

\* An intent as the quorum signs it.
Intent == [beneficiary : Treasuries, kind : Targets, vault : Vaults \cup {None},
           amountIn : Nat, minOut : Nat, deadline : Nat]

\* What the constants of an instance are: amounts, and addresses that differ.
ConduitsAssumption ==
    /\ Amounts \subseteq Nat /\ Funds \in Nat /\ ValidFor \in Nat
    /\ Treasuries \cap Contracts = {} /\ None \notin Vaults
    /\ Vaults \cap {"USDC", "EURC", "venue", "swapAndDeposit"} = {}
    /\ None \notin [pc : {"asking", "submitting"}, intent : Intent]

Init ==
    /\ bal = [h \in Treasuries \cup Contracts |-> [tok \in Tokens |->
                 IF h \in Treasuries /\ tok \in {"USDC", "EURC"} THEN Funds ELSE 0]]
    /\ price = 2 /\ now = 0
    /\ targets = Targets /\ vaults = Vaults /\ routes = {"venue"} \cup Vaults
    /\ gate = [t \in Treasuries |-> None]
    /\ signed = {} /\ used = {} /\ redeems = {}
    /\ allowance = [t \in Treasuries |-> 0]
    /\ configs = <<>> /\ adopted = [t \in Treasuries |-> None]
    /\ changes = 0 /\ mistakes = 0
    /\ owed = [t \in Treasuries |-> bal[t]]

\* One more decision of a person or move of the market, within the bound.
Decision == changes < MaxChanges /\ changes' = changes + 1
MaySign == Cardinality(signed) + Cardinality(redeems) < MaxSigned

-----------------------------------------------------------------------------
(* The agent: quote, gate, approval *)

TokenIn(i) == IF i.kind = "swapAndDeposit" THEN "EURC" ELSE "USDC"
TokenOut(i) == IF i.kind = "venue" THEN "EURC" ELSE i.vault

\* What the quote promises, less the slippage the user accepts: all of it or half.
floors(kind, amount) ==
    LET expected == IF kind \in Vaults THEN amount ELSE price * amount
    IN {expected, expected \div 2}

\* A tool quotes and assembles a request (buildSwapRequest,
\* buildEarnDepositRequest, assemble); the nonce is the intent itself.
ask(t, kind, v, amount, minOut) ==
    /\ gate[t] = None /\ Decision /\ MaySign
    /\ (kind = "venue") <=> (v = None)
    /\ kind \in Vaults => kind = v
    /\ gate' = [gate EXCEPT ![t] =
          [pc |-> "asking",
           intent |-> [beneficiary |-> t, kind |-> kind, vault |-> v, amountIn |-> amount,
                       minOut |-> minOut, deadline |-> now + ValidFor]]]
    /\ UNCHANGED <<bal, world, registry, approvals, used, earn, mistakes, owed>>

\* runGate: "y" makes the owners sign (approveWithQuorum); anything else ends it.
answer(t, yes) ==
    /\ gate[t] # None /\ gate[t].pc = "asking"
    /\ gate' = [gate EXCEPT ![t] = IF yes THEN [@ EXCEPT !.pc = "submitting"] ELSE None]
    /\ signed' = IF yes THEN signed \cup {gate[t].intent} ELSE signed
    /\ UNCHANGED <<bal, world, registry, redeems, allowance, used, earn, counts, owed>>

-----------------------------------------------------------------------------
(* TreasurySwapAndDeposit.run: what is left where, when the venue fills f *)

\* The swap's proceeds and any USDC already here are deposited for the
\* beneficiary; what was not filled goes back to the conduit.
depositBase(i, f) == bal["swapAndDeposit"]["USDC"] + price * f

runSwapAndDeposit(i, f) ==
    [ok |-> {"venue", i.vault} \subseteq routes /\ depositBase(i, f) >= i.minOut,
     kept |-> i.amountIn - f + bal["swapAndDeposit"]["EURC"],
     out |-> 0, direct |-> depositBase(i, f),
     left |-> bal["swapAndDeposit"]["USDC"] + price * f - depositBase(i, f)]

\* What the target of an intent does with the approved tokens: those it leaves
\* with the conduit, those it pays to the conduit and to the treasury.
outcome(i, f) ==
    IF i.kind = "venue"
    THEN [ok |-> TRUE, kept |-> i.amountIn - f, out |-> price * f, direct |-> 0, left |-> 0]
    ELSE IF i.kind = "swapAndDeposit" THEN runSwapAndDeposit(i, f)
    ELSE [ok |-> TRUE, kept |-> 0, out |-> 0, direct |-> f, left |-> 0]

-----------------------------------------------------------------------------
(* TreasuryConduit *)

\* The sweep after the call: the holder's balance of a token goes to t.
sweeps(i) == {TokenIn(i), TokenOut(i)}

\* The floor is measured on the treasury's balance of tokenOut.
reachesFloor_quoted(i, gained) == TRUE
reachesFloor(i, gained) == gained >= i.minOut

\* execute, called by anyone with a signature of the quorum.
execute(i, f) ==
    LET t == i.beneficiary
        tin == TokenIn(i)
        tout == TokenOut(i)
        o == outcome(i, f)
        \* the conduit when the target has returned
        held == [bal["conduit"] EXCEPT ![tin] = @ + o.kept, ![tout] = @ + o.out]
        swept(tok) == IF tok \in sweeps(i) THEN held[tok] ELSE 0
        gained == swept(tout) + o.direct
    IN /\ i \in signed /\ i \notin used
       /\ i.kind \in targets
       /\ now <= i.deadline /\ now < i.deadline      \* the conduit's; the token's validBefore
       /\ bal[t][tin] >= i.amountIn
       /\ o.ok /\ reachesFloor(i, gained)
       /\ bal' = [bal EXCEPT
             ![t] = [tok \in Tokens |->
                        @[tok] + swept(tok) - (IF tok = tin THEN i.amountIn ELSE 0)
                        + (IF tok = tout THEN o.direct ELSE 0)],
             !["conduit"] = [tok \in Tokens |-> held[tok] - swept(tok)],
             !["swapAndDeposit"] = IF i.kind = "swapAndDeposit"
                                   THEN [@ EXCEPT !["EURC"] = 0, !["USDC"] = o.left] ELSE @]
       /\ used' = used \cup {i}
       /\ owed' = [owed EXCEPT ![t][tin] = @ - i.amountIn, ![t][tout] = @ + i.minOut]

\* submitApproved through the agent's session key.
submit(t, f) ==
    /\ gate[t] # None /\ gate[t].pc = "submitting" /\ execute(gate[t].intent, f)
    /\ gate' = [gate EXCEPT ![t] = None]
    /\ UNCHANGED <<world, registry, approvals, earn, counts>>

\* The submission fails; the signature stays good until its deadline.
submitFails(t) ==
    /\ gate[t] # None /\ gate[t].pc = "submitting"
    /\ gate' = [gate EXCEPT ![t] = None]
    /\ UNCHANGED <<bal, world, registry, approvals, used, earn, counts, owed>>

relay(i, f) == execute(i, f) /\ UNCHANGED <<world, registry, gate, approvals, earn, counts>>

-----------------------------------------------------------------------------
(* TreasuryRedeemConduit *)

\* The treasury approves its shares and its quorum signs a Redeem.
signRedeem(t, v, shares, nonce) ==
    /\ Decision /\ MaySign
    /\ redeems' = redeems \cup {[treasury |-> t, vault |-> v, shares |-> shares,
                                 minAssets |-> shares, deadline |-> now + ValidFor,
                                 nonce |-> nonce]}
    /\ allowance' = [allowance EXCEPT ![t] = shares]
    /\ UNCHANGED <<bal, world, registry, gate, signed, used, earn, mistakes, owed>>

\* redeem: the vault burns the shares and pays `assets` to the treasury.
redeem(r, assets) ==
    /\ r.vault \in vaults /\ r.shares > 0 /\ now <= r.deadline
    /\ [treasury |-> r.treasury, nonce |-> r.nonce] \notin used
    /\ r.shares <= bal[r.treasury][r.vault] /\ r.shares <= allowance[r.treasury]
    /\ assets >= r.minAssets
    /\ used' = used \cup {[treasury |-> r.treasury, nonce |-> r.nonce]}
    /\ allowance' = [allowance EXCEPT ![r.treasury] = @ - r.shares]
    /\ bal' = [bal EXCEPT ![r.treasury][r.vault] = @ - r.shares,
                          ![r.treasury]["USDC"] = @ + assets]
    /\ owed' = [owed EXCEPT ![r.treasury][r.vault] = @ - r.shares,
                            ![r.treasury]["USDC"] = @ + r.minAssets]
    /\ UNCHANGED <<world, registry, gate, signed, redeems, earn, counts>>

-----------------------------------------------------------------------------
(* BufiEarnModule: a config is known by its content, here its vault *)

\* setConfig, by the module's owner.
setConfig(v) ==
    /\ Decision
    /\ configs' = IF v \in Range(configs) THEN configs ELSE Append(configs, v)
    /\ UNCHANGED <<bal, world, registry, gate, approvals, used, adopted, mistakes, owed>>

\* onInstall, changeConfigHash and onUninstall; the hash need not be known yet.
adopt(t, v) ==
    /\ Decision /\ adopted[t] # v
    /\ adopted' = [adopted EXCEPT ![t] = v]
    /\ UNCHANGED <<bal, world, registry, gate, approvals, used, configs, mistakes, owed>>

vaultOf_latest(t) == IF configs = <<>> THEN None ELSE configs[Len(configs)]
vaultOf(t) == adopted[t]

\* autoEarn, sent by a relayer: exactly the amount leaves, some shares arrive.
autoEarn(t, amount, shares) ==
    LET v == vaultOf(t) IN
    /\ adopted[t] # None /\ v \in Range(configs)
    /\ amount <= bal[t]["USDC"] /\ shares > 0
    /\ bal' = [bal EXCEPT ![t]["USDC"] = @ - amount, ![t][v] = @ + shares]
    /\ owed' = [owed EXCEPT ![t]["USDC"] = @ - amount, ![t][v] = @ + 1]
    /\ UNCHANGED <<world, registry, gate, approvals, used, earn, counts>>

-----------------------------------------------------------------------------
(* Governance and the world *)

setTarget(x) ==
    /\ Decision
    /\ targets' = IF x \in targets THEN targets \ {x} ELSE targets \cup {x}
    /\ UNCHANGED <<bal, world, vaults, routes, gate, approvals, used, earn, mistakes, owed>>

setVault(v) ==
    /\ Decision
    /\ vaults' = IF v \in vaults THEN vaults \ {v} ELSE vaults \cup {v}
    /\ UNCHANGED <<bal, world, targets, routes, gate, approvals, used, earn, mistakes, owed>>

\* setVenue and setDest of the swap-and-deposit contract.
setRoute(x) ==
    /\ Decision
    /\ routes' = IF x \in routes THEN routes \ {x} ELSE routes \cup {x}
    /\ UNCHANGED <<bal, world, targets, vaults, gate, approvals, used, earn, mistakes, owed>>

\* Somebody sends a token to one of the contracts by mistake.
sendByMistake(c, tok) ==
    /\ Decision /\ mistakes' = mistakes + 1
    /\ bal' = [bal EXCEPT ![c][tok] = @ + 1]
    /\ UNCHANGED <<world, registry, gate, approvals, used, earn, owed>>

\* rescue: the owner returns what the conduit holds, here to a treasury.
rescue(tok, t) ==
    /\ bal["conduit"][tok] > 0
    /\ bal' = [bal EXCEPT !["conduit"][tok] = 0, ![t][tok] = @ + bal["conduit"][tok]]
    /\ UNCHANGED <<world, registry, gate, approvals, used, earn, counts, owed>>

priceMoves ==
    /\ Decision
    /\ price' \in Prices \ {price}
    /\ UNCHANGED <<bal, now, registry, gate, approvals, used, earn, mistakes, owed>>

Tick == /\ now < MaxTime /\ now' = now + 1
        /\ UNCHANGED <<bal, price, registry, gate, approvals, used, earn, counts, owed>>

Next ==
    \/ \E t \in Treasuries, kind \in Targets, v \in Vaults \cup {None}, a \in Amounts :
          \E m \in floors(kind, a) : ask(t, kind, v, a, m)
    \/ \E t \in Treasuries, yes \in BOOLEAN : answer(t, yes)
    \/ \E t \in Treasuries : submitFails(t)
    \/ \E t \in Treasuries : gate[t] # None
          /\ \E f \in 0..gate[t].intent.amountIn : submit(t, f)
    \/ \E i \in signed : \E f \in 0..i.amountIn : relay(i, f)
    \/ \E t \in Treasuries, v \in Vaults, s \in Amounts, n \in {1} : signRedeem(t, v, s, n)
    \/ \E r \in redeems, loss \in {0, 1} : redeem(r, r.shares - loss)
    \/ \E v \in Vaults : setConfig(v) \/ setVault(v)
    \/ \E t \in Treasuries, v \in Vaults \cup {None} : adopt(t, v)
    \/ \E t \in Treasuries, a \in Amounts, s \in {0, 1} : autoEarn(t, a, s)
    \/ \E x \in Targets : setTarget(x)
    \/ \E x \in {"venue"} \cup Vaults : setRoute(x)
    \/ \E c \in Contracts, tok \in {"USDC", "EURC"} : sendByMistake(c, tok)
    \/ \E tok \in Tokens, t \in Treasuries : rescue(tok, t)
    \/ priceMoves
    \/ Tick

Spec == Init /\ [][Next]_vars

-----------------------------------------------------------------------------
(* Properties *)

\* Type invariant.  No holder owes a token, and a request at a treasury's gate is its own.
TypeOK ==
    /\ \A h \in DOMAIN bal, tok \in Tokens : bal[h][tok] >= 0
    /\ targets \subseteq Targets /\ vaults \cup routes \subseteq Targets /\ price \in Prices
    /\ \A t \in Treasuries : /\ adopted[t] \in Vaults \cup {None}
                             /\ gate[t] # None => gate[t].intent.beneficiary = t

\* Every treasury has at least what its own quorum agreed to: whatever moves,
\* whoever submits and however often, it gives only the signed amounts and gets
\* at least the signed floors, under partial fills, stale quotes, retries after
\* a failed submission, and other treasuries using the same contracts.
TreasuriesGetTheirFloor ==
    \A t \in Treasuries, tok \in Tokens : bal[t][tok] >= owed[t][tok]

\* The conduit and the swap-and-deposit contract hold nothing between
\* transactions but what was sent there by mistake: no execution adds to it.
NothingStaysBehind ==
    [][\A c \in Contracts, tok \in Tokens :
          bal'[c][tok] > bal[c][tok] => mistakes' > mistakes]_vars

\* A position opens only in a vault the treasury's owners chose, in an intent
\* they signed or as the config they adopted: registering another config never
\* reroutes what the relayer earns.
SharesWhereAgreed ==
    [][\A t \in Treasuries, v \in Vaults : bal'[t][v] > bal[t][v] =>
          \/ adopted[t] = v
          \/ \E i \in used' \ used : i \in signed /\ i.beneficiary = t /\ i.vault = v]_vars

\* Tokens end up only where the owners agreed.
TokensGoWhereAgreed == NothingStaysBehind /\ SharesWhereAgreed
=============================================================================
