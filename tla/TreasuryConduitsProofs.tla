----------------------- MODULE TreasuryConduitsProofs -----------------------
(***************************************************************************)
(* Theorems about TreasuryConduits, for any treasuries, vaults and amounts *)
(* and any number of decisions, mistakes and signed intents.               *)
(***************************************************************************)
EXTENDS TreasuryConduits, TLAPS

-----------------------------------------------------------------------------
(* The inductive invariant.                                                *)

\* An intent goes from one token into another: the venue has no vault, the
\* other targets have one, and a vault is its own.
WellFormed(i) == /\ i \in Intent
                 /\ (i.kind = "venue") <=> (i.vault = None)
                 /\ i.kind \in Vaults => i.kind = i.vault

Redeem == [treasury : Treasuries, vault : Vaults, shares : Nat, minAssets : Nat,
           deadline : Nat, nonce : {1}]

Holders == Treasuries \cup Contracts

MoneyTypes ==
    /\ bal \in [Holders -> [Tokens -> Nat]]
    /\ owed \in [Treasuries -> [Tokens -> Int]]

WorldTypes ==
    /\ price \in Prices /\ now \in Nat /\ mistakes \in Nat
    /\ targets \subseteq Targets /\ vaults \subseteq Vaults
    /\ routes \subseteq {"venue"} \cup Vaults
    /\ adopted \in [Treasuries -> Vaults \cup {None}]

\* What is at a gate, or was signed, is a well-formed request of its treasury.
RequestTypes ==
    /\ \A i \in signed : WellFormed(i)
    /\ redeems \subseteq Redeem
    /\ gate \in [Treasuries -> {None} \cup [pc : {"asking", "submitting"}, intent : Intent]]
    /\ \A t \in Treasuries : gate[t] # None =>
          WellFormed(gate[t].intent) /\ gate[t].intent.beneficiary = t

\* The conduit has no shares of a vault: a mistake is made with cash.
NoSharesInConduit == \A v \in Vaults : bal["conduit"][v] = 0

IInv == /\ MoneyTypes /\ WorldTypes /\ RequestTypes
        /\ NoSharesInConduit /\ TreasuriesGetTheirFloor

\* The two action properties, as formulas of one step.
LeavesNothing ==
    \A c \in Contracts, tok \in Tokens :
        bal'[c][tok] > bal[c][tok] => mistakes' > mistakes
OpensWhereAgreed ==
    \A t \in Treasuries, v \in Vaults : bal'[t][v] > bal[t][v] =>
        \/ adopted[t] = v
        \/ \E i \in used' \ used : i \in signed /\ i.beneficiary = t /\ i.vault = v

-----------------------------------------------------------------------------
(* Steps that move no money.                                               *)

LEMMA MoneyUntouched ==
    ASSUME IInv, UNCHANGED <<bal, owed>>
    PROVE  /\ MoneyTypes' /\ NoSharesInConduit' /\ TreasuriesGetTheirFloor'
           /\ LeavesNothing /\ OpensWhereAgreed
<1>1. /\ MoneyTypes' /\ NoSharesInConduit' /\ TreasuriesGetTheirFloor'
    BY DEF IInv, MoneyTypes, NoSharesInConduit, TreasuriesGetTheirFloor
<1>2. \A h \in Holders, tok \in Tokens : ~(bal'[h][tok] > bal[h][tok])
  <2> SUFFICES ASSUME NEW h \in Holders, NEW tok \in Tokens
               PROVE  ~(bal[h][tok] > bal[h][tok])
    OBVIOUS
  <2>1. bal[h][tok] \in Nat
    BY DEF IInv, MoneyTypes
  <2> QED
    BY <2>1
<1>3. Vaults \subseteq Tokens
    BY DEF Tokens
<1> QED
    BY <1>1, <1>2, <1>3 DEF LeavesNothing, OpensWhereAgreed, Holders

LEMMA RequestsUntouched ==
    ASSUME IInv, UNCHANGED <<signed, redeems, gate>>
    PROVE  RequestTypes'
BY DEF IInv, RequestTypes, WellFormed, Intent

LEMMA WorldUntouched ==
    ASSUME IInv, UNCHANGED <<price, now, mistakes, targets, vaults, routes, adopted>>
    PROVE  WorldTypes'
BY DEF IInv, WorldTypes

-----------------------------------------------------------------------------
(* The agent's gate.                                                       *)

\* A floor is an amount.
LEMMA FloorsAreAmounts ==
    ASSUME NEW kind, NEW a \in Nat, price \in Prices, NEW m \in floors(kind, a)
    PROVE  m \in Nat
<1>1. \A x \in Nat : x \div 2 \in Nat
    OBVIOUS
<1>2. price * a \in Nat
    BY DEF Prices
<1> QED
    BY <1>1, <1>2 DEF floors

LEMMA askKeeps ==
    ASSUME ConduitsAssumption, IInv, NEW t \in Treasuries, NEW kind \in Targets,
           NEW v \in Vaults \cup {None}, NEW a \in Amounts, NEW m \in floors(kind, a),
           ask(t, kind, v, a, m)
    PROVE  IInv' /\ LeavesNothing /\ OpensWhereAgreed
<1> DEFINE intent == [beneficiary |-> t, kind |-> kind, vault |-> v, amountIn |-> a,
                      minOut |-> m, deadline |-> now + ValidFor]
<1>1. a \in Nat /\ m \in Nat /\ now + ValidFor \in Nat
    BY FloorsAreAmounts DEF ConduitsAssumption, IInv, WorldTypes
<1>2. WellFormed(intent) /\ intent.beneficiary = t
    BY <1>1 DEF ask, WellFormed, Intent
<1>3. gate' = [gate EXCEPT ![t] = [pc |-> "asking", intent |-> intent]]
    BY DEF ask
<1>4. RequestTypes'
  <2> HIDE DEF intent
  <2>1. intent \in Intent
    BY <1>2 DEF WellFormed
  <2>2. gate' \in [Treasuries -> {None} \cup [pc : {"asking", "submitting"}, intent : Intent]]
    BY <1>3, <2>1 DEF IInv, RequestTypes
  <2>3. \A u \in Treasuries : gate'[u] # None =>
           WellFormed(gate'[u].intent) /\ gate'[u].intent.beneficiary = u
    BY <1>2, <1>3 DEF IInv, RequestTypes
  <2>4. signed' = signed /\ redeems' = redeems
    BY DEF ask, approvals
  <2> QED
    BY <2>2, <2>3, <2>4 DEF IInv, RequestTypes, WellFormed
<1>5. UNCHANGED <<bal, owed>>
    BY DEF ask
<1>6. WorldTypes'
    BY WorldUntouched DEF ask, world, registry, earn
<1> QED
    BY <1>4, <1>5, <1>6, MoneyUntouched DEF IInv

LEMMA answerKeeps ==
    ASSUME ConduitsAssumption, IInv, NEW t \in Treasuries, NEW yes \in BOOLEAN,
           answer(t, yes)
    PROVE  IInv' /\ LeavesNothing /\ OpensWhereAgreed
<1>1. /\ gate[t] # None
      /\ gate[t] \in [pc : {"asking", "submitting"}, intent : Intent]
      /\ WellFormed(gate[t].intent) /\ gate[t].intent.beneficiary = t
    BY DEF answer, IInv, RequestTypes
<1> DEFINE g == IF yes THEN [gate[t] EXCEPT !.pc = "submitting"] ELSE None
<1>2. gate' = [gate EXCEPT ![t] = g]
    BY DEF answer
<1>3. /\ g \in {None} \cup [pc : {"asking", "submitting"}, intent : Intent]
      /\ g # None => g.intent = gate[t].intent
    BY <1>1
<1>4. \A i \in signed' : WellFormed(i)
    BY <1>1 DEF answer, IInv, RequestTypes
<1>5. RequestTypes'
  <2> HIDE DEF g
  <2>1. gate' \in [Treasuries -> {None} \cup [pc : {"asking", "submitting"}, intent : Intent]]
    BY <1>2, <1>3 DEF IInv, RequestTypes
  <2>2. \A u \in Treasuries : gate'[u] # None =>
           WellFormed(gate'[u].intent) /\ gate'[u].intent.beneficiary = u
    BY <1>1, <1>2, <1>3 DEF IInv, RequestTypes
  <2>3. redeems' = redeems
    BY DEF answer
  <2> QED
    BY <1>4, <2>1, <2>2, <2>3 DEF IInv, RequestTypes, WellFormed
<1>6. UNCHANGED <<bal, owed>>
    BY DEF answer
<1>7. WorldTypes'
    BY WorldUntouched DEF answer, world, registry, earn, counts
<1> QED
    BY <1>5, <1>6, <1>7, MoneyUntouched DEF IInv

\* A gate that closes leaves the others as they were.
LEMMA GateCloses ==
    ASSUME IInv, NEW t \in Treasuries, gate' = [gate EXCEPT ![t] = None],
           UNCHANGED <<signed, redeems>>
    PROVE  RequestTypes'
<1>1. gate' \in [Treasuries -> {None} \cup [pc : {"asking", "submitting"}, intent : Intent]]
    BY DEF IInv, RequestTypes
<1>2. \A u \in Treasuries : gate'[u] # None =>
         WellFormed(gate'[u].intent) /\ gate'[u].intent.beneficiary = u
    BY DEF IInv, RequestTypes
<1> QED
    BY <1>1, <1>2 DEF IInv, RequestTypes, WellFormed

LEMMA submitFailsKeeps ==
    ASSUME IInv, NEW t \in Treasuries, submitFails(t)
    PROVE  IInv' /\ LeavesNothing /\ OpensWhereAgreed
<1>1. RequestTypes'
    BY GateCloses DEF submitFails, approvals
<1>2. WorldTypes'
    BY WorldUntouched DEF submitFails, world, registry, earn, counts
<1>3. UNCHANGED <<bal, owed>>
    BY DEF submitFails
<1> QED
    BY <1>1, <1>2, <1>3, MoneyUntouched DEF IInv

-----------------------------------------------------------------------------
(* TreasuryConduit.execute.                                                *)

\* The tokens an intent takes and gives.
LEMMA TokensOfIntent ==
    ASSUME ConduitsAssumption, NEW i, WellFormed(i)
    PROVE  /\ TokenIn(i) \in Tokens /\ TokenOut(i) \in Tokens
           /\ TokenIn(i) # TokenOut(i) /\ TokenIn(i) \notin Vaults
           /\ TokenOut(i) \in Vaults => TokenOut(i) = i.vault
BY DEF ConduitsAssumption, WellFormed, Intent, Targets, Tokens, TokenIn, TokenOut

\* Whatever the venue fills, the target leaves, pays and keeps amounts, and
\* the swap-and-deposit contract keeps nothing.
LEMMA OutcomeIsAmounts ==
    ASSUME ConduitsAssumption, IInv, NEW i, WellFormed(i), NEW f \in 0 .. i.amountIn
    PROVE  /\ outcome(i, f).kept \in Nat /\ outcome(i, f).out \in Nat
           /\ outcome(i, f).direct \in Nat /\ outcome(i, f).left = 0
<1>1. i.amountIn \in Nat
    BY DEF WellFormed, Intent
<1>2. f \in Nat /\ i.amountIn - f \in Nat
    BY <1>1
<1>3. price * f \in Nat
    BY <1>2 DEF IInv, WorldTypes, Prices
<1>4. bal["swapAndDeposit"]["USDC"] \in Nat /\ bal["swapAndDeposit"]["EURC"] \in Nat
    BY DEF IInv, MoneyTypes, Holders, Contracts, Tokens
<1>5. CASE i.kind = "venue"
    BY <1>2, <1>3, <1>5 DEF outcome
<1>6. CASE i.kind = "swapAndDeposit"
  <2> DEFINE base == depositBase(i, f)
             kept == i.amountIn - f + bal["swapAndDeposit"]["EURC"]
             left == bal["swapAndDeposit"]["USDC"] + price * f - base
             ok == {"venue", i.vault} \subseteq routes /\ base >= i.minOut
  <2>1. outcome(i, f) = [ok |-> ok, kept |-> kept, out |-> 0, direct |-> base, left |-> left]
    BY <1>6 DEF outcome, runSwapAndDeposit
  <2>2. base \in Nat /\ left = 0 /\ kept \in Nat
    BY <1>2, <1>3, <1>4 DEF depositBase
  <2> HIDE DEF base, kept, left, ok
  <2> QED
    BY <2>1, <2>2
<1>7. CASE i.kind \notin {"venue", "swapAndDeposit"}
    BY <1>2, <1>7 DEF outcome
<1> QED
    BY <1>5, <1>6, <1>7

\* The treasury gives the signed amount and gets at least the floor, and the
\* contracts end with no more than they had.
LEMMA executeKeeps ==
    ASSUME ConduitsAssumption, IInv, NEW i, WellFormed(i), NEW f \in 0 .. i.amountIn,
           execute(i, f), mistakes' = mistakes
    PROVE  /\ MoneyTypes' /\ NoSharesInConduit' /\ TreasuriesGetTheirFloor'
           /\ LeavesNothing /\ OpensWhereAgreed
<1> DEFINE t == i.beneficiary
           tin == TokenIn(i)
           tout == TokenOut(i)
           o == outcome(i, f)
           held == [bal["conduit"] EXCEPT ![tin] = @ + o.kept, ![tout] = @ + o.out]
           swept(tok) == IF tok \in sweeps(i) THEN held[tok] ELSE 0
           T == [tok \in Tokens |->
                    bal[t][tok] + swept(tok) - (IF tok = tin THEN i.amountIn ELSE 0)
                    + (IF tok = tout THEN o.direct ELSE 0)]
           C == [tok \in Tokens |-> held[tok] - swept(tok)]
           S == IF i.kind = "swapAndDeposit"
                THEN [bal["swapAndDeposit"] EXCEPT !["EURC"] = 0, !["USDC"] = o.left]
                ELSE bal["swapAndDeposit"]
<1>1. /\ t \in Treasuries /\ i.amountIn \in Nat /\ i.minOut \in Nat
      /\ t # "conduit" /\ t # "swapAndDeposit"
    BY DEF WellFormed, Intent, ConduitsAssumption, Contracts
<1>2. tin \in Tokens /\ tout \in Tokens /\ tin # tout /\ tin \notin Vaults
      /\ (tout \in Vaults => tout = i.vault)
    BY TokensOfIntent
<1>3. o.kept \in Nat /\ o.out \in Nat /\ o.direct \in Nat /\ o.left = 0
    BY OutcomeIsAmounts
<1>4. /\ \A h \in Holders : bal[h] \in [Tokens -> Nat]
      /\ "conduit" \in Holders /\ "swapAndDeposit" \in Holders /\ t \in Holders
    BY <1>1 DEF IInv, MoneyTypes, Holders, Contracts
<1>5. /\ bal[t][tin] >= i.amountIn /\ swept(tout) + o.direct >= i.minOut
      /\ i \in signed /\ i \notin used /\ used' = used \cup {i}
    BY DEF execute, reachesFloor
<1>6. bal' = [bal EXCEPT ![t] = T, !["conduit"] = C, !["swapAndDeposit"] = S]
    BY <1>1, <1>4 DEF execute
<1>7. owed' = [owed EXCEPT ![t][tin] = @ - i.amountIn, ![t][tout] = @ + i.minOut]
    BY DEF execute
<1>8. sweeps(i) = {tin, tout}
    BY DEF sweeps
<1> HIDE DEF t, tin, tout, o
<1>9. held \in [Tokens -> Nat] /\ \A tok \in Tokens \ {tin, tout} : held[tok] = bal["conduit"][tok]
    BY <1>2, <1>3, <1>4
<1> HIDE DEF held
<1>10. \A tok \in Tokens : /\ swept(tok) \in Nat
                           /\ tok \in {tin, tout} => swept(tok) = held[tok]
                           /\ tok \notin {tin, tout} => swept(tok) = 0
    BY <1>8, <1>9
<1> HIDE DEF swept
<1>11. /\ T \in [Tokens -> Nat]
       /\ \A tok \in Tokens \ {tin, tout} : T[tok] = bal[t][tok]
       /\ T[tin] >= bal[t][tin] - i.amountIn
       /\ T[tout] >= bal[t][tout] + i.minOut
  <2>1. \A tok \in Tokens \ {tin, tout} : T[tok] = bal[t][tok]
    BY <1>4, <1>10
  <2>2. T[tin] = bal[t][tin] + swept(tin) - i.amountIn
    BY <1>1, <1>2, <1>4, <1>10
  <2>3. T[tout] = bal[t][tout] + swept(tout) + o.direct
    BY <1>1, <1>2, <1>3, <1>4, <1>10
  <2>4. bal[t][tin] \in Nat /\ bal[t][tout] \in Nat /\ swept(tin) \in Nat /\ swept(tout) \in Nat
    BY <1>2, <1>4, <1>10
  <2>5. T[tin] \in Nat /\ T[tin] >= bal[t][tin] - i.amountIn
    BY <1>1, <1>5, <2>2, <2>4
  <2>6. T[tout] \in Nat /\ T[tout] >= bal[t][tout] + i.minOut
    BY <1>1, <1>3, <1>5, <2>3, <2>4
  <2>7. \A tok \in Tokens : T[tok] \in Nat
    BY <1>4, <2>1, <2>5, <2>6
  <2>8. T = [tok \in Tokens |-> T[tok]]
    OBVIOUS
  <2> HIDE DEF T
  <2> QED
    BY <2>1, <2>5, <2>6, <2>7, <2>8
<1>12. /\ C \in [Tokens -> Nat]
       /\ \A tok \in Tokens : C[tok] = 0 \/ (tok \notin {tin, tout} /\ C[tok] = bal["conduit"][tok])
  <2>1. \A tok \in Tokens : held[tok] - swept(tok) =
                              IF tok \in {tin, tout} THEN 0 ELSE bal["conduit"][tok]
    BY <1>4, <1>9, <1>10
  <2> QED
    BY <1>4, <2>1
<1>13. /\ S \in [Tokens -> Nat]
       /\ \A tok \in Tokens : S[tok] = 0 \/ S[tok] = bal["swapAndDeposit"][tok]
  <2> DEFINE b == bal["swapAndDeposit"]
  <2>1. b \in [Tokens -> Nat]
    BY <1>4
  <2>2. CASE i.kind = "swapAndDeposit"
    <3>1. S = [b EXCEPT !["EURC"] = 0, !["USDC"] = 0]
      BY <1>3, <2>2
    <3> HIDE DEF S, b
    <3> QED
      BY <2>1, <3>1 DEF b
  <2>3. CASE i.kind # "swapAndDeposit"
    BY <2>1, <2>3
  <2> QED
    BY <2>2, <2>3
<1> HIDE DEF T, C, S
<1>14. /\ bal' \in [Holders -> [Tokens -> Nat]]
       /\ bal'[t] = T /\ bal'["conduit"] = C /\ bal'["swapAndDeposit"] = S
       /\ \A h \in Treasuries : h # t => bal'[h] = bal[h]
  <2>1. bal \in [Holders -> [Tokens -> Nat]]
    BY DEF IInv, MoneyTypes
  <2>2. \A h \in Treasuries : h \in Holders /\ h # "conduit" /\ h # "swapAndDeposit"
    BY DEF Holders, ConduitsAssumption, Contracts
  <2> QED
    BY <1>1, <1>4, <1>6, <1>11, <1>12, <1>13, <2>1, <2>2
<1>15. /\ owed' \in [Treasuries -> [Tokens -> Int]]
       /\ owed'[t][tin] = owed[t][tin] - i.amountIn
       /\ owed'[t][tout] = owed[t][tout] + i.minOut
       /\ \A tok \in Tokens \ {tin, tout} : owed'[t][tok] = owed[t][tok]
       /\ \A h \in Treasuries : h # t => owed'[h] = owed[h]
  <2>1. owed \in [Treasuries -> [Tokens -> Int]]
    BY DEF IInv, MoneyTypes
  <2> QED
    BY <1>1, <1>2, <1>7, <2>1
<1>16. TreasuriesGetTheirFloor'
  <2> SUFFICES ASSUME NEW h \in Treasuries, NEW tok \in Tokens
               PROVE  bal'[h][tok] >= owed'[h][tok]
    BY DEF TreasuriesGetTheirFloor
  <2>1. \A k \in Tokens : bal[h][k] >= owed[h][k] /\ bal[h][k] \in Nat /\ owed[h][k] \in Int
    BY DEF IInv, TreasuriesGetTheirFloor, MoneyTypes, Holders
  <2>2. CASE h # t
    BY <1>14, <1>15, <2>1, <2>2
  <2>3. CASE h = t /\ tok = tin
    BY <1>1, <1>2, <1>11, <1>14, <1>15, <2>1, <2>3
  <2>4. CASE h = t /\ tok = tout
    BY <1>1, <1>2, <1>11, <1>14, <1>15, <2>1, <2>4
  <2>5. CASE h = t /\ tok \notin {tin, tout}
    BY <1>11, <1>14, <1>15, <2>1, <2>5
  <2> QED
    BY <2>2, <2>3, <2>4, <2>5
<1>17. NoSharesInConduit'
    BY <1>12, <1>14 DEF IInv, NoSharesInConduit, Tokens
<1>18. LeavesNothing
  <2> SUFFICES ASSUME NEW c \in Contracts, NEW tok \in Tokens
               PROVE  ~(bal'[c][tok] > bal[c][tok])
    BY DEF LeavesNothing
  <2>1. bal[c][tok] \in Nat
    BY <1>4 DEF Holders
  <2>2. bal'[c][tok] = 0 \/ bal'[c][tok] = bal[c][tok]
    BY <1>12, <1>13, <1>14 DEF Contracts
  <2> QED
    BY <2>1, <2>2
<1>19. OpensWhereAgreed
  <2> SUFFICES ASSUME NEW h \in Treasuries, NEW v \in Vaults, bal'[h][v] > bal[h][v]
               PROVE  \E j \in used' \ used : j \in signed /\ j.beneficiary = h /\ j.vault = v
    BY DEF OpensWhereAgreed
  <2>1. bal[h][v] \in Nat /\ v \in Tokens
    BY <1>4 DEF Holders, Tokens
  <2>2. ~(bal[h][v] > bal[h][v])
    BY <2>1
  <2>3. h = t /\ v \in {tin, tout}
    BY <1>11, <1>14, <2>1, <2>2
  <2> QED
    BY <1>2, <1>5, <2>3 DEF t
<1> QED
    BY <1>14, <1>15, <1>16, <1>17, <1>18, <1>19 DEF MoneyTypes

LEMMA submitKeeps ==
    ASSUME ConduitsAssumption, IInv, NEW t \in Treasuries, gate[t] # None,
           NEW f \in 0 .. gate[t].intent.amountIn, submit(t, f)
    PROVE  IInv' /\ LeavesNothing /\ OpensWhereAgreed
<1>1. WellFormed(gate[t].intent)
    BY DEF IInv, RequestTypes
<1>2. RequestTypes'
    BY GateCloses DEF submit, approvals
<1>3. WorldTypes' /\ mistakes' = mistakes
    BY WorldUntouched DEF submit, world, registry, earn, counts
<1>4. execute(gate[t].intent, f)
    BY DEF submit
<1> QED
    BY <1>1, <1>2, <1>3, <1>4, executeKeeps DEF IInv

LEMMA relayKeeps ==
    ASSUME ConduitsAssumption, IInv, NEW i \in signed, NEW f \in 0 .. i.amountIn,
           relay(i, f)
    PROVE  IInv' /\ LeavesNothing /\ OpensWhereAgreed
<1>1. WellFormed(i)
    BY DEF IInv, RequestTypes
<1>2. RequestTypes'
    BY RequestsUntouched DEF relay, approvals
<1>3. WorldTypes' /\ mistakes' = mistakes
    BY WorldUntouched DEF relay, world, registry, earn, counts
<1>4. execute(i, f)
    BY DEF relay
<1> QED
    BY <1>1, <1>2, <1>3, <1>4, executeKeeps DEF IInv

-----------------------------------------------------------------------------
(* The redeem conduit and the Earn module.                                 *)

\* A treasury gives a of token x for b of token y, having agreed to c.
Trades(t, x, y, a, b, c) ==
    /\ bal' = [bal EXCEPT ![t][x] = @ - a, ![t][y] = @ + b]
    /\ owed' = [owed EXCEPT ![t][x] = @ - a, ![t][y] = @ + c]

LEMMA TradeKeeps ==
    ASSUME ConduitsAssumption, IInv, NEW t \in Treasuries,
           NEW x \in Tokens, NEW y \in Tokens, x # y,
           NEW a \in Nat, NEW b \in Nat, NEW c \in Int, b >= c, a <= bal[t][x],
           Trades(t, x, y, a, b, c)
    PROVE  /\ MoneyTypes' /\ NoSharesInConduit' /\ TreasuriesGetTheirFloor'
           /\ LeavesNothing
           /\ \A h \in Treasuries, v \in Vaults : bal'[h][v] > bal[h][v] => h = t /\ v = y
<1>1. /\ bal \in [Holders -> [Tokens -> Nat]] /\ owed \in [Treasuries -> [Tokens -> Int]]
      /\ t \in Holders /\ Vaults \subseteq Tokens
    BY DEF IInv, MoneyTypes, Holders, Tokens
<1>2. t \notin Contracts /\ Contracts \subseteq Holders /\ Treasuries \subseteq Holders
    BY DEF ConduitsAssumption, Holders
<1>3. /\ bal' \in [Holders -> [Tokens -> Nat]]
      /\ bal'[t][x] = bal[t][x] - a /\ bal'[t][y] = bal[t][y] + b
      /\ \A tok \in Tokens \ {x, y} : bal'[t][tok] = bal[t][tok]
      /\ \A h \in Holders : h # t => bal'[h] = bal[h]
  <2>1. bal[t][x] \in Nat /\ bal[t][y] \in Nat /\ bal[t][x] - a \in Nat /\ bal[t][y] + b \in Nat
    BY <1>1
  <2> QED
    BY <1>1, <2>1 DEF Trades
<1>4. /\ owed' \in [Treasuries -> [Tokens -> Int]]
      /\ owed'[t][x] = owed[t][x] - a /\ owed'[t][y] = owed[t][y] + c
      /\ \A tok \in Tokens \ {x, y} : owed'[t][tok] = owed[t][tok]
      /\ \A h \in Treasuries : h # t => owed'[h] = owed[h]
    BY <1>1 DEF Trades
<1>5. TreasuriesGetTheirFloor'
  <2> SUFFICES ASSUME NEW h \in Treasuries, NEW tok \in Tokens
               PROVE  bal'[h][tok] >= owed'[h][tok]
    BY DEF TreasuriesGetTheirFloor
  <2>1. \A k \in Tokens : bal[h][k] >= owed[h][k] /\ bal[h][k] \in Nat /\ owed[h][k] \in Int
    BY <1>1, <1>2 DEF IInv, TreasuriesGetTheirFloor
  <2>2. CASE h # t
    BY <1>2, <1>3, <1>4, <2>1, <2>2
  <2>3. CASE h = t /\ tok \notin {x, y}
    BY <1>3, <1>4, <2>1, <2>3
  <2>4. CASE h = t /\ tok = x
    BY <1>3, <1>4, <2>1, <2>4
  <2>5. CASE h = t /\ tok = y
    BY <1>3, <1>4, <2>1, <2>5
  <2> QED
    BY <2>2, <2>3, <2>4, <2>5
<1>6. \A c1 \in Contracts : bal'[c1] = bal[c1]
    BY <1>2, <1>3
<1>7. NoSharesInConduit'
    BY <1>6 DEF IInv, NoSharesInConduit, Contracts
<1>8. \A n \in Nat : ~(n > n)
    OBVIOUS
<1>9. LeavesNothing
    BY <1>1, <1>2, <1>6, <1>8 DEF LeavesNothing
<1>10. \A h \in Treasuries, v \in Vaults : bal'[h][v] > bal[h][v] => h = t /\ v = y
  <2> SUFFICES ASSUME NEW h \in Treasuries, NEW v \in Vaults, ~(h = t /\ v = y)
               PROVE  ~(bal'[h][v] > bal[h][v])
    OBVIOUS
  <2>1. bal[h][v] \in Nat /\ v \in Tokens
    BY <1>1, <1>2
  <2>2. CASE h = t /\ v = x
    BY <1>3, <2>1, <2>2
  <2>3. CASE ~(h = t /\ v = x)
    BY <1>2, <1>3, <1>8, <2>1, <2>3
  <2> QED
    BY <2>2, <2>3
<1> QED
    BY <1>3, <1>4, <1>5, <1>7, <1>9, <1>10 DEF MoneyTypes

LEMMA signRedeemKeeps ==
    ASSUME ConduitsAssumption, IInv, NEW t \in Treasuries, NEW v \in Vaults,
           NEW sh \in Amounts, NEW n \in {1}, signRedeem(t, v, sh, n)
    PROVE  IInv' /\ LeavesNothing /\ OpensWhereAgreed
<1>1. sh \in Nat /\ now + ValidFor \in Nat
    BY DEF ConduitsAssumption, IInv, WorldTypes
<1>2. [treasury |-> t, vault |-> v, shares |-> sh, minAssets |-> sh,
       deadline |-> now + ValidFor, nonce |-> n] \in Redeem
    BY <1>1 DEF Redeem
<1>3. redeems' \subseteq Redeem /\ UNCHANGED <<signed, gate>>
    BY <1>2 DEF signRedeem, IInv, RequestTypes
<1>4. RequestTypes'
    BY <1>3 DEF IInv, RequestTypes, WellFormed
<1>5. WorldTypes'
    BY WorldUntouched DEF signRedeem, world, registry, earn
<1>6. UNCHANGED <<bal, owed>>
    BY DEF signRedeem
<1> QED
    BY <1>4, <1>5, <1>6, MoneyUntouched DEF IInv

\* The vault pays what the Redeem asks, or the call fails.
LEMMA redeemKeeps ==
    ASSUME ConduitsAssumption, IInv, NEW r \in redeems, NEW assets \in Int,
           redeem(r, assets)
    PROVE  IInv' /\ LeavesNothing /\ OpensWhereAgreed
<1>1. /\ r.treasury \in Treasuries /\ r.vault \in Vaults /\ r.shares \in Nat
      /\ r.minAssets \in Nat
    BY DEF IInv, RequestTypes, Redeem
<1>2. assets \in Nat /\ assets >= r.minAssets /\ r.shares <= bal[r.treasury][r.vault]
    BY <1>1, SMTT(30) DEF redeem
<1>3. r.vault \in Tokens /\ "USDC" \in Tokens /\ r.vault # "USDC" /\ "USDC" \notin Vaults
    BY <1>1 DEF Tokens, ConduitsAssumption
<1>4. Trades(r.treasury, r.vault, "USDC", r.shares, assets, r.minAssets)
    BY DEF redeem, Trades
<1>5. /\ MoneyTypes' /\ NoSharesInConduit' /\ TreasuriesGetTheirFloor' /\ LeavesNothing
      /\ \A h \in Treasuries, v \in Vaults : bal'[h][v] > bal[h][v] =>
            h = r.treasury /\ v = "USDC"
    BY <1>1, <1>2, <1>3, <1>4, TradeKeeps, SMTT(30)
<1>6. RequestTypes'
    BY RequestsUntouched DEF redeem
<1>7. WorldTypes'
    BY WorldUntouched DEF redeem, world, registry, earn, counts
<1> QED
    BY <1>3, <1>5, <1>6, <1>7 DEF IInv, OpensWhereAgreed

\* The relayer's deposit goes to the vault the account adopted.
LEMMA autoEarnKeeps ==
    ASSUME ConduitsAssumption, IInv, NEW t \in Treasuries, NEW a \in Amounts,
           NEW sh \in {0, 1}, autoEarn(t, a, sh)
    PROVE  IInv' /\ LeavesNothing /\ OpensWhereAgreed
<1> DEFINE w == vaultOf(t)
<1>1. w \in Vaults /\ w = adopted[t]
    BY DEF autoEarn, vaultOf, IInv, WorldTypes
<1>2. a \in Nat /\ a <= bal[t]["USDC"] /\ sh \in Nat /\ sh >= 1
    BY DEF autoEarn, ConduitsAssumption
<1>3. w \in Tokens /\ "USDC" \in Tokens /\ w # "USDC"
    BY <1>1 DEF Tokens, ConduitsAssumption
<1>4. Trades(t, "USDC", w, a, sh, 1)
    BY DEF autoEarn, Trades
<1> HIDE DEF w
<1>5. /\ MoneyTypes' /\ NoSharesInConduit' /\ TreasuriesGetTheirFloor' /\ LeavesNothing
      /\ \A h \in Treasuries, v \in Vaults : bal'[h][v] > bal[h][v] => h = t /\ v = w
    BY <1>2, <1>3, <1>4, TradeKeeps, SMTT(30)
<1>6. RequestTypes'
    BY RequestsUntouched DEF autoEarn, approvals
<1>7. WorldTypes'
    BY WorldUntouched DEF autoEarn, world, registry, earn, counts
<1> QED
    BY <1>1, <1>5, <1>6, <1>7 DEF IInv, OpensWhereAgreed

-----------------------------------------------------------------------------
(* Governance and the world.                                               *)

\* Registering a config, adopting one, and what governance lists or unlists.
LEMMA listingKeeps ==
    ASSUME IInv,
           \/ \E v \in Vaults : setConfig(v) \/ setVault(v)
           \/ \E t \in Treasuries, v \in Vaults \cup {None} : adopt(t, v)
           \/ \E x \in Targets : setTarget(x)
           \/ \E x \in {"venue"} \cup Vaults : setRoute(x)
           \/ priceMoves
           \/ Tick
    PROVE  IInv' /\ LeavesNothing /\ OpensWhereAgreed
<1>1. UNCHANGED <<bal, owed, signed, redeems, gate>>
    BY DEF setConfig, setVault, adopt, setTarget, setRoute, priceMoves, Tick, approvals
<1>2. WorldTypes'
  <2>1. CASE \E v \in Vaults : setConfig(v)
    BY <2>1, WorldUntouched DEF setConfig, world, registry
  <2>2. CASE \E v \in Vaults : setVault(v)
    BY <2>2 DEF IInv, WorldTypes, setVault, world, earn
  <2>3. CASE \E t \in Treasuries, v \in Vaults \cup {None} : adopt(t, v)
    BY <2>3 DEF IInv, WorldTypes, adopt, world, registry
  <2>4. CASE \E x \in Targets : setTarget(x)
    BY <2>4 DEF IInv, WorldTypes, setTarget, world, earn
  <2>5. CASE \E x \in {"venue"} \cup Vaults : setRoute(x)
    BY <2>5 DEF IInv, WorldTypes, setRoute, world, earn
  <2>6. CASE priceMoves
    BY <2>6 DEF IInv, WorldTypes, priceMoves, registry, earn
  <2>7. CASE Tick
    BY <2>7 DEF IInv, WorldTypes, Tick, registry, earn, counts
  <2> QED
    BY <2>1, <2>2, <2>3, <2>4, <2>5, <2>6, <2>7
<1> QED
    BY <1>1, <1>2, MoneyUntouched, RequestsUntouched DEF IInv

\* The only step that adds to a contract, and it counts itself.
LEMMA sendByMistakeKeeps ==
    ASSUME ConduitsAssumption, IInv, NEW c \in Contracts, NEW tok \in {"USDC", "EURC"},
           sendByMistake(c, tok)
    PROVE  IInv' /\ LeavesNothing /\ OpensWhereAgreed
<1>1. /\ bal \in [Holders -> [Tokens -> Nat]] /\ c \in Holders /\ tok \in Tokens
      /\ tok \notin Vaults /\ Vaults \subseteq Tokens /\ mistakes \in Nat
    BY DEF IInv, MoneyTypes, WorldTypes, Holders, Tokens, ConduitsAssumption
<1>2. bal' = [bal EXCEPT ![c][tok] = @ + 1] /\ mistakes' = mistakes + 1
    BY DEF sendByMistake
<1>3. /\ bal' \in [Holders -> [Tokens -> Nat]]
      /\ \A k \in Tokens : k # tok => bal'[c][k] = bal[c][k]
      /\ \A h \in Holders : h # c => bal'[h] = bal[h]
    BY <1>1, <1>2
<1>4. \A t \in Treasuries : bal'[t] = bal[t] /\ t \in Holders
    BY <1>3 DEF Holders, ConduitsAssumption
<1>5. NoSharesInConduit'
    BY <1>1, <1>3 DEF IInv, NoSharesInConduit, Holders, Contracts
<1>6. MoneyTypes' /\ TreasuriesGetTheirFloor'
    BY <1>3, <1>4 DEF IInv, MoneyTypes, TreasuriesGetTheirFloor, sendByMistake
<1>7. LeavesNothing
    BY <1>1, <1>2 DEF LeavesNothing
<1>8. \A n \in Nat : ~(n > n)
    OBVIOUS
<1>9. OpensWhereAgreed
    BY <1>1, <1>4, <1>8 DEF OpensWhereAgreed
<1>10. RequestTypes'
    BY RequestsUntouched DEF sendByMistake, approvals
<1>11. WorldTypes'
    BY <1>1, <1>2 DEF IInv, WorldTypes, sendByMistake, world, registry, earn
<1> QED
    BY <1>5, <1>6, <1>7, <1>9, <1>10, <1>11 DEF IInv

\* What the owner rescues is cash, so no position opens by it.
LEMMA rescueKeeps ==
    ASSUME ConduitsAssumption, IInv, NEW tok \in Tokens, NEW t \in Treasuries,
           rescue(tok, t)
    PROVE  IInv' /\ LeavesNothing /\ OpensWhereAgreed
<1> DEFINE n == bal["conduit"][tok]
<1>1. /\ bal \in [Holders -> [Tokens -> Nat]] /\ "conduit" \in Holders /\ t \in Holders
      /\ t # "conduit" /\ Vaults \subseteq Tokens /\ n \in Nat /\ n > 0
  <2>1. bal \in [Holders -> [Tokens -> Nat]] /\ n > 0
    BY DEF IInv, MoneyTypes, rescue
  <2>2. "conduit" \in Holders /\ t \in Holders /\ t # "conduit"
    BY DEF Holders, Contracts, ConduitsAssumption
  <2>3. Vaults \subseteq Tokens
    BY DEF Tokens
  <2> QED
    BY <2>1, <2>2, <2>3
<1>2. bal' = [bal EXCEPT !["conduit"][tok] = 0, ![t][tok] = @ + n] /\ owed' = owed
    BY DEF rescue
<1>3. tok \notin Vaults
    BY <1>1 DEF IInv, NoSharesInConduit
<1> HIDE DEF n
<1>4. /\ bal' \in [Holders -> [Tokens -> Nat]]
      /\ bal'["conduit"][tok] = 0 /\ bal'[t][tok] = bal[t][tok] + n
      /\ \A k \in Tokens : k # tok => bal'["conduit"][k] = bal["conduit"][k]
                                      /\ bal'[t][k] = bal[t][k]
      /\ \A h \in Holders : h # "conduit" /\ h # t => bal'[h] = bal[h]
    BY <1>1, <1>2
<1>5. \A m \in Nat : ~(m > m) /\ ~(0 > m)
    OBVIOUS
<1>6. LeavesNothing
  <2> SUFFICES ASSUME NEW c \in Contracts, NEW k \in Tokens
               PROVE  ~(bal'[c][k] > bal[c][k])
    BY DEF LeavesNothing
  <2>1. bal[c][k] \in Nat /\ c # t /\ c \in Holders
    BY <1>1 DEF Holders, ConduitsAssumption
  <2>2. bal'[c][k] = 0 \/ bal'[c][k] = bal[c][k]
    BY <1>4, <2>1
  <2> QED
    BY <1>5, <2>1, <2>2
<1>7. OpensWhereAgreed
  <2> SUFFICES ASSUME NEW h \in Treasuries, NEW v \in Vaults
               PROVE  ~(bal'[h][v] > bal[h][v])
    BY DEF OpensWhereAgreed
  <2>1. h \in Holders /\ h # "conduit" /\ v \in Tokens /\ v # tok
    BY <1>1, <1>3 DEF Holders, Contracts, ConduitsAssumption
  <2>2. bal[h][v] \in Nat /\ bal'[h][v] = bal[h][v]
    BY <1>1, <1>4, <2>1
  <2> QED
    BY <1>5, <2>2
<1>8. TreasuriesGetTheirFloor'
  <2> SUFFICES ASSUME NEW h \in Treasuries, NEW k \in Tokens
               PROVE  bal'[h][k] >= owed[h][k]
    BY <1>2 DEF TreasuriesGetTheirFloor
  <2>1. h \in Holders /\ h # "conduit"
    BY DEF Holders, Contracts, ConduitsAssumption
  <2>2. bal[h][k] >= owed[h][k] /\ bal[h][k] \in Nat /\ owed[h][k] \in Int
    BY <1>1, <2>1 DEF IInv, TreasuriesGetTheirFloor, MoneyTypes
  <2>3. bal'[h][k] = bal[h][k] \/ bal'[h][k] = bal[h][k] + n
    BY <1>4, <2>1
  <2> QED
    BY <1>1, <2>2, <2>3
<1>9. NoSharesInConduit'
    BY <1>1, <1>3, <1>4 DEF IInv, NoSharesInConduit
<1>10. MoneyTypes'
    BY <1>2, <1>4 DEF IInv, MoneyTypes
<1>11. RequestTypes'
    BY RequestsUntouched DEF rescue, approvals
<1>12. WorldTypes'
    BY WorldUntouched DEF rescue, world, registry, earn, counts
<1> QED
    BY <1>6, <1>7, <1>8, <1>9, <1>10, <1>11, <1>12 DEF IInv

-----------------------------------------------------------------------------
(* The theorems.                                                           *)

LEMMA InitEstablishes ==
    ASSUME ConduitsAssumption, Init
    PROVE  IInv
<1>1. bal \in [Holders -> [Tokens -> Nat]]
    BY DEF Init, Holders, ConduitsAssumption
<1>2. owed \in [Treasuries -> [Tokens -> Int]] /\ \A t \in Treasuries : owed[t] = bal[t]
    BY <1>1 DEF Init, Holders
<1>3. TreasuriesGetTheirFloor
    BY <1>1, <1>2 DEF TreasuriesGetTheirFloor, Holders
<1>4. NoSharesInConduit
    BY DEF Init, NoSharesInConduit, Tokens, Contracts, ConduitsAssumption
<1>5. WorldTypes
    BY DEF Init, WorldTypes, Prices, Targets
<1>6. RequestTypes
    BY DEF Init, RequestTypes
<1> QED
    BY <1>1, <1>2, <1>3, <1>4, <1>5, <1>6 DEF IInv, MoneyTypes

LEMMA NextKeeps ==
    ASSUME ConduitsAssumption, IInv, Next
    PROVE  IInv' /\ LeavesNothing /\ OpensWhereAgreed
<1>1. CASE \E t \in Treasuries, kind \in Targets, v \in Vaults \cup {None}, a \in Amounts :
              \E m \in floors(kind, a) : ask(t, kind, v, a, m)
    BY <1>1, askKeeps
<1>2. CASE \E t \in Treasuries, yes \in BOOLEAN : answer(t, yes)
    BY <1>2, answerKeeps
<1>3. CASE \E t \in Treasuries : submitFails(t)
    BY <1>3, submitFailsKeeps
<1>4. CASE \E t \in Treasuries : gate[t] # None
              /\ \E f \in 0 .. gate[t].intent.amountIn : submit(t, f)
    BY <1>4, submitKeeps
<1>5. CASE \E i \in signed : \E f \in 0 .. i.amountIn : relay(i, f)
    BY <1>5, relayKeeps
<1>6. CASE \E t \in Treasuries, v \in Vaults, s \in Amounts, n \in {1} :
              signRedeem(t, v, s, n)
    BY <1>6, signRedeemKeeps
<1>7. CASE \E r \in redeems, loss \in {0, 1} : redeem(r, r.shares - loss)
  <2>1. PICK r \in redeems, loss \in {0, 1} : redeem(r, r.shares - loss)
    BY <1>7
  <2>2. r.shares - loss \in Int
    BY DEF IInv, RequestTypes, Redeem
  <2> QED
    BY <2>1, <2>2, redeemKeeps
<1>8. CASE \E t \in Treasuries, a \in Amounts, s \in {0, 1} : autoEarn(t, a, s)
    BY <1>8, autoEarnKeeps
<1>9. CASE \E c \in Contracts, tok \in {"USDC", "EURC"} : sendByMistake(c, tok)
    BY <1>9, sendByMistakeKeeps
<1>10. CASE \E tok \in Tokens, t \in Treasuries : rescue(tok, t)
    BY <1>10, rescueKeeps
<1>11. CASE \/ \E v \in Vaults : setConfig(v) \/ setVault(v)
            \/ \E t \in Treasuries, v \in Vaults \cup {None} : adopt(t, v)
            \/ \E x \in Targets : setTarget(x)
            \/ \E x \in {"venue"} \cup Vaults : setRoute(x)
            \/ priceMoves
            \/ Tick
    BY <1>11, listingKeeps
<1> QED
    BY <1>1, <1>2, <1>3, <1>4, <1>5, <1>6, <1>7, <1>8, <1>9, <1>10, <1>11 DEF Next

LEMMA StutterKeeps ==
    ASSUME IInv, UNCHANGED vars
    PROVE  IInv' /\ LeavesNothing /\ OpensWhereAgreed
<1>1. UNCHANGED <<bal, owed, signed, redeems, gate>>
    BY DEF vars, approvals
<1>2. WorldTypes'
    BY WorldUntouched DEF vars, world, registry, earn, counts
<1> QED
    BY <1>1, <1>2, MoneyUntouched, RequestsUntouched DEF IInv

LEMMA Invariance == ConduitsAssumption => (Spec => []IInv)
<1> SUFFICES ASSUME ConduitsAssumption PROVE Spec => []IInv
    OBVIOUS
<1>1. Init => IInv
    BY InitEstablishes
<1>2. IInv /\ [Next]_vars => IInv'
    BY NextKeeps, StutterKeeps
<1> QED
    BY <1>1, <1>2, PTL DEF Spec

\* No holder ever owes a token, governance lists only what it knows, and a
\* request at a treasury's gate is its own.
THEOREM TypeCorrect == ConduitsAssumption => (Spec => []TypeOK)
<1> SUFFICES ASSUME ConduitsAssumption PROVE Spec => []TypeOK
    OBVIOUS
<1>1. IInv => TypeOK
  <2> SUFFICES ASSUME IInv PROVE TypeOK
    OBVIOUS
  <2>1. \A h \in DOMAIN bal, tok \in Tokens : bal[h][tok] >= 0
    BY DEF IInv, MoneyTypes
  <2>2. targets \subseteq Targets /\ vaults \cup routes \subseteq Targets /\ price \in Prices
    BY DEF IInv, WorldTypes, Targets
  <2>3. \A t \in Treasuries : /\ adopted[t] \in Vaults \cup {None}
                              /\ gate[t] # None => gate[t].intent.beneficiary = t
    BY DEF IInv, WorldTypes, RequestTypes
  <2> QED
    BY <2>1, <2>2, <2>3 DEF TypeOK
<1> QED
    BY <1>1, Invariance, PTL

\* Through TreasuryConduit.execute, TreasuryRedeemConduit.redeem and autoEarn a
\* treasury gives only what its quorum signed or adopted and gets at least the
\* floor, whatever is filled, retried, rescued or sent by mistake in between.
THEOREM FloorsAreKept == ConduitsAssumption => (Spec => []TreasuriesGetTheirFloor)
<1> SUFFICES ASSUME ConduitsAssumption PROVE Spec => []TreasuriesGetTheirFloor
    OBVIOUS
<1>1. IInv => TreasuriesGetTheirFloor
    BY DEF IInv
<1> QED
    BY <1>1, Invariance, PTL

\* The sweep of execute leaves nothing in the contracts a payment passes
\* through, and shares arrive only in a vault that was signed for or adopted.
THEOREM TokensWhereAgreed == ConduitsAssumption => (Spec => TokensGoWhereAgreed)
<1> SUFFICES ASSUME ConduitsAssumption PROVE Spec => TokensGoWhereAgreed
    OBVIOUS
<1>1. IInv /\ [Next]_vars => LeavesNothing /\ OpensWhereAgreed
    BY NextKeeps, StutterKeeps
<1>2. IInv /\ [Next]_vars => [LeavesNothing]_vars /\ [OpensWhereAgreed]_vars
    BY <1>1
<1> QED
    BY <1>2, Invariance, PTL
    DEF Spec, TokensGoWhereAgreed, NothingStaysBehind, SharesWhereAgreed,
        LeavesNothing, OpensWhereAgreed

=============================================================================
