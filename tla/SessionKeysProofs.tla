------------------------- MODULE SessionKeysProofs -------------------------
(***************************************************************************)
(* Theorems about SessionKeys, for any set of keys, any limits and bundles *)
(* of any length.                                                          *)
(***************************************************************************)
EXTENDS SessionKeys, SumTheorems, TLAPS

-----------------------------------------------------------------------------
(* The inductive invariant.                                                *)

LimitType == [on : BOOLEAN, amount : Nat, used : Nat, last : Nat, every : Nat]
GasType == [on : BOOLEAN, used : 0..GasLimit, last : Nat, reset : BOOLEAN]
DataType == [listed : BOOLEAN, limit : LimitType, gas : GasType]

Op == Payments \cup OwnerOps

\* What the execution of an operation reads and writes.
Storage ==
    /\ sessionKeys \subseteq Keys /\ idOf \in [Keys -> Ids]
    /\ keyIdCounter \in Ids /\ retired \subseteq Ids
    /\ data \in [Ids -> DataType]

Pipeline ==
    /\ now \in Instants /\ executing \in BOOLEAN
    /\ bundle \in Seq(Op) /\ Len(bundle) <= MaxBundle

\* Ids are dealt by a counter that never goes back: those in use and those
\* taken away were all dealt, and no id is both.
IdsWereDealt ==
    /\ \A k \in Keys : k \in sessionKeys <=> idOf[k] # 0
    /\ \A k \in Keys : idOf[k] <= keyIdCounter
    /\ \A i \in retired : 0 < i /\ i <= keyIdCounter
    /\ \A k \in Keys : idOf[k] \notin retired
    /\ \A k, j \in sessionKeys : idOf[k] = idOf[j] => k = j

IInv == Storage /\ Pipeline /\ IdsWereDealt

USE DEF Ids, Instants, plugin, rest

LEMMA IInvInit == ASSUME KeysAssumption, Init PROVE IInv
  <1> USE DEF KeysAssumption, Init
  <1>1. Blank \in DataType
    BY DEF Blank, DataType, LimitType, GasType
  <1>2. Storage
    BY <1>1 DEF Storage
  <1>3. Pipeline
    BY DEF Pipeline
  <1>4. IdsWereDealt
    BY DEF IdsWereDealt
  <1> QED
    BY <1>2, <1>3, <1>4 DEF IInv

\* A grant keeps the type of what it writes over, its gas usage included.
LEMMA GrantType ==
    ASSUME KeysAssumption, Pipeline, NEW d \in DataType
    PROVE  granted(d) \in DataType
  <1> DEFINE l == [d.limit EXCEPT !.on = TRUE, !.amount = Limit, !.last = now,
                                  !.every = Interval]
             g == IF asset = "native"
                  THEN [d.gas EXCEPT !.on = TRUE, !.last = now, !.reset = FALSE]
                  ELSE d.gas
  <1>1. d.limit \in LimitType /\ d.gas \in GasType /\ now \in Nat
    BY DEF DataType, Pipeline
  <1>2. l \in LimitType
    BY <1>1 DEF KeysAssumption, LimitType
  <1>3. g \in GasType
    BY <1>1 DEF GasType
  <1>4. granted(d) = [d EXCEPT !.listed = TRUE, !.limit = l, !.gas = g]
    BY DEF granted
  <1> HIDE DEF l, g
  <1> QED
    BY <1>2, <1>3, <1>4 DEF DataType

\* What validation writes: only the gas usage of the id, and one of three ways.
LEMMA GasCharge ==
    ASSUME KeysAssumption, Storage, NEW i \in Ids, checkAndUpdateGasLimitUsage(i, 1)
    PROVE  LET g == data[i].gas IN
           \/ ~g.on /\ UNCHANGED data
           \/ /\ g.on /\ g.used + 1 <= GasLimit
              /\ data' = [data EXCEPT ![i] =
                            [data[i] EXCEPT !.gas = [g EXCEPT !.used = g.used + 1]]]
           \/ /\ g.on /\ g.used + 1 > GasLimit /\ 1 <= GasLimit
              /\ ~g.reset /\ g.last + Interval <= now
              /\ data' = [data EXCEPT ![i] =
                            [data[i] EXCEPT !.gas = [g EXCEPT !.used = 1, !.reset = TRUE]]]
  <1> DEFINE g == data[i].gas
  <1>1. data[i] \in DataType /\ g \in GasType
    BY DEF Storage, DataType
  <1>2. 1 + g.used = g.used + 1 /\ g.used + 1 \in Nat /\ GasLimit \in Nat
    BY <1>1 DEF GasType, KeysAssumption
  <1>3. ASSUME data' = [data EXCEPT ![i].gas.used = 1, ![i].gas.reset = TRUE]
        PROVE  data' = [data EXCEPT ![i] =
                          [data[i] EXCEPT !.gas = [g EXCEPT !.used = 1, !.reset = TRUE]]]
    BY <1>1, <1>3 DEF Storage, DataType, GasType
  <1>4. ASSUME NEW u, data' = [data EXCEPT ![i].gas.used = u]
        PROVE  data' = [data EXCEPT ![i] =
                          [data[i] EXCEPT !.gas = [g EXCEPT !.used = u]]]
    BY <1>4
  <1>5. \/ ~g.on /\ UNCHANGED data
        \/ /\ g.on /\ g.used + 1 <= GasLimit
           /\ data' = [data EXCEPT ![i].gas.used = g.used + 1]
        \/ /\ g.on /\ g.used + 1 > GasLimit /\ 1 <= GasLimit
           /\ ~g.reset /\ g.last + Interval <= now
           /\ data' = [data EXCEPT ![i].gas.used = 1, ![i].gas.reset = TRUE]
    BY <1>2 DEF checkAndUpdateGasLimitUsage, fitsNextInterval
  <1> QED
    BY <1>3, <1>4, <1>5

\* The gas charged in validation stays within the limit.
LEMMA GasChargeType ==
    ASSUME KeysAssumption, Storage, NEW i \in Ids, checkAndUpdateGasLimitUsage(i, 1)
    PROVE  data' \in [Ids -> DataType]
  <1> DEFINE g == data[i].gas
             charged == [g EXCEPT !.used = g.used + 1]
             renewed == [g EXCEPT !.used = 1, !.reset = TRUE]
  <1>1. data[i] \in DataType /\ g \in GasType /\ GasLimit \in Nat
    BY DEF Storage, DataType, KeysAssumption
  <1>2. ASSUME NEW h \in GasType, data' = [data EXCEPT ![i] = [data[i] EXCEPT !.gas = h]]
        PROVE  data' \in [Ids -> DataType]
    <2>1. [data[i] EXCEPT !.gas = h] \in DataType
      BY <1>1 DEF DataType
    <2> QED
      BY <1>2, <2>1 DEF Storage
  <1>3. g.used + 1 <= GasLimit => charged \in GasType
    BY <1>1 DEF GasType
  <1>4. 1 <= GasLimit => renewed \in GasType
    <2>1. 1 <= GasLimit => 1 \in 0..GasLimit
      BY <1>1
    <2> QED
      BY <1>1, <2>1 DEF GasType
  <1>5. \/ UNCHANGED data
        \/ /\ g.used + 1 <= GasLimit
           /\ data' = [data EXCEPT ![i] = [data[i] EXCEPT !.gas = charged]]
        \/ /\ 1 <= GasLimit
           /\ data' = [data EXCEPT ![i] = [data[i] EXCEPT !.gas = renewed]]
    BY GasCharge
  <1> HIDE DEF charged, renewed
  <1> QED
    BY <1>2, <1>3, <1>4, <1>5 DEF Storage

\* Executing the head of the bundle leaves a bundle.
LEMMA ExecutesPipeline ==
    ASSUME KeysAssumption, Pipeline, NEW op, Executes(op), now' = now
    PROVE  Pipeline' /\ op \in Op
  <1>1. bundle' \in Seq(Op) /\ Len(bundle') <= MaxBundle /\ op \in Op
    BY DEF KeysAssumption, Pipeline, Executes
  <1>2. executing' \in BOOLEAN
    BY DEF Executes
  <1> QED
    BY <1>1, <1>2 DEF Pipeline

\* executeWithSessionKey rewrites the limits of the key's id, or of id 0 when
\* the key was removed earlier in the bundle.
LEMMA PaymentType ==
    ASSUME KeysAssumption, IInv, NEW op \in Payments, executeWithSessionKey(op)
    PROVE  data' \in [Ids -> DataType]
  <1> DEFINE i == idOf[op.key]
             l == data[i].limit
             g == data[i].gas
             newL == IF l.on THEN runtimeUsed(l, op.amount) ELSE l
             newG == IF g.reset THEN [g EXCEPT !.reset = FALSE, !.last = now] ELSE g
  <1>1. i \in Ids /\ op.amount \in Nat /\ now \in Nat
    <2>1. op.key \in Keys /\ op.amount \in Nat
      BY DEF Payments, KeysAssumption
    <2> QED
      BY <2>1 DEF IInv, Storage, Pipeline
  <1>2. data[i] \in DataType /\ l \in LimitType /\ g \in GasType
    BY <1>1 DEF IInv, Storage, DataType
  <1>3. newL \in LimitType
    <2>1. [l EXCEPT !.used = op.amount, !.last = now] \in LimitType
      BY <1>1, <1>2 DEF LimitType
    <2>2. [l EXCEPT !.used = l.used + op.amount] \in LimitType
      BY <1>1, <1>2 DEF LimitType
    <2> QED
      BY <1>2, <2>1, <2>2 DEF runtimeUsed
  <1>4. newG \in GasType
    BY <1>1, <1>2 DEF GasType
  <1>5. data' = [data EXCEPT ![i] = [data[i] EXCEPT !.limit = newL, !.gas = newG]]
    BY <1>1, <1>2 DEF executeWithSessionKey, IInv, Storage, DataType
  <1>6. [data[i] EXCEPT !.limit = newL, !.gas = newG] \in DataType
    <2> HIDE DEF newL, newG
    <2> QED
      BY <1>2, <1>3, <1>4 DEF DataType
  <1> HIDE DEF newL, newG, i
  <1> QED
    BY <1>5, <1>6 DEF IInv, Storage

LEMMA IInvPayment ==
    ASSUME KeysAssumption, IInv, NEW op \in Payments,
           validate(op) \/ executeWithSessionKey(op)
    PROVE  IInv'
  <1>1. CASE validate(op)
    <2> USE <1>1 DEF validate, IInv
    <2>1. data' \in [Ids -> DataType]
      BY GasChargeType DEF Storage, Payments
    <2>2. Storage'
      BY <2>1 DEF Storage
    <2>3. Pipeline'
      BY DEF Pipeline, Op, KeysAssumption
    <2>4. IdsWereDealt'
      BY DEF IdsWereDealt
    <2> QED
      BY <2>2, <2>3, <2>4
  <1>2. CASE executeWithSessionKey(op)
    <2>1. Storage'
      BY <1>2, PaymentType DEF executeWithSessionKey, IInv, Storage
    <2>2. Pipeline'
      BY <1>2, ExecutesPipeline DEF executeWithSessionKey, IInv
    <2>3. IdsWereDealt'
      BY <1>2 DEF executeWithSessionKey, IInv, IdsWereDealt
    <2> QED
      BY <2>1, <2>2, <2>3 DEF IInv
  <1> QED
    BY <1>1, <1>2

\* The id addSessionKey and onInstall deal is above every id dealt before.
LEMMA IInvAdds ==
    ASSUME KeysAssumption, IInv, NEW k \in Keys, adds(k), UNCHANGED retired
    PROVE  Storage' /\ IdsWereDealt'
  <1>1. keyIdCounter' \in Ids
    BY DEF IInv, Storage, adds, KeysAssumption
  <1>2. granted(data[keyIdCounter']) \in DataType
    BY <1>1, GrantType DEF IInv, Storage
  <1>3. Storage'
    BY <1>1, <1>2 DEF IInv, Storage, adds
  <1>4. IdsWereDealt'
    BY <1>1 DEF IInv, Storage, IdsWereDealt, adds
  <1> QED
    BY <1>3, <1>4

LEMMA IInvOwners ==
    ASSUME KeysAssumption, IInv, NEW op \in OwnerOps,
           \/ ownersSign(op) \/ addSessionKey(op) \/ removeSessionKey(op)
           \/ rotateSessionKey(op) \/ updateKeyPermissions(op)
           \/ onInstall(op) \/ onUninstall(op)
    PROVE  IInv'
  <1> USE DEF IInv
  <1>0. op.kind # "uninstall" => op.key \in Keys
    BY DEF OwnerOps
  <1>1. CASE ownersSign(op)
    <2>1. Pipeline'
      BY <1>1 DEF ownersSign, Pipeline, Op, KeysAssumption
    <2> QED
      BY <1>1, <2>1 DEF ownersSign, Storage, IdsWereDealt
  <1>2. CASE addSessionKey(op)
    BY <1>0, <1>2, IInvAdds, ExecutesPipeline DEF addSessionKey
  <1>3. CASE removeSessionKey(op)
    <2> USE <1>0, <1>3 DEF removeSessionKey
    <2>1. Pipeline'
      BY ExecutesPipeline
    <2>2. Storage'
      <3>1. (sessionKeys \subseteq Keys /\ keyIdCounter \in Ids /\ data \in [Ids -> DataType])'
        BY DEF Storage
      <3>2. idOf' \in [Keys -> Ids]
        BY DEF Storage, KeysAssumption
      <3>3. retired' \subseteq Ids
        BY DEF Storage
      <3> QED
        BY <3>1, <3>2, <3>3 DEF Storage
    <2>3. IdsWereDealt'
      BY DEF Storage, IdsWereDealt
    <2> QED
      BY <2>1, <2>2, <2>3
  <1>4. CASE rotateSessionKey(op)
    <2> USE <1>0, <1>4 DEF rotateSessionKey, movedId
    <2>1. Pipeline'
      BY ExecutesPipeline
    <2>2. Storage'
      BY DEF Storage, KeysAssumption
    <2>3. IdsWereDealt'
      BY DEF Storage, IdsWereDealt
    <2> QED
      BY <2>1, <2>2, <2>3
  <1>5. CASE updateKeyPermissions(op)
    <2>1. Pipeline'
      BY <1>5, ExecutesPipeline DEF updateKeyPermissions
    <2>2. idOf[op.key] \in Ids /\ granted(data[idOf[op.key]]) \in DataType
      BY <1>0, <1>5, GrantType DEF updateKeyPermissions, Storage
    <2>3. Storage'
      BY <1>5, <2>2 DEF updateKeyPermissions, Storage
    <2>4. IdsWereDealt'
      BY <1>5 DEF updateKeyPermissions, IdsWereDealt
    <2> QED
      BY <2>1, <2>3, <2>4
  <1>6. CASE onInstall(op)
    BY <1>0, <1>6, IInvAdds, ExecutesPipeline DEF onInstall
  <1>7. CASE onUninstall(op)
    <2> USE <1>7 DEF onUninstall, counterAfterUninstall
    <2>1. Pipeline'
      BY ExecutesPipeline
    <2>2. (sessionKeys \subseteq Keys /\ keyIdCounter \in Ids /\ data \in [Ids -> DataType])'
      BY DEF Storage
    <2>3. idOf' \in [Keys -> Ids]
      BY SMTT(30) DEF KeysAssumption
    <2>4. retired' \subseteq Ids
      BY DEF Storage
    <2>5. IdsWereDealt'
      BY DEF Storage, IdsWereDealt
    <2> QED
      BY <2>1, <2>2, <2>3, <2>4, <2>5 DEF Storage
  <1> QED
    BY <1>1, <1>2, <1>3, <1>4, <1>5, <1>6, <1>7

LEMMA IInvReset ==
    ASSUME KeysAssumption, IInv, NEW k \in Keys, resetSessionKeyGasLimitTimestamp(k)
    PROVE  IInv'
  <1> USE DEF IInv, resetSessionKeyGasLimitTimestamp
  <1> DEFINE i == idOf[k]
             g == [data[i].gas EXCEPT !.reset = FALSE, !.last = now]
  <1>1. i \in Ids /\ data[i] \in DataType /\ now \in Nat
    BY DEF Storage, Pipeline
  <1>2. g \in GasType
    BY <1>1 DEF DataType, GasType
  <1>3. [data[i] EXCEPT !.gas = g] \in DataType
    BY <1>1, <1>2 DEF DataType
  <1>4. data' = [data EXCEPT ![i] = [data[i] EXCEPT !.gas = g]]
    BY <1>1 DEF Storage, DataType, GasType
  <1> HIDE DEF i, g
  <1>5. data' \in [Ids -> DataType]
    BY <1>3, <1>4 DEF Storage
  <1>6. Storage'
    BY <1>5 DEF Storage
  <1> QED
    BY <1>6 DEF Pipeline, IdsWereDealt

LEMMA Inductive == KeysAssumption => (Spec => []IInv)
  <1> SUFFICES ASSUME KeysAssumption PROVE Spec => []IInv
    OBVIOUS
  <1>1. Init => IInv
    BY IInvInit
  <1>2. IInv /\ [Next]_vars => IInv'
    <2> SUFFICES ASSUME IInv, [Next]_vars PROVE IInv'
      OBVIOUS
    <2>1. CASE UNCHANGED vars
      BY <2>1 DEF vars, IInv, Storage, Pipeline, IdsWereDealt
    <2>2. CASE handleOps
      BY <2>2 DEF handleOps, IInv, Storage, Pipeline, IdsWereDealt
    <2>3. CASE reverts
      BY <2>3, ExecutesPipeline DEF reverts, IInv, Storage, IdsWereDealt
    <2>4. CASE Tick
      BY <2>4 DEF Tick, IInv, Storage, Pipeline, IdsWereDealt, KeysAssumption
    <2> QED
      BY <2>1, <2>2, <2>3, <2>4, IInvPayment, IInvOwners, IInvReset DEF Next
  <1> QED
    BY <1>1, <1>2, PTL DEF Spec

-----------------------------------------------------------------------------
(* Spending and gas per refresh interval.                                  *)

\* What is charged at each instant, split at the instant r the usage was last
\* reset: cur is what `used` counts, and old, charged before, is at most one
\* limit in any interval that reaches beyond r.
SplitAt(p, used, r, limit, old, cur) ==
    /\ \A u \in Instants : p[u] = old[u] + cur[u]
    /\ \A u \in Instants : (u < r => cur[u] = 0) /\ (u > r => old[u] = 0)
    /\ SumFunctionOnSet(cur, Instants) <= used
    /\ \A t \in Instants : t + Interval > r => SumFunctionOnSet(old, Window(t)) <= limit

Rate(p, used, r, limit, n) ==
    /\ p \in [Instants -> Nat] /\ \A u \in Instants : u > n => p[u] = 0
    /\ \A t \in Instants : SumFunctionOnSet(p, Window(t)) <= 2 * limit
    /\ \E old, cur \in [Instants -> Nat] : SplitAt(p, used, r, limit, old, cur)

\* q is p with the amount a more at the instant n.
Charged(p, q, n, a) == q = [p EXCEPT ![n] = @ + a]

LEMMA FiniteTime ==
    ASSUME KeysAssumption
    PROVE  /\ IsFiniteSet(Instants) /\ Instants \subseteq Nat /\ Interval \in Nat
           /\ \A t \in Instants :
                 IsFiniteSet(Window(t)) /\ Window(t) \in SUBSET Instants
  <1>1. IsFiniteSet(Instants) /\ Instants \subseteq Nat
    BY FS_Interval DEF KeysAssumption
  <1>2. \A t \in Instants : Window(t) \in SUBSET Instants
    BY DEF Window
  <1> QED
    BY <1>1, <1>2, FS_Subset DEF KeysAssumption

HIDE DEF Instants

LEMMA NothingPaid ==
    ASSUME KeysAssumption, NEW limit \in Nat, NEW n \in Nat,
           NEW p, p = [t \in Instants |-> 0]
    PROVE  Rate(p, 0, 0, limit, n)
  <1>1. p \in [Instants -> Nat] /\ \A u \in Instants : p[u] = 0
    OBVIOUS
  <1>2. \A t \in Instants : SumFunctionOnSet(p, Window(t)) = 0
    <2> SUFFICES ASSUME NEW t \in Instants PROVE SumFunctionOnSet(p, Window(t)) = 0
      OBVIOUS
    <2>1. IsFiniteSet(Window(t)) /\ \A u \in Window(t) : p[u] = 0
      BY <1>1, FiniteTime
    <2> QED
      BY <2>1, SumZero
  <1>3. SumFunctionOnSet(p, Instants) = 0
    BY <1>1, FiniteTime, SumZero
  <1>4. SplitAt(p, 0, 0, limit, p, p)
    BY <1>1, <1>2, <1>3 DEF SplitAt
  <1>5. \A t \in Instants : SumFunctionOnSet(p, Window(t)) <= 2 * limit
    BY <1>2
  <1> QED
    BY <1>1, <1>4, <1>5 DEF Rate

\* The sum over a window, from the sums of its two parts.
LEMMA WindowBound ==
    ASSUME KeysAssumption, NEW limit \in Nat, NEW p, NEW t \in Instants,
           NEW old \in [Instants -> Nat], NEW cur \in [Instants -> Nat],
           \A u \in Instants : p[u] = old[u] + cur[u],
           SumFunctionOnSet(old, Window(t)) <= limit,
           SumFunctionOnSet(cur, Instants) <= limit
    PROVE  SumFunctionOnSet(p, Window(t)) <= 2 * limit
  <1> DEFINE W == Window(t)
  <1>1. IsFiniteSet(W) /\ IsFiniteSet(Instants) /\ W \in SUBSET Instants
    BY FiniteTime
  <1> HIDE DEF W
  <1>2. \A u \in W : old[u] \in Int /\ cur[u] \in Int /\ p[u] = old[u] + cur[u]
    BY <1>1
  <1>3. \A u \in Instants : cur[u] \in Nat /\ cur[u] \in Int
    OBVIOUS
  <1>4. SumFunctionOnSet(p, W) = SumFunctionOnSet(old, W) + SumFunctionOnSet(cur, W)
    BY <1>1, <1>2, SumPlus
  <1>5. SumFunctionOnSet(cur, W) <= SumFunctionOnSet(cur, Instants)
    BY <1>1, <1>3, SumSubset
  <1>6. /\ SumFunctionOnSet(old, W) \in Int /\ SumFunctionOnSet(cur, W) \in Int
        /\ SumFunctionOnSet(cur, Instants) \in Int
    BY <1>1, <1>2, <1>3, SumInt
  <1>7. SumFunctionOnSet(old, W) <= limit
    BY DEF W
  <1>8. SumFunctionOnSet(p, W) <= 2 * limit
    BY <1>4, <1>5, <1>6, <1>7
  <1> QED
    BY <1>8 DEF W

\* An amount charged within the limit.
LEMMA RateCharge ==
    ASSUME KeysAssumption, NEW n \in Instants,
           NEW limit \in Nat, NEW used \in Nat, NEW a \in Nat,
           NEW total, total = used + a, total <= limit,
           NEW p, NEW q, Charged(p, q, n, a),
           NEW r \in Nat, r <= n, Rate(p, used, r, limit, n)
    PROVE  Rate(q, total, r, limit, n)
  <1> USE DEF Charged
  <1>1. PICK old \in [Instants -> Nat], cur \in [Instants -> Nat] :
            SplitAt(p, used, r, limit, old, cur)
    BY DEF Rate
  <1> DEFINE new == [cur EXCEPT ![n] = @ + a]
  <1>2. new \in [Instants -> Nat] /\ q \in [Instants -> Nat]
    BY DEF Rate
  <1>3. SumFunctionOnSet(new, Instants) <= total
    <2>1. SumFunctionOnSet(new, Instants)
             = SumFunctionOnSet(cur, Instants) - cur[n] + new[n]
      <3>1. \A u \in Instants : cur[u] \in Int /\ new[u] \in Int
        BY <1>2
      <3>2. \A u \in Instants \ {n} : new[u] = cur[u]
        OBVIOUS
      <3> HIDE DEF new
      <3> QED
        BY <3>1, <3>2, FiniteTime, SumChange
    <2>2. SumFunctionOnSet(cur, Instants) \in Int /\ new[n] = cur[n] + a
      BY FiniteTime, SumInt
    <2>3. SumFunctionOnSet(cur, Instants) <= used
      BY <1>1 DEF SplitAt
    <2> QED
      BY <2>1, <2>2, <2>3
  <1>4. SplitAt(q, total, r, limit, old, new)
    <2>1. \A u \in Instants : q[u] = old[u] + new[u]
      BY <1>1 DEF SplitAt, Rate
    <2>2. \A u \in Instants : (u < r => new[u] = 0) /\ (u > r => old[u] = 0)
      BY <1>1, FiniteTime DEF SplitAt
    <2> QED
      BY <1>1, <1>3, <2>1, <2>2 DEF SplitAt
  <1>5. ASSUME NEW t \in Instants
        PROVE  SumFunctionOnSet(q, Window(t)) <= 2 * limit
    <2>1. CASE n \in Window(t)
      <3>1. SumFunctionOnSet(old, Window(t)) <= limit
        <4>1. t + Interval > r
          BY <2>1, FiniteTime DEF Window
        <4> QED
          BY <1>1, <4>1 DEF SplitAt
      <3>2. SumFunctionOnSet(new, Instants) \in Int
        <4>1. \A u \in Instants : new[u] \in Int
          BY <1>2
        <4> QED
          BY <4>1, FiniteTime, SumInt
      <3>3. SumFunctionOnSet(new, Instants) <= limit
        BY <1>3, <3>2
      <3>4. \A u \in Instants : q[u] = old[u] + new[u]
        BY <1>4 DEF SplitAt
      <3> HIDE DEF new
      <3> QED
        BY <1>2, <3>1, <3>3, <3>4, WindowBound
    <2>2. CASE n \notin Window(t)
      <3>1. \A u \in Window(t) : p[u] \in Int /\ q[u] = p[u]
        BY <2>2 DEF Rate, Window
      <3>2. SumFunctionOnSet(q, Window(t)) = SumFunctionOnSet(p, Window(t))
        BY <3>1, FiniteTime, SumCongruent, ZenonT(40)
      <3> QED
        BY <3>2 DEF Rate
    <2> QED
      BY <2>1, <2>2
  <1>6. \A u \in Instants : u > n => q[u] = 0
    BY FiniteTime DEF Rate
  <1> HIDE DEF new
  <1> QED
    BY <1>2, <1>4, <1>5, <1>6 DEF Rate

\* An amount charged after the interval is over, which resets the usage.
LEMMA RateReset ==
    ASSUME KeysAssumption, NEW n \in Instants,
           NEW limit \in Nat, NEW used \in Nat, used <= limit,
           NEW a \in Nat, a <= limit,
           NEW p, NEW q, Charged(p, q, n, a),
           NEW r \in Nat, r + Interval <= n, Rate(p, used, r, limit, n)
    PROVE  Rate(q, a, n, limit, n)
  <1> USE DEF Charged
  <1>1. PICK old \in [Instants -> Nat], cur \in [Instants -> Nat] :
            SplitAt(p, used, r, limit, old, cur)
    BY DEF Rate
  <1>2. p \in [Instants -> Nat] /\ q \in [Instants -> Nat]
    BY DEF Rate
  <1> DEFINE new == [u \in Instants |-> IF u = n THEN a ELSE 0]
             zero == [u \in Instants |-> 0]
  <1>3. new \in [Instants -> Nat] /\ zero \in [Instants -> Nat]
    OBVIOUS
  <1>4. SumFunctionOnSet(new, Instants) = a
    <2>1. SumFunctionOnSet(zero, Instants) = 0
      BY FiniteTime, SumZero
    <2>2. SumFunctionOnSet(new, Instants)
             = SumFunctionOnSet(zero, Instants) - zero[n] + new[n]
      BY <1>3, FiniteTime, SumChange
    <2> QED
      BY <2>1, <2>2
  <1>5. ASSUME NEW t \in Instants, t + Interval > n
        PROVE  SumFunctionOnSet(p, Window(t)) <= limit
    <2> DEFINE W == Window(t)
    <2>1. IsFiniteSet(W) /\ W \in SUBSET Instants
      BY FiniteTime DEF Window
    <2>2. \A u \in W : cur[u] \in Int /\ p[u] = cur[u]
      <3>1. \A u \in W : u \in Instants /\ u > r
        BY <1>5, FiniteTime DEF Window
      <3>2. \A u \in W : p[u] = old[u] + cur[u] /\ old[u] = 0
        BY <1>1, <3>1 DEF SplitAt
      <3> QED
        BY <3>1, <3>2
    <2>3. SumFunctionOnSet(p, W) = SumFunctionOnSet(cur, W)
      BY <2>1, <2>2, SumCongruent
    <2>4. SumFunctionOnSet(cur, W) <= SumFunctionOnSet(cur, Instants)
      BY <2>1, FiniteTime, SumSubset
    <2>5. SumFunctionOnSet(cur, W) \in Int /\ SumFunctionOnSet(cur, Instants) \in Int
      BY <2>1, FiniteTime, SumInt
    <2>6. SumFunctionOnSet(cur, Instants) <= used
      BY <1>1 DEF SplitAt
    <2> QED
      BY <2>3, <2>4, <2>5, <2>6
  <1>6. \A u \in Instants : q[u] = p[u] + new[u]
    BY <1>2
  <1>7. SplitAt(q, a, n, limit, p, new)
    <2>1. \A u \in Instants : (u < n => new[u] = 0) /\ (u > n => p[u] = 0)
      BY FiniteTime DEF Rate
    <2> HIDE DEF new
    <2> QED
      BY <1>4, <1>5, <1>6, <2>1 DEF SplitAt
  <1>8. ASSUME NEW t \in Instants
        PROVE  SumFunctionOnSet(q, Window(t)) <= 2 * limit
    <2>1. CASE n \in Window(t)
      <3>1. SumFunctionOnSet(p, Window(t)) <= limit
        BY <1>5, <2>1 DEF Window
      <3> HIDE DEF new
      <3> QED
        BY <1>2, <1>3, <1>4, <1>6, <3>1, WindowBound
    <2>2. CASE n \notin Window(t)
      <3>1. \A u \in Window(t) : p[u] \in Int /\ q[u] = p[u]
        BY <1>2, <2>2 DEF Window
      <3>2. SumFunctionOnSet(q, Window(t)) = SumFunctionOnSet(p, Window(t))
        BY <3>1, FiniteTime, SumCongruent, ZenonT(40)
      <3> QED
        BY <3>2 DEF Rate
    <2> QED
      BY <2>1, <2>2
  <1>9. \A u \in Instants : u > n => q[u] = 0
    BY FiniteTime DEF Rate
  <1> HIDE DEF new
  <1> QED
    BY <1>2, <1>3, <1>7, <1>8, <1>9 DEF Rate

-----------------------------------------------------------------------------

\* What the storage of the id Watched says of the payments and charges made so
\* far.  A grant moves `last` forward, and the execution that would move the
\* gas limit's `last` may revert: the reset itself was at some r.
Book ==
    LET l == data[Watched].limit
        g == data[Watched].gas
    IN /\ Watched <= keyIdCounter => l.on /\ l.amount = Limit /\ l.every = Interval
       /\ l.used <= Limit
       /\ \E r \in 0..now : r <= l.last /\ Rate(paidAt, l.used, r, Limit, now)
       /\ \E r \in 0..now : (~g.reset => r <= g.last)
                            /\ Rate(gasAt, g.used, r, GasLimit, now)

LEMMA WatchedType ==
    ASSUME KeysAssumption, Storage
    PROVE  /\ Watched \in Ids /\ Watched # 0 /\ data[Watched] \in DataType
           /\ data[Watched].limit \in LimitType /\ data[Watched].gas \in GasType
           /\ data[Watched].limit.used \in Nat /\ data[Watched].limit.last \in Nat
           /\ data[Watched].gas.used \in 0..GasLimit /\ data[Watched].gas.last \in Nat
  <1>1. Watched \in Ids /\ Watched # 0 /\ data[Watched] \in DataType
    BY DEF KeysAssumption, Storage
  <1>2. data[Watched].limit \in LimitType /\ data[Watched].gas \in GasType
    BY <1>1 DEF DataType
  <1> QED
    BY <1>1, <1>2 DEF LimitType, GasType

LEMMA BookInit == ASSUME KeysAssumption, Init PROVE Book
  <1>1. Watched \in Ids /\ now = 1 /\ keyIdCounter = 0 /\ Watched > 0
    BY DEF KeysAssumption, Init
  <1>2. data[Watched] = Blank
    BY <1>1 DEF Init
  <1>3. /\ Rate(paidAt, 0, 0, Limit, now) /\ Rate(gasAt, 0, 0, GasLimit, now)
        /\ Limit \in Nat
    <2>1. Limit \in Nat /\ GasLimit \in Nat /\ now \in Nat
      BY <1>1 DEF KeysAssumption
    <2> QED
      BY <2>1, NothingPaid DEF Init
  <1> QED
    BY <1>1, <1>2, <1>3 DEF Book, Blank

LEMMA RateLater ==
    ASSUME KeysAssumption, NEW n \in Nat, NEW m \in Nat, n <= m,
           NEW p, NEW used, NEW r, NEW limit, Rate(p, used, r, limit, n)
    PROVE  Rate(p, used, r, limit, m)
  <1>1. \A u \in Instants : u > m => p[u] = 0
    BY FiniteTime DEF Rate
  <1> QED
    BY <1>1 DEF Rate

LEMMA NowType == ASSUME KeysAssumption, Pipeline PROVE now \in Nat /\ now \in Instants
  BY FiniteTime DEF Pipeline

\* Steps that neither pay nor charge for the id Watched.
LEMMA BookQuiet ==
    ASSUME KeysAssumption, IInv, IInv', Book, UNCHANGED <<paidAt, gasAt>>, now <= now',
           UNCHANGED <<data[Watched].limit.used, data[Watched].gas.used>>,
           UNCHANGED data[Watched].limit.last \/ data'[Watched].limit.last = now,
           \/ UNCHANGED <<data[Watched].gas.reset, data[Watched].gas.last>>
           \/ data'[Watched].gas.last = now,
           Watched <= keyIdCounter' =>
              /\ data'[Watched].limit.on /\ data'[Watched].limit.amount = Limit
              /\ data'[Watched].limit.every = Interval
    PROVE  Book'
  <1>1. now \in Nat /\ now' \in Nat
    BY NowType, FiniteTime DEF IInv, Pipeline
  <1>2. \E r \in 0..now' : /\ r <= data'[Watched].limit.last
                           /\ Rate(paidAt', data'[Watched].limit.used, r, Limit, now')
    <2>1. PICK r \in 0..now : r <= data[Watched].limit.last
                              /\ Rate(paidAt, data[Watched].limit.used, r, Limit, now)
      BY DEF Book
    <2>2. Rate(paidAt', data'[Watched].limit.used, r, Limit, now')
      BY <1>1, <2>1, RateLater, SMTT(30)
    <2>3. r \in 0..now' /\ r <= data'[Watched].limit.last
      BY <1>1, <2>1
    <2> QED
      BY <2>2, <2>3
  <1>3. \E r \in 0..now' : /\ ~data'[Watched].gas.reset => r <= data'[Watched].gas.last
                           /\ Rate(gasAt', data'[Watched].gas.used, r, GasLimit, now')
    <2>1. PICK r \in 0..now : /\ ~data[Watched].gas.reset => r <= data[Watched].gas.last
                              /\ Rate(gasAt, data[Watched].gas.used, r, GasLimit, now)
      BY DEF Book
    <2>2. Rate(gasAt', data'[Watched].gas.used, r, GasLimit, now')
      BY <1>1, <2>1, RateLater
    <2>3. r \in 0..now' /\ (~data'[Watched].gas.reset => r <= data'[Watched].gas.last)
      BY <1>1, <2>1
    <2> QED
      BY <2>2, <2>3
  <1>4. data'[Watched].limit.used <= Limit
    BY DEF Book
  <1> QED
    BY <1>2, <1>3, <1>4 DEF Book

\* Validation charges the gas to the limit of the key's id.
LEMMA BookValidate ==
    ASSUME KeysAssumption, IInv, IInv', Book, NEW op \in Payments, validate(op)
    PROVE  Book'
  <1> DEFINE i == idOf[op.key]
             g == data[Watched].gas
             h == data'[Watched].gas
  <1>1. /\ i \in Ids /\ Watched \in Ids /\ data \in [Ids -> DataType]
        /\ data[i] \in DataType /\ data[i].gas \in GasType
        /\ g.used \in 0..GasLimit /\ g.last \in Nat
        /\ now \in Nat /\ now \in Instants /\ GasLimit \in Nat /\ Interval \in Nat
    BY WatchedType, NowType DEF IInv, Storage, Payments, DataType, KeysAssumption
  <1>2. UNCHANGED <<paidAt, now, keyIdCounter>> /\ checkAndUpdateGasLimitUsage(i, 1)
    BY DEF validate, plugin
  <1>0. ASSUME NEW e, data' = [data EXCEPT ![i] = [data[i] EXCEPT !.gas = e]]
        PROVE  data'[i].gas = e /\ data'[i].limit = data[i].limit
    BY <1>1, <1>0 DEF DataType
  <1>3. UNCHANGED data[Watched].limit
    <2>1. CASE i # Watched
      BY <1>1, <1>2, <2>1, GasCharge DEF IInv
    <2>2. CASE i = Watched
      BY <1>1, <1>2, <1>0, <2>2, GasCharge DEF IInv
    <2> QED
      BY <2>1, <2>2
  <1>4. CASE i # Watched \/ ~g.on
    <2>1. UNCHANGED <<gasAt, data[Watched]>>
      BY <1>1, <1>2, <1>4, GasCharge DEF IInv, validate
    <2> QED
      BY <1>1, <1>2, <2>1, BookQuiet DEF Book
  <1>5. CASE i = Watched /\ g.on
    <2>1. Charged(gasAt, gasAt', now, 1)
      BY <1>5 DEF validate, Charged
    <2>2. PICK r \in 0..now : (~g.reset => r <= g.last)
                              /\ Rate(gasAt, g.used, r, GasLimit, now)
      BY DEF Book
    <2>3. \E s \in 0..now : (~h.reset => s <= h.last)
                             /\ Rate(gasAt', h.used, s, GasLimit, now)
      <3>1. CASE g.used + 1 <= GasLimit
        <4>1. h.used = g.used + 1 /\ h.reset = g.reset /\ h.last = g.last
          <5>1. h = [g EXCEPT !.used = g.used + 1]
            <6> DEFINE e == data[i].gas
            <6>0. e.on /\ ~(e.used + 1 > GasLimit)
              BY <1>1, <1>5, <3>1
            <6>1. data' = [data EXCEPT ![i] =
                             [data[i] EXCEPT !.gas = [e EXCEPT !.used = e.used + 1]]]
              <7>1. Storage
                BY DEF IInv
              <7> HIDE DEF i
              <7> QED
                BY ONLY KeysAssumption, <7>1, <1>1, <1>2, <6>0, GasCharge
            <6> QED
              BY <1>0, <1>5, <6>1
          <5> QED
            BY <1>1, <1>5, <5>1 DEF GasType
        <4>2. Rate(gasAt', h.used, r, GasLimit, now)
          <5>1. r \in Nat /\ r <= now /\ g.used \in Nat /\ h.used <= GasLimit
            BY <1>1, <2>2, <3>1, <4>1
          <5>2. h.used = g.used + 1
            BY <4>1
          <5> HIDE DEF h, g
          <5> QED
            BY <1>1, <2>1, <2>2, <5>1, <5>2, RateCharge
        <4> QED
          BY <2>2, <4>1, <4>2
      <3>2. CASE ~(g.used + 1 <= GasLimit)
        <4>1. /\ 1 <= GasLimit /\ ~g.reset /\ g.last + Interval <= now
              /\ h.used = 1 /\ h.reset = TRUE
          <5>1. /\ h = [g EXCEPT !.used = 1, !.reset = TRUE]
                /\ 1 <= GasLimit /\ ~g.reset /\ g.last + Interval <= now
            BY <1>1, <1>2, <1>5, <1>0, <3>2, GasCharge DEF IInv
          <5> QED
            BY <1>1, <1>5, <5>1 DEF GasType
        <4>2. r \in Nat /\ r + Interval <= now /\ g.used \in Nat /\ g.used <= GasLimit
          BY <1>1, <2>2, <4>1
        <4>3. Rate(gasAt', 1, now, GasLimit, now)
          <5> HIDE DEF g
          <5> QED
            BY <1>1, <2>1, <2>2, <4>1, <4>2, RateReset
        <4>4. now \in 0..now
          BY <1>1
        <4> QED
          BY <4>1, <4>3, <4>4
      <3> QED
        BY <3>1, <3>2
    <2> QED
      BY <1>2, <1>3, <2>3 DEF Book
  <1> QED
    BY <1>4, <1>5

\* executeWithSessionKey counts the payment in the limit of the key's id.
LEMMA BookPayment ==
    ASSUME KeysAssumption, IInv, IInv', Book,
           NEW op \in Payments, executeWithSessionKey(op)
    PROVE  Book'
  <1> DEFINE i == idOf[op.key]
             l == data[Watched].limit
             k == data'[Watched].limit
             g == data[Watched].gas
             h == data'[Watched].gas
             a == op.amount
  <1>1. /\ i \in Ids /\ Watched \in Ids /\ data \in [Ids -> DataType]
        /\ data[Watched] \in DataType /\ l \in LimitType /\ g \in GasType
        /\ l.used \in Nat /\ l.last \in Nat /\ g.last \in Nat /\ a \in Nat
        /\ now \in Nat /\ now \in Instants /\ Limit \in Nat /\ Interval \in Nat
    <2>1. op.key \in Keys /\ op.amount \in Nat
      BY DEF Payments, KeysAssumption
    <2> QED
      BY <2>1, WatchedType, NowType DEF IInv, Storage, KeysAssumption
  <1>2. UNCHANGED <<gasAt, now, keyIdCounter>>
    BY DEF executeWithSessionKey, plugin
  <1>3. CASE i # Watched
    <2>1. UNCHANGED <<paidAt, data[Watched]>>
      BY <1>1, <1>3 DEF executeWithSessionKey
    <2> QED
      BY <1>1, <1>2, <2>1, BookQuiet DEF Book
  <1>4. CASE i = Watched
    <2>1. Charged(paidAt, paidAt', now, a)
      BY <1>4 DEF executeWithSessionKey, Charged
    <2>2. /\ h = IF g.reset THEN [g EXCEPT !.reset = FALSE, !.last = now] ELSE g
          /\ k = IF l.on THEN runtimeUsed(l, a) ELSE l
          /\ l.on => runtimeFits(l, a)
      BY <1>1, <1>4 DEF executeWithSessionKey, DataType
    <2>3. l.on /\ l.amount = Limit /\ l.every = Interval
      <3>1. Watched <= keyIdCounter
        <4>1. op.key \in Keys
          BY DEF Payments
        <4> QED
          BY <1>4, <4>1 DEF IInv, IdsWereDealt
      <3> QED
        BY <3>1 DEF Book
    <2>4. PICK r \in 0..now : r <= l.last /\ Rate(paidAt, l.used, r, Limit, now)
      BY DEF Book
    <2>5. l.used <= Limit
      BY DEF Book
    <2>6. /\ k.on /\ k.amount = Limit /\ k.every = Interval /\ k.used <= Limit
          /\ \E s \in 0..now : s <= k.last /\ Rate(paidAt', k.used, s, Limit, now)
      <3>1. CASE intervalIsOver(l)
        <4>1. /\ a <= Limit /\ l.last + Interval <= now
              /\ k = [l EXCEPT !.used = a, !.last = now]
          BY <2>2, <2>3, <3>1 DEF runtimeFits, runtimeUsed, intervalIsOver
        <4>2. k.used = a /\ k.last = now /\ k.on = l.on /\ k.amount = l.amount /\ k.every = l.every
          BY <1>1, <4>1 DEF LimitType
        <4>3. r \in Nat /\ r + Interval <= now
          BY <1>1, <2>4, <4>1
        <4>4. Rate(paidAt', a, now, Limit, now)
          BY <1>1, <2>1, <2>4, <2>5, <4>1, <4>3, RateReset
        <4>5. now \in 0..now
          BY <1>1
        <4> HIDE DEF k
        <4> QED
          BY <1>1, <2>3, <4>1, <4>2, <4>4, <4>5
      <3>2. CASE ~intervalIsOver(l)
        <4>1. a + l.used <= Limit /\ k = [l EXCEPT !.used = l.used + a]
          BY <2>2, <2>3, <3>2 DEF runtimeFits, runtimeUsed
        <4>2. /\ k.used = l.used + a /\ k.last = l.last
              /\ k.on = l.on /\ k.amount = l.amount /\ k.every = l.every
          BY <1>1, <4>1 DEF LimitType
        <4>3. l.used + a <= Limit
          BY <1>1, <4>1
        <4>4. Rate(paidAt', k.used, r, Limit, now)
          <5>1. r \in Nat /\ r <= now /\ k.used <= Limit
            BY <1>1, <2>4, <4>2, <4>3, SMTT(30)
          <5>2. k.used = l.used + a
            BY <4>2
          <5> HIDE DEF k, l, a
          <5> QED
            BY <1>1, <2>1, <2>4, <5>1, <5>2, RateCharge
        <4> HIDE DEF k
        <4> QED
          BY <2>3, <2>4, <4>2, <4>3, <4>4
      <3> QED
        BY <3>1, <3>2
    <2>7. \E s \in 0..now : (~h.reset => s <= h.last)
                             /\ Rate(gasAt, h.used, s, GasLimit, now)
      <3>1. PICK s \in 0..now : (~g.reset => s <= g.last)
                                /\ Rate(gasAt, g.used, s, GasLimit, now)
        BY DEF Book
      <3>2. h.used = g.used /\ (~h.reset => s <= h.last)
        BY <1>1, <2>2, <3>1 DEF GasType
      <3> QED
        BY <3>1, <3>2
    <2> QED
      BY <1>2, <2>6, <2>7 DEF Book
  <1> QED
    BY <1>3, <1>4

\* A grant of permissions to an id keeps its usage and starts its interval now.
LEMMA BookGrant ==
    ASSUME KeysAssumption, IInv, IInv', Book, UNCHANGED <<paidAt, gasAt, now>>,
           NEW i \in Ids, data' = [data EXCEPT ![i] = granted(data[i])],
           keyIdCounter' = keyIdCounter \/ (i = keyIdCounter + 1 /\ keyIdCounter' = i)
    PROVE  Book'
  <1>1. /\ now \in Nat /\ Watched \in Ids /\ data \in [Ids -> DataType]
        /\ keyIdCounter \in Nat /\ Watched \in Nat /\ data[Watched] \in DataType
        /\ data[Watched].limit \in LimitType /\ data[Watched].gas \in GasType
    BY WatchedType, NowType, SMTT(30) DEF IInv, Storage, KeysAssumption
  <1>2. CASE i # Watched
    <2>1. UNCHANGED data[Watched]
      BY <1>1, <1>2
    <2>2. Watched <= keyIdCounter' => Watched <= keyIdCounter
      BY <1>1, <1>2
    <2> QED
      BY <1>1, <2>1, <2>2, BookQuiet DEF Book
  <1>3. CASE i = Watched
    <2> DEFINE l == data[Watched].limit
               g == data[Watched].gas
               newL == [l EXCEPT !.on = TRUE, !.amount = Limit, !.last = now,
                                 !.every = Interval]
               newG == IF asset = "native"
                       THEN [g EXCEPT !.on = TRUE, !.last = now, !.reset = FALSE]
                       ELSE g
    <2>1. data'[Watched] = [data[Watched] EXCEPT !.listed = TRUE, !.limit = newL,
                                                 !.gas = newG]
      BY <1>1, <1>3 DEF granted
    <2>2. data'[Watched].limit = newL /\ data'[Watched].gas = newG
      <3> HIDE DEF newL, newG
      <3> QED
        BY <1>1, <2>1 DEF DataType
    <2>3. /\ newL.used = l.used /\ newL.on /\ newL.amount = Limit
          /\ newL.last = now /\ newL.every = Interval
      BY <1>1 DEF LimitType
    <2>4. newG.used = g.used /\ (newG = g \/ newG.last = now)
      BY <1>1 DEF GasType
    <2> HIDE DEF newL, newG
    <2> QED
      BY <1>1, <2>2, <2>3, <2>4, BookQuiet, SMTT(30)
  <1> QED
    BY <1>2, <1>3

LEMMA BookOwners ==
    ASSUME KeysAssumption, IInv, IInv', Book, NEW op \in OwnerOps,
           \/ ownersSign(op) \/ addSessionKey(op) \/ removeSessionKey(op)
           \/ rotateSessionKey(op) \/ updateKeyPermissions(op)
           \/ onInstall(op) \/ onUninstall(op)
    PROVE  Book'
  <1>0. op.kind # "uninstall" => op.key \in Keys
    BY DEF OwnerOps
  <1>1. CASE ownersSign(op) \/ removeSessionKey(op) \/ rotateSessionKey(op) \/ onUninstall(op)
    BY <1>1 DEF ownersSign, removeSessionKey, rotateSessionKey, onUninstall,
                counterAfterUninstall, Book
  <1>2. CASE addSessionKey(op) \/ onInstall(op)
    <2>1. /\ keyIdCounter' = keyIdCounter + 1 /\ UNCHANGED <<paidAt, gasAt, now>>
          /\ data' = [data EXCEPT ![keyIdCounter'] = granted(data[keyIdCounter'])]
      BY <1>2 DEF addSessionKey, onInstall, adds
    <2>2. keyIdCounter' \in Ids
      BY DEF IInv, Storage
    <2> QED
      BY <2>1, <2>2, BookGrant
  <1>3. CASE updateKeyPermissions(op)
    <2>1. /\ UNCHANGED <<paidAt, gasAt, now, keyIdCounter>> /\ idOf[op.key] \in Ids
          /\ data' = [data EXCEPT ![idOf[op.key]] = granted(data[idOf[op.key]])]
      BY <1>0, <1>3 DEF updateKeyPermissions, IInv, Storage
    <2> QED
      BY <2>1, BookGrant
  <1> QED
    BY <1>1, <1>2, <1>3

LEMMA BookReset ==
    ASSUME KeysAssumption, IInv, IInv', Book, NEW k \in Keys,
           resetSessionKeyGasLimitTimestamp(k)
    PROVE  Book'
  <1> DEFINE i == idOf[k]
             g == [data[i].gas EXCEPT !.reset = FALSE, !.last = now]
  <1>1. /\ i \in Ids /\ now \in Nat /\ Watched \in Ids /\ data \in [Ids -> DataType]
        /\ data[i] \in DataType /\ data[i].gas \in GasType
    BY WatchedType, NowType DEF IInv, Storage, DataType
  <1>2. UNCHANGED <<paidAt, gasAt, now, keyIdCounter>>
    BY DEF resetSessionKeyGasLimitTimestamp
  <1>3. data' = [data EXCEPT ![i] = [data[i] EXCEPT !.gas = g]]
    BY <1>1 DEF resetSessionKeyGasLimitTimestamp, DataType, GasType
  <1>4. g.used = data[i].gas.used /\ g.last = now
    BY <1>1 DEF GasType
  <1>5. CASE i # Watched
    <2>1. UNCHANGED data[Watched]
      BY <1>1, <1>3, <1>5
    <2> QED
      BY <1>2, <2>1 DEF Book
  <1>6. CASE i = Watched
    <2>1. data'[Watched].limit = data[Watched].limit /\ data'[Watched].gas = g
      <3> HIDE DEF g
      <3> QED
        BY <1>1, <1>3, <1>6 DEF DataType
    <2> HIDE DEF g
    <2>2. UNCHANGED data[Watched].gas.used /\ data'[Watched].gas.last = now
      BY <1>4, <1>6, <2>1
    <2>3. now <= now'
      BY <1>1, <1>2
    <2> QED
      BY <1>2, <2>1, <2>2, <2>3, BookQuiet DEF Book
  <1> QED
    BY <1>5, <1>6

LEMMA Rates == KeysAssumption => (Spec => [](IInv /\ Book))
  <1> SUFFICES ASSUME KeysAssumption PROVE Spec => [](IInv /\ Book)
    OBVIOUS
  <1>1. Init => Book
    BY BookInit
  <1>2. IInv /\ IInv' /\ Book /\ [Next]_vars => Book'
    <2> SUFFICES ASSUME IInv, IInv', Book, [Next]_vars PROVE Book'
      OBVIOUS
    <2>1. CASE UNCHANGED vars
      BY <2>1 DEF vars, Book
    <2>2. CASE handleOps \/ reverts
      BY <2>2 DEF handleOps, reverts, Book
    <2>3. CASE Tick
      <3>1. now <= now' /\ UNCHANGED <<paidAt, gasAt, data, keyIdCounter>>
        BY <2>3, NowType DEF Tick, IInv
      <3> QED
        BY <3>1, BookQuiet DEF Book
    <2> QED
      BY <2>1, <2>2, <2>3, BookValidate, BookPayment, BookOwners, BookReset DEF Next
  <1> QED
    BY <1>1, <1>2, Inductive, PTL DEF Spec

-----------------------------------------------------------------------------
(* What follows from it.                                                   *)

\* The plugin's storage and the bundle keep their types: a key has an id
\* exactly while it is listed, and the gas charged in validation never passes
\* the key's limit.
THEOREM TypeCorrect == KeysAssumption => (Spec => []TypeOK)
  <1>1. IInv => TypeOK
    BY DEF IInv, Storage, Pipeline, IdsWereDealt, DataType, GasType, Op, TypeOK
  <1> QED
    BY <1>1, Inductive, PTL

\* No two keys share an id, and an id that was taken away, by a removal or an
\* uninstall, never serves again: permissions and usage are not inherited.
THEOREM IdsNotReused == KeysAssumption => (Spec => []IdsAreNotReused)
  <1>1. IInv => IdsAreNotReused
    BY DEF IInv, Storage, IdsWereDealt, IdsAreNotReused
  <1> QED
    BY <1>1, Inductive, PTL

\* Whatever the bundles, rotations and renewed grants, a key pays at most twice
\* its spend limit, and is charged at most twice its gas limit, in any stretch
\* of time as long as a refresh interval.
THEOREM RatesBounded == KeysAssumption => (Spec => []RatesAreBounded)
  <1>1. IInv /\ Book => RatesAreBounded
    BY DEF Book, Rate, RatesAreBounded, SpendRateIsBounded, GasRateIsBounded
  <1> QED
    BY <1>1, Rates, PTL
=============================================================================
