---------------------------- MODULE SessionKeys ----------------------------
(***************************************************************************)
(* The session keys of one account (BufiSessionKeyPlugin and its           *)
(* permissions) under the EntryPoint: all operations of a bundle are       *)
(* validated before the first executes, gas is charged in validation and   *)
(* spending in execution, and a reverted execution keeps the gas charge.   *)
(* The key list is a set (a stale predecessor only reverts); the calls of  *)
(* an operation are one payment.  Limits of different assets share nothing *)
(* but the key, so a behaviour is about one asset, native or ERC-20.       *)
(***************************************************************************)
EXTENDS Naturals, Sequences, FiniteSets, Functions

CONSTANTS Keys, MaxIds,
          Limit, GasLimit,    \* the amounts the owners grant
          Interval,           \* refreshInterval of every limit granted
          Amounts,            \* what an operation may pay
          MaxBundle, MaxTime, MaxOwnerOps,
          Watched             \* the id whose payments and gas the ghosts add up

KeysAssumption ==
    /\ MaxIds \in Nat /\ GasLimit \in Nat /\ Limit \in Nat /\ Interval \in Nat
    /\ MaxBundle \in Nat /\ MaxTime \in Nat \ {0} /\ Amounts \subseteq Nat
    /\ Watched \in 1..MaxIds      \* id 0 is never given to a key

VARIABLES installed, sessionKeys, idOf, keyIdCounter,   \* the plugin
          data,                              \* per id: list entry and limits
          bundle, executing, now,            \* the EntryPoint's bundle
          asset, ownerOps,                   \* asset paid in; operations signed
          paidAt, gasAt,                     \* ghosts: by instant, of the id Watched
          retired                            \* ghost: ids once taken away

plugin == <<installed, sessionKeys, idOf, keyIdCounter>>
rest == <<asset, ownerOps>>
vars == <<installed, sessionKeys, idOf, keyIdCounter, data, bundle, executing, now,
          asset, ownerOps, paidAt, gasAt, retired>>

Ids == 0..MaxIds
Instants == 1..MaxTime
Assets == {"native", "token"}

\* What _sessionKeyDataOf and _contractDataOf read for an id never written:
\* an empty allowlist, a native limit of zero and no limit on the ERC-20.
Blank == [listed |-> FALSE,
          limit |-> [on |-> asset = "native", amount |-> 0, used |-> 0,
                     last |-> 0, every |-> 0],
          gas |-> [on |-> FALSE, used |-> 0, last |-> 0, reset |-> FALSE]]

Init ==
    /\ asset \in Assets /\ ownerOps = 0
    \* the factory installs plugins when it creates the account
    /\ installed = TRUE /\ sessionKeys = {} /\ idOf = [k \in Keys |-> 0] /\ keyIdCounter = 0
    /\ data = [i \in Ids |-> Blank]
    /\ bundle = <<>> /\ executing = FALSE /\ now = 1
    /\ paidAt = [t \in Instants |-> 0] /\ gasAt = [t \in Instants |-> 0]
    /\ retired = {}

-----------------------------------------------------------------------------
(* Validation *)

\* _checkCallPermissions and _checkSpendLimitUsage, whose validAfter the
\* EntryPoint compares with the block's time.  The ERC-20 limit is not looked
\* at here.
checkSpendLimitUsage(l, amount) ==
    \/ ~l.on
    \/ amount + l.used <= l.amount
    \/ l.every # 0 /\ amount <= l.amount /\ l.last + l.every <= now

fitsNextInterval_flagIgnored(g, cost) == cost <= GasLimit
fitsNextInterval(g, cost) == cost <= GasLimit /\ ~g.reset

\* _checkAndUpdateGasLimitUsage
checkAndUpdateGasLimitUsage(i, cost) ==
    LET g == data[i].gas
        total == cost + g.used
    IN \/ /\ ~g.on /\ UNCHANGED data
       \/ /\ g.on /\ total <= GasLimit
          /\ g.reset => g.last + Interval <= now
          /\ data' = [data EXCEPT ![i].gas.used = total]
       \/ /\ g.on /\ total > GasLimit /\ fitsNextInterval(g, cost)
          /\ g.last + Interval <= now
          /\ data' = [data EXCEPT ![i].gas.used = cost, ![i].gas.reset = TRUE]

\* userOpValidationFunction; a failing operation is not in the bundle.
validate(op) ==
    LET i == idOf[op.key]
    IN /\ ~executing /\ Len(bundle) < MaxBundle
       /\ op.key \in sessionKeys /\ data[i].listed
       /\ asset = "native" => checkSpendLimitUsage(data[i].limit, op.amount)
       /\ checkAndUpdateGasLimitUsage(i, 1)
       /\ gasAt' = IF i = Watched /\ data[i].gas.on THEN [gasAt EXCEPT ![now] = @ + 1]
                   ELSE gasAt
       /\ bundle' = Append(bundle, op)
       /\ UNCHANGED <<rest, plugin, executing, now, paidAt,
                      retired>>

\* An owners' operation: their own plugin validates it.
ownersSign(op) ==
    /\ ~executing /\ Len(bundle) < MaxBundle /\ bundle' = Append(bundle, op)
    /\ ownerOps < MaxOwnerOps /\ ownerOps' = ownerOps + 1
    /\ UNCHANGED <<plugin, data, executing, now, asset, paidAt, gasAt, retired>>

handleOps == /\ ~executing /\ bundle # <<>> /\ executing' = TRUE
             /\ UNCHANGED <<rest, plugin, data, bundle, now,
                            paidAt, gasAt, retired>>

-----------------------------------------------------------------------------
(* Execution of the bundle's first operation *)

Executes(op) == executing /\ bundle # <<>> /\ op = Head(bundle)
                /\ bundle' = Tail(bundle) /\ executing' = (Len(bundle) > 1)

intervalIsOver(l) == l.every # 0 /\ l.last + l.every <= now

\* _runtimeUpdateSpendLimitUsage: the new state of a limit; the call reverts
\* unless the amount fits.
runtimeFits(l, amount) == IF intervalIsOver(l) THEN amount <= l.amount
                          ELSE amount + l.used <= l.amount
runtimeUsed(l, amount) ==
    IF intervalIsOver(l) THEN [l EXCEPT !.used = amount, !.last = now]
    ELSE [l EXCEPT !.used = @ + amount]

\* executeWithSessionKey, with _updateLimitsPreExec, when nothing reverts.
executeWithSessionKey(op) ==
    LET i == idOf[op.key]
        l == data[i].limit
        g == data[i].gas
    IN /\ op.kind = "pay" /\ Executes(op) /\ installed
       /\ l.on => runtimeFits(l, op.amount)
       /\ data' = [data EXCEPT
             ![i].limit = IF l.on THEN runtimeUsed(l, op.amount) ELSE l,
             ![i].gas = IF g.reset THEN [g EXCEPT !.reset = FALSE, !.last = now]
                        ELSE g]
       /\ paidAt' = IF i = Watched THEN [paidAt EXCEPT ![now] = @ + op.amount]
                    ELSE paidAt
       /\ UNCHANGED <<rest, plugin, now, gasAt, retired>>

\* The execution reverts: a limit, the call itself, or an owners' call that
\* does not apply any more.
reverts == /\ bundle # <<>> /\ Executes(Head(bundle))
           /\ UNCHANGED <<rest, plugin, data, now, paidAt,
                          gasAt, retired>>

\* Owners who grant native value limit the gas too, the others do not.
granted(d) ==
    [d EXCEPT !.listed = TRUE,
       !.limit = [@ EXCEPT !.on = TRUE, !.amount = Limit, !.last = now,
                           !.every = Interval],
       !.gas = IF asset = "native"
               THEN [@ EXCEPT !.on = TRUE, !.last = now, !.reset = FALSE] ELSE @]

\* The storage addSessionKey writes; onInstall adds its keys through it.
adds(k) ==
    /\ k \notin sessionKeys /\ keyIdCounter < MaxIds
    /\ sessionKeys' = sessionKeys \cup {k}
    /\ keyIdCounter' = keyIdCounter + 1
    /\ idOf' = [idOf EXCEPT ![k] = keyIdCounter']
    /\ data' = [data EXCEPT ![keyIdCounter'] = granted(@)]

addSessionKey(op) ==
    /\ op.kind = "add" /\ Executes(op) /\ installed /\ adds(op.key)
    /\ UNCHANGED <<rest, installed, now, paidAt, gasAt, retired>>

removeSessionKey(op) ==
    /\ op.kind = "remove" /\ Executes(op) /\ op.key \in sessionKeys
    /\ sessionKeys' = sessionKeys \ {op.key}
    /\ idOf' = [idOf EXCEPT ![op.key] = 0]
    /\ retired' = retired \cup {idOf[op.key]}
    /\ UNCHANGED <<rest, installed, keyIdCounter, data, now, paidAt, gasAt>>

movedId_copied(old, new) == [idOf EXCEPT ![new] = idOf[old]]
movedId(old, new) == [idOf EXCEPT ![old] = 0, ![new] = idOf[old]]

rotateSessionKey(op) ==
    /\ op.kind = "rotate" /\ Executes(op) /\ op.key \in sessionKeys
    /\ \E new \in Keys \ sessionKeys :
          /\ sessionKeys' = (sessionKeys \ {op.key}) \cup {new}
          /\ idOf' = movedId(op.key, new)
    /\ UNCHANGED <<rest, installed, keyIdCounter, data, now, paidAt, gasAt, retired>>

\* updateKeyPermissions with the same limits again: the usage stays, the
\* interval starts anew.
updateKeyPermissions(op) ==
    /\ op.kind = "update" /\ Executes(op) /\ op.key \in sessionKeys
    /\ data' = [data EXCEPT ![idOf[op.key]] = granted(@)]
    /\ UNCHANGED <<rest, plugin, now, paidAt, gasAt, retired>>

counterAfterUninstall_reset == 0
counterAfterUninstall == keyIdCounter

\* onInstall, with one key in its data (none, when the account is created).
onInstall(op) ==
    /\ op.kind = "install" /\ Executes(op) /\ ~installed /\ sessionKeys = {}
    /\ installed' = TRUE /\ adds(op.key)
    /\ UNCHANGED <<rest, now, paidAt, gasAt, retired>>

onUninstall(op) ==
    /\ op.kind = "uninstall" /\ Executes(op) /\ installed
    /\ installed' = FALSE
    /\ retired' = retired \cup {idOf[k] : k \in sessionKeys}
    /\ sessionKeys' = {} /\ idOf' = [k \in Keys |-> 0]
    /\ keyIdCounter' = counterAfterUninstall
    /\ UNCHANGED <<rest, data, now, paidAt, gasAt>>

-----------------------------------------------------------------------------

\* Anyone may call it, between bundles.
resetSessionKeyGasLimitTimestamp(k) ==
    /\ ~executing /\ idOf[k] # 0 /\ data[idOf[k]].gas.reset
    /\ data' = [data EXCEPT ![idOf[k]].gas.reset = FALSE,
                            ![idOf[k]].gas.last = now]
    /\ UNCHANGED <<rest, plugin, bundle, executing, now,
                   paidAt, gasAt, retired>>

\* A bundle is one transaction: time passes between bundles.
Tick == /\ bundle = <<>> /\ now < MaxTime /\ now' = now + 1
        /\ UNCHANGED <<rest, plugin, data, bundle, executing,
                       paidAt, gasAt, retired>>

Payments == [kind : {"pay"}, key : Keys, amount : Amounts]
OwnerOps == [kind : {"add", "remove", "rotate", "update", "install"}, key : Keys]
            \cup [kind : {"uninstall"}]

Next ==
    \/ \E op \in Payments : validate(op) \/ executeWithSessionKey(op)
    \/ \E op \in OwnerOps : ownersSign(op) \/ addSessionKey(op)
          \/ removeSessionKey(op) \/ rotateSessionKey(op)
          \/ updateKeyPermissions(op) \/ onInstall(op) \/ onUninstall(op)
    \/ \E k \in Keys : resetSessionKeyGasLimitTimestamp(k)
    \/ handleOps \/ reverts \/ Tick

Spec == Init /\ [][Next]_vars

-----------------------------------------------------------------------------
(* Properties *)

\* Type invariant.  The plugin's storage, the bundle and the ghosts; a key has an id exactly
\* while it is listed, and its gas usage stays within the limit.
TypeOK ==
    /\ sessionKeys \subseteq Keys /\ idOf \in [Keys -> Ids]
    /\ keyIdCounter \in Ids /\ now \in Instants /\ executing \in BOOLEAN
    /\ \A k \in Keys : k \in sessionKeys <=> idOf[k] # 0
    /\ \A i \in Ids : data[i].gas.used \in 0..GasLimit
    /\ bundle \in Seq(Payments \cup OwnerOps) /\ Len(bundle) <= MaxBundle
    /\ retired \subseteq Ids

\* The instants of one refresh interval that starts at t.
Window(t) == {u \in Instants : t <= u /\ u < t + Interval}

\* Under any mix of bundles, rotations and renewed grants, a key pays out at
\* most twice its limit of an asset in any stretch of time as long as a
\* refresh interval: operations that were validated together are counted
\* again when they execute, and usage resets at most once per interval.
SpendRateIsBounded ==
    \A t \in Instants : SumFunctionOnSet(paidAt, Window(t)) <= 2 * Limit

\* The same holds of the gas charged against a limit in validation, even when every
\* execution reverts and with it the reset of the interval's start
\* (gasLimitResetThisBundle).
GasRateIsBounded ==
    \A t \in Instants : SumFunctionOnSet(gasAt, Window(t)) <= 2 * GasLimit

\* A session key pays at most twice its spend limit, and is charged at most
\* twice its gas limit, in the time of one refresh interval.
RatesAreBounded == SpendRateIsBounded /\ GasRateIsBounded

\* Permissions are never inherited: no two keys share an id, an id taken from
\* a removed key or an uninstalled plugin never serves again, and no listed key
\* has id 0, where an operation whose key was removed in its own bundle is
\* accounted (_updateLimitsPreExec does not ask for a nonzero id).
IdsAreNotReused ==
    /\ \A k, j \in sessionKeys : idOf[k] = idOf[j] => k = j
    /\ \A k \in sessionKeys : idOf[k] \notin retired \cup {0}
=============================================================================
