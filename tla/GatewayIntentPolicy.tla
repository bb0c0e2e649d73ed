------------------------- MODULE GatewayIntentPolicy -------------------------
(***************************************************************************)
(* The Circle Gateway intent policy shared by GatewayTreasury and by the   *)
(* ERC-6900 intent guard: contracts/src/bufi/gateway-guard/                *)
(* GatewayIntentPolicy.sol.  Pure operators, no state.                     *)
(*                                                                         *)
(* A 20-byte address is a number, 0 being address(0).  A 32-byte word is   *)
(* the pair of its upper 96 bits, of which only "all zero or not" is ever  *)
(* tested, and its lower 160 bits, which are an address.  An EIP-712       *)
(* digest is the signed struct itself: the hash is assumed collision-free. *)
(***************************************************************************)
EXTENDS Integers

CONSTANTS
    Address,        \* the addresses of the instance
    Domain,         \* the Gateway domains of the instance
    SOLANA_DOMAIN   \* the one domain whose accounts are 32-byte keys

ASSUME AddressAssumption == 0 \in Address /\ Address \subseteq Nat

Word == [upper : {0, 1}, addr : Address]

\* bytes32(uint256(uint160(a))): an address becomes a left-padded word.
toBytes32(a) == [upper |-> 0, addr |-> a]

ZeroWord == toBytes32(0)

\* address(uint160(uint256(w))): the upper bits are dropped.
truncate(w) == w.addr

isCanonicalAddress(w) == w.upper = 0

isEvmDomain(d) == d # SOLANA_DOMAIN

\* A destination word has the address shape of its domain.
matchesDomainShape(d, w) ==
    /\ w # ZeroWord
    /\ isEvmDomain(d) <=> isCanonicalAddress(w)

TransferSpec ==
    [version : Nat, sourceDomain : Domain, destinationDomain : Domain,
     sourceContract : Word, destinationContract : Word,
     sourceToken : Word, destinationToken : Word,
     sourceDepositor : Word, destinationRecipient : Word,
     sourceSigner : Word, destinationCaller : Word,
     value : Nat, salt : Nat, hookData : BOOLEAN]

BurnIntent == [maxBlockHeight : Nat, maxFee : Nat, spec : TransferSpec]

\* The EIP-712 digests, as the structs they commit to.
burnIntentDigest(intent) == [type |-> "BurnIntent", intent |-> intent]

receiveWithAuthorizationDigest(name, token, auth) ==
    [type |-> "ReceiveWithAuthorization", name |-> name, token |-> token,
     auth |-> auth]

\* The scalar half of the policy.  The expiry rule bounds only how far ahead
\* an intent may run: one whose block has passed is left to Gateway to refuse.
checkIntentShape(intent, limits, blockNumber) ==
    LET spec == intent.spec IN
    /\ spec.version = 1
    /\ spec.sourceDomain = limits.sourceDomain
    /\ spec.sourceContract = toBytes32(limits.gatewayWallet)
    /\ spec.sourceDepositor = toBytes32(limits.depositor)
    /\ spec.sourceSigner = toBytes32(limits.depositor)
    /\ intent.maxBlockHeight - blockNumber <= limits.maxExpiryBlocks
    /\ isCanonicalAddress(spec.sourceToken)
    /\ ~spec.hookData
    /\ spec.value \in 1 .. limits.perIntentCap
    /\ intent.maxFee <= limits.maxFeeCap
=============================================================================
