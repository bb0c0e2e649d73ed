------------------------ MODULE AccountGuardsProofs ------------------------
(***************************************************************************)
(* Theorems about AccountGuards, for any installs, edits and bundles.      *)
(***************************************************************************)
EXTENDS AccountGuards, FiniteSetTheorems, TLAPS

-----------------------------------------------------------------------------
(* The inductive invariant.                                                *)

LimitsType == [perIntentCap : Nat, maxFeeCap : Nat, maxExpiryBlocks : Nat,
               addressBook : BOOLEAN]
StoreType == [recipients : SUBSET Word, recipientCount : Int, domains : SUBSET Domain,
              minters : [Domain -> Word], tokens : SUBSET Address,
              destTokens : SUBSET Word, callers : SUBSET Word]
OpType == OwnerOps \cup [kind : {"agent"}, call : AgentCalls, hooked : BOOLEAN]

GuardTypes ==
    /\ limits \in LimitsType \cup {None}
    /\ limits # None => limits.perIntentCap > 0 /\ limits.maxExpiryBlocks > 0
                        /\ epoch < MaxInstalls
    /\ epoch \in 0 .. MaxInstalls
    /\ store \in [0 .. MaxInstalls -> StoreType]

PluginTypes ==
    /\ bookInstalled \in BOOLEAN /\ bound \in BOOLEAN /\ executing \in BOOLEAN
    /\ book \subseteq Payees
    /\ bundle \in Seq(OpType)

\* A namespace not installed into yet is blank.
FutureIsBlank ==
    \A e \in 0 .. MaxInstalls :
        e > epoch \/ (e = epoch /\ limits = None) => store[e] = Nothing

FiniteRecipients == IsFiniteSet(live.recipients)

\* What the live namespace holds was switched on since the last install.
LiveWasGranted ==
    limits # None =>
        /\ \A w \in live.recipients : <<"recipient", w>> \in granted
        /\ \A d \in live.domains : <<"domain", d>> \in granted
        /\ \A t \in live.tokens : <<"token", t>> \in granted
        /\ \A t \in live.destTokens : <<"destToken", t>> \in granted
        /\ \A c \in live.callers : <<"caller", c>> \in granted

\* A book that is not installed is empty.
BookIsCleared == bookInstalled \/ book = {}

\* The payments of the bundle that passed the hook are in the book; once the
\* bundle executes, in the book as it was.
HookedPaymentsInBook ==
    \A i \in 1 .. Len(bundle) :
        bundle[i].kind = "agent" /\ bundle[i].hooked =>
            paidBy(bundle[i].call) \subseteq IF executing THEN bookThen ELSE book

GuardInv == /\ GuardTypes /\ FutureIsBlank /\ FiniteRecipients
            /\ RecipientsAreCounted /\ LiveWasGranted
PluginInv == PluginTypes /\ BookIsCleared /\ HookedPaymentsInBook
IInv == GuardInv /\ PluginInv

-----------------------------------------------------------------------------
(* The bundle.                                                             *)

\* The kind of an operation says which it is.
LEMMA OpKinds ==
    ASSUME GuardsAssumption, NEW op \in OpType
    PROVE  /\ op.kind = "install" => op.init \in Inits
           /\ op.kind = "edit" => op.edit \in Edits
           /\ op.kind = "book" => op.payees \subseteq Payees
           /\ op.kind \in {"admit", "expel"} => op.payee \in Payees
           /\ op.kind = "agent" => op.call \in AgentCalls /\ op.hooked \in BOOLEAN
BY DEF OpType, OwnerOps

\* What the EntryPoint does to the bundle when it executes an operation, and
\* what stays true of the operations left.
LEMMA ExecutesEffect ==
    ASSUME PluginInv, NEW op, Executes(op)
    PROVE  /\ op \in OpType /\ executing
           /\ bundle' \in Seq(OpType) /\ executing' \in BOOLEAN
           /\ HookedPaymentsInBook'
           /\ op.kind = "agent" /\ op.hooked => paidBy(op.call) \subseteq bookThen
<1>1. /\ bundle \in Seq(OpType) /\ bundle # <<>> /\ executing
      /\ op = Head(bundle) /\ bundle' = Tail(bundle)
      /\ bookThen' = bookThen
    BY DEF PluginInv, PluginTypes, Executes
<1>2. executing' = (Len(bundle) > 1)
    BY DEF Executes
<1>3. /\ op = bundle[1] /\ op \in OpType /\ Len(bundle) \in Nat /\ Len(bundle) >= 1
      /\ bundle' \in Seq(OpType) /\ Len(bundle') = Len(bundle) - 1
      /\ \A i \in 1 .. Len(bundle') : bundle'[i] = bundle[i + 1]
    BY <1>1
<1>4. executing' \in BOOLEAN /\ (executing' <=> Len(bundle) > 1)
  <2>1. (Len(bundle) > 1) \in BOOLEAN
    BY <1>3
  <2> QED
    BY <1>2, <2>1, Zenon
<1>5. \A i \in 1 .. Len(bundle) :
         bundle[i].kind = "agent" /\ bundle[i].hooked =>
             paidBy(bundle[i].call) \subseteq bookThen
    BY <1>1 DEF PluginInv, HookedPaymentsInBook
<1>6. HookedPaymentsInBook'
  <2> SUFFICES ASSUME NEW i \in 1 .. Len(bundle'),
                      bundle'[i].kind = "agent", bundle'[i].hooked
               PROVE  paidBy(bundle'[i].call)
                         \subseteq IF executing' THEN bookThen' ELSE book'
    BY DEF HookedPaymentsInBook, paidBy
  <2>1. executing' /\ i + 1 \in 1 .. Len(bundle) /\ bundle'[i] = bundle[i + 1]
    BY <1>3, <1>4
  <2> QED
    BY <1>1, <1>5, <2>1
<1> QED
    BY <1>1, <1>3, <1>4, <1>5, <1>6

\* The validation of an operation appends it.
LEMMA AppendsEffect ==
    ASSUME PluginInv, NEW op \in OpType, ~executing,
           bundle' = Append(bundle, op), UNCHANGED <<executing, book, bookThen>>,
           op.kind = "agent" /\ op.hooked => paidBy(op.call) \subseteq book
    PROVE  bundle' \in Seq(OpType) /\ HookedPaymentsInBook'
<1>1. bundle \in Seq(OpType)
    BY DEF PluginInv, PluginTypes
<1>2. /\ bundle' \in Seq(OpType) /\ Len(bundle) \in Nat
      /\ Len(bundle') = Len(bundle) + 1 /\ bundle'[Len(bundle) + 1] = op
      /\ \A i \in 1 .. Len(bundle) : bundle'[i] = bundle[i]
    BY <1>1
<1>3. \A i \in 1 .. Len(bundle') : i \in 1 .. Len(bundle) \/ i = Len(bundle) + 1
    BY <1>2
<1> QED
    BY <1>2, <1>3 DEF PluginInv, HookedPaymentsInBook, paidBy

-----------------------------------------------------------------------------
(* The guard's namespaces.                                                 *)

LEMMA NothingType ==
    ASSUME AddressAssumption
    PROVE  Nothing \in StoreType
BY DEF Nothing, StoreType, AddressAssumption, ZeroWord, toBytes32, Word

\* A write to the live namespace is seen there, and leaves the later ones blank.
LEMMA LiveUpdate ==
    ASSUME GuardInv, NEW s \in StoreType,
           store' = [store EXCEPT ![epoch] = s], epoch' = epoch, limits' # None
    PROVE  /\ store' \in [0 .. MaxInstalls -> StoreType]
           /\ live' = s
           /\ FutureIsBlank'
<1>1. epoch \in 0 .. MaxInstalls /\ store \in [0 .. MaxInstalls -> StoreType]
    BY DEF GuardInv, GuardTypes
<1>2. /\ store' \in [0 .. MaxInstalls -> StoreType] /\ store'[epoch] = s
      /\ \A e \in 0 .. MaxInstalls : e # epoch => store'[e] = store[e]
    BY <1>1
<1>3. \A e \in 0 .. MaxInstalls : e > epoch => e # epoch
    BY <1>1
<1> QED
    BY <1>2, <1>3 DEF GuardInv, FutureIsBlank, live

\* A list of recipients has finitely many.
LEMMA ListIsFinite ==
    ASSUME NEW rs \in Seq(Word)
    PROVE  IsFiniteSet(Range(rs)) /\ Range(rs) \subseteq Word
<1>1. Range(rs) \subseteq Word
    BY DEF Range
<1>2. rs \in Seq(Range(rs))
    BY DEF Range
<1>3. \A w \in Range(rs) : \E n \in 1 .. Len(rs) : rs[n] = w
    BY DEF Range
<1> QED
    BY <1>1, <1>2, <1>3 DEF IsFiniteSet

-----------------------------------------------------------------------------
(* The guard's lifecycle and setters.                                      *)

\* The fields of a setter's call, by the set it names.
LEMMA EditKinds ==
    ASSUME GuardsAssumption, NEW e \in Edits
    PROVE  /\ e.set \in {"recipient", "destToken", "caller"} =>
                 e.word \in Word /\ e.allowed \in BOOLEAN
           /\ e.set = "domain" => e.word \in Domain /\ e.allowed \in BOOLEAN
           /\ e.set = "token" => e.word \in Address /\ e.allowed \in BOOLEAN
           /\ e.set = "minter" => e.word \in Domain /\ e.minter \in Word
           /\ e.set = "limits" => e.cap \in Nat /\ e.fee \in Nat /\ e.blocks \in Nat
BY DEF GuardsAssumption

\* What is left of the guard's invariant, from the namespace written.
LEMMA Written ==
    ASSUME GuardInv, NEW s \in StoreType,
           store' = [store EXCEPT ![epoch] = s], epoch' = epoch,
           limits' \in LimitsType, limits' # None,
           limits'.perIntentCap > 0, limits'.maxExpiryBlocks > 0, epoch < MaxInstalls,
           IsFiniteSet(s.recipients), s.recipientCount = Cardinality(s.recipients),
           s.recipients # {} \/ limits'.addressBook,
           \A w \in s.recipients : <<"recipient", w>> \in granted',
           \A d \in s.domains : <<"domain", d>> \in granted',
           \A t \in s.tokens : <<"token", t>> \in granted',
           \A t \in s.destTokens : <<"destToken", t>> \in granted',
           \A c \in s.callers : <<"caller", c>> \in granted'
    PROVE  GuardInv'
<1>1. /\ store' \in [0 .. MaxInstalls -> StoreType] /\ live' = s /\ FutureIsBlank'
    BY LiveUpdate
<1>2. GuardTypes'
    BY <1>1 DEF GuardInv, GuardTypes
<1>3. FiniteRecipients' /\ RecipientsAreCounted'
    BY <1>1 DEF FiniteRecipients, RecipientsAreCounted
<1>4. LiveWasGranted'
    BY <1>1 DEF LiveWasGranted
<1> QED
    BY <1>1, <1>2, <1>3, <1>4 DEF GuardInv

\* _install writes into a blank namespace, so its loops count a list of
\* recipients right even when it repeats some.
LEMMA InstallKeeps ==
    ASSUME GuardsAssumption, GuardInv, NEW init \in Inits, installs(init)
    PROVE  GuardInv'
<1> DEFINE rs == Range(init.recipients)
           ms == [d \in Domain |-> IF d \in init.domains THEN init.minters[d]
                                   ELSE live.minters[d]]
           s == [recipients |-> live.recipients \cup rs,
                 recipientCount |-> live.recipientCount + countOf(init.recipients),
                 domains |-> live.domains \cup init.domains, minters |-> ms,
                 tokens |-> live.tokens \cup init.tokens,
                 destTokens |-> live.destTokens \cup init.destTokens,
                 callers |-> live.callers \cup init.callers]
<1>1. /\ init.perIntentCap \in Nat /\ init.maxFeeCap \in Nat
      /\ init.maxExpiryBlocks \in Nat /\ init.addressBook \in BOOLEAN
      /\ init.recipients \in Seq(Word) /\ init.domains \subseteq Domain
      /\ init.minters \in [Domain -> Word] /\ init.tokens \subseteq Address
      /\ init.destTokens \subseteq Word /\ init.callers \subseteq Word
    BY DEF GuardsAssumption
<1>2. /\ epoch \in 0 .. MaxInstalls /\ epoch < MaxInstalls /\ limits = None
      /\ epoch' = epoch
    BY DEF GuardInv, GuardTypes, installs
<1>3. live = Nothing /\ live \in StoreType
  <2>1. store[epoch] = Nothing
    BY <1>2 DEF GuardInv, FutureIsBlank
  <2> QED
    BY <2>1, AddressAssumption, NothingType DEF live
<1>4. IsFiniteSet(rs) /\ rs \subseteq Word
    BY <1>1, ListIsFinite
<1>5. /\ live.recipients = {} /\ live.recipientCount = 0 /\ live.domains = {}
      /\ live.tokens = {} /\ live.destTokens = {} /\ live.callers = {}
      /\ live.minters \in [Domain -> Word]
    BY <1>3 DEF Nothing, StoreType
<1>6. /\ countOf(init.recipients) = Cardinality(rs) /\ Cardinality(rs) \in Nat
      /\ live.recipients \cup rs = rs
  <2>1. rs \ live.recipients = rs /\ live.recipients \cup rs = rs
    BY <1>5
  <2> QED
    BY <2>1, <1>4, FS_CardinalityType DEF countOf
<1>7. ms \in [Domain -> Word]
    BY <1>1, <1>5
<1>8. /\ s.recipients = rs /\ s.recipientCount = Cardinality(rs)
      /\ s.domains = init.domains /\ s.tokens = init.tokens
      /\ s.destTokens = init.destTokens /\ s.callers = init.callers
    BY <1>5, <1>6, SMTT(30)
<1>9. s \in StoreType
  <2> HIDE DEF rs, ms
  <2> QED
    BY <1>1, <1>4, <1>5, <1>6, <1>7 DEF StoreType
<1>10. store' = [store EXCEPT ![epoch] = s]
    BY DEF installs, live
<1>11. /\ limits' = [perIntentCap |-> init.perIntentCap, maxFeeCap |-> init.maxFeeCap,
                     maxExpiryBlocks |-> init.maxExpiryBlocks,
                     addressBook |-> init.addressBook]
       /\ limits' \in LimitsType /\ limits' # None
    BY <1>1 DEF installs, LimitsType, GuardsAssumption
<1>12. limits'.perIntentCap > 0 /\ limits'.maxExpiryBlocks > 0
    BY <1>1, <1>11 DEF installs, validLimits
<1>13. rs # {} \/ limits'.addressBook
  <2>1. Cardinality(rs) # 0 \/ init.addressBook
    BY <1>5, <1>6 DEF installs
  <2>2. Cardinality({}) = 0
    BY FS_EmptySet
  <2> QED
    BY <2>1, <2>2, <1>11
<1>14. /\ \A w \in rs : <<"recipient", w>> \in granted'
       /\ \A d \in init.domains : <<"domain", d>> \in granted'
       /\ \A t \in init.tokens : <<"token", t>> \in granted'
       /\ \A t \in init.destTokens : <<"destToken", t>> \in granted'
       /\ \A c \in init.callers : <<"caller", c>> \in granted'
    BY DEF installs, tagged
<1> QED
  <2> HIDE DEF s, rs
  <2> QED
    BY <1>2, <1>4, <1>8, <1>9, <1>10, <1>11, <1>12, <1>13, <1>14, Written

\* _uninstall moves to the next namespace, which is blank.
LEMMA UninstallKeeps ==
    ASSUME GuardsAssumption, GuardInv, limits # None, limits' = None,
           epoch' = nextEpoch, store' = store
    PROVE  GuardInv'
<1>1. /\ epoch \in 0 .. MaxInstalls /\ MaxInstalls \in Nat /\ epoch < MaxInstalls
      /\ epoch' = epoch + 1
    BY DEF GuardInv, GuardTypes, GuardsAssumption, nextEpoch
<1>2. epoch' \in 0 .. MaxInstalls /\ epoch' > epoch
    BY <1>1
<1>3. \A e \in 0 .. MaxInstalls : e >= epoch' => e > epoch
    BY <1>1
<1>4. store[epoch'] = Nothing
    BY <1>2 DEF GuardInv, FutureIsBlank
<1>5. FutureIsBlank'
    BY <1>1, <1>3 DEF GuardInv, FutureIsBlank
<1>6. FiniteRecipients'
    BY <1>4, FS_EmptySet DEF FiniteRecipients, live, Nothing
<1> QED
    BY <1>2, <1>5, <1>6 DEF GuardInv, GuardTypes, RecipientsAreCounted, LiveWasGranted

\* A setter keeps the guard's invariant.  The one for recipients refuses to
\* switch on what is on and off what is off, which keeps the counter right, and
\* refuses to take the last one of a guard without an address book.
LEMMA EditKeeps ==
    ASSUME GuardsAssumption, GuardInv, NEW e \in Edits, limits # None, epoch' = epoch,
           \/ setGatewayRecipient(e) \/ setGatewayDestinationDomain(e)
           \/ setGatewayToken(e) \/ setGatewayDestinationToken(e)
           \/ setGatewayDestinationCaller(e) \/ setGatewayDestinationMinter(e)
           \/ setGatewayLimits(e),
           granted' = IF e.set \in {"minter", "limits"} THEN granted
                      ELSE IF e.allowed THEN granted \cup {<<e.set, e.word>>}
                      ELSE granted \ {<<e.set, e.word>>}
    PROVE  GuardInv'
<1>1. /\ limits \in LimitsType /\ limits.perIntentCap > 0 /\ limits.maxExpiryBlocks > 0
      /\ epoch < MaxInstalls /\ epoch \in 0 .. MaxInstalls
      /\ store \in [0 .. MaxInstalls -> StoreType]
    BY DEF GuardInv, GuardTypes
<1>2. live \in StoreType
    BY <1>1 DEF live
<1>3. /\ IsFiniteSet(live.recipients)
      /\ live.recipientCount = Cardinality(live.recipients)
      /\ live.recipients # {} \/ limits.addressBook
    BY DEF GuardInv, FiniteRecipients, RecipientsAreCounted
<1>4. /\ e.set # "recipient" => \A w \in live.recipients : <<"recipient", w>> \in granted'
      /\ e.set # "domain" => \A d \in live.domains : <<"domain", d>> \in granted'
      /\ e.set # "token" => \A t \in live.tokens : <<"token", t>> \in granted'
      /\ e.set # "destToken" => \A t \in live.destTokens : <<"destToken", t>> \in granted'
      /\ e.set # "caller" => \A c \in live.callers : <<"caller", c>> \in granted'
      /\ e.set = "recipient" =>
            \A w \in toggled(live.recipients, e) : <<"recipient", w>> \in granted'
      /\ e.set = "domain" => \A d \in toggled(live.domains, e) : <<"domain", d>> \in granted'
      /\ e.set = "token" => \A t \in toggled(live.tokens, e) : <<"token", t>> \in granted'
      /\ e.set = "destToken" =>
            \A t \in toggled(live.destTokens, e) : <<"destToken", t>> \in granted'
      /\ e.set = "caller" => \A c \in toggled(live.callers, e) : <<"caller", c>> \in granted'
  <2>1. /\ \A w \in live.recipients : <<"recipient", w>> \in granted
        /\ \A d \in live.domains : <<"domain", d>> \in granted
        /\ \A t \in live.tokens : <<"token", t>> \in granted
        /\ \A t \in live.destTokens : <<"destToken", t>> \in granted
        /\ \A c \in live.callers : <<"caller", c>> \in granted
    BY DEF GuardInv, LiveWasGranted
  <2> QED
    BY <2>1 DEF toggled
<1>5. CASE setGatewayRecipient(e)
  <2> DEFINE rs == toggled(live.recipients, e)
             n == live.recipientCount + IF e.allowed THEN 1 ELSE -1
             s == [live EXCEPT !.recipients = rs, !.recipientCount = n]
  <2>1. /\ e.set = "recipient" /\ limits' = limits /\ e.word \in Word
        /\ e.allowed \in BOOLEAN /\ (e.word \in live.recipients) # e.allowed
        /\ e.allowed \/ live.recipientCount > 1 \/ limits.addressBook
    BY <1>5, EditKinds DEF setGatewayRecipient
  <2>2. store' = [store EXCEPT ![epoch] = s]
    BY <1>5 DEF setGatewayRecipient, live
  <2>3. Cardinality(live.recipients) \in Nat
    BY <1>3, FS_CardinalityType
  <2>4. rs \subseteq Word
    BY <1>2, <2>1 DEF toggled, StoreType
  <2>5. /\ IsFiniteSet(rs) /\ Cardinality(rs) = n /\ n \in Int
        /\ rs # {} \/ limits.addressBook
    <3>1. CASE e.allowed
      <4>1. e.word \notin live.recipients /\ rs = live.recipients \cup {e.word}
            /\ n = live.recipientCount + 1
        BY <3>1, <2>1 DEF toggled
      <4>2. IsFiniteSet(rs) /\ Cardinality(rs) = Cardinality(live.recipients) + 1
        <5>1. IsFiniteSet(live.recipients \cup {e.word})
              /\ Cardinality(live.recipients \cup {e.word}) =
                    IF e.word \in live.recipients THEN Cardinality(live.recipients)
                    ELSE Cardinality(live.recipients) + 1
          BY <1>3, FS_AddElement
        <5> QED
          BY <5>1, <4>1, Zenon
      <4> QED
        BY <4>1, <4>2, <1>3, <2>3
    <3>2. CASE ~e.allowed
      <4>1. e.word \in live.recipients /\ rs = live.recipients \ {e.word}
            /\ n = live.recipientCount + (-1)
        BY <3>2, <2>1 DEF toggled
      <4>2. IsFiniteSet(rs) /\ Cardinality(rs) = Cardinality(live.recipients) - 1
        <5>1. IsFiniteSet(live.recipients \ {e.word})
              /\ Cardinality(live.recipients \ {e.word}) =
                    IF e.word \in live.recipients THEN Cardinality(live.recipients) - 1
                    ELSE Cardinality(live.recipients)
          BY <1>3, FS_RemoveElement
        <5> QED
          BY <5>1, <4>1, Zenon
      <4>3. rs # {} \/ limits.addressBook
        BY <4>2, <3>2, <2>1, <2>3, <1>3, FS_EmptySet
      <4> QED
        BY <4>1, <4>2, <4>3, <1>3, <2>3
    <3> QED
      BY <3>1, <3>2
  <2> HIDE DEF rs, n
  <2>6. /\ s \in StoreType /\ s.recipients = rs /\ s.recipientCount = n
        /\ s.domains = live.domains /\ s.tokens = live.tokens
        /\ s.destTokens = live.destTokens /\ s.callers = live.callers
    BY <1>2, <2>4, <2>5 DEF StoreType
  <2>7. \A w \in rs : <<"recipient", w>> \in granted'
    BY <1>4, <2>1 DEF rs
  <2> HIDE DEF s
  <2> QED
    BY <1>1, <1>4, <2>1, <2>2, <2>5, <2>6, <2>7, Written
<1>6. CASE setGatewayDestinationDomain(e)
  <2> DEFINE ds == toggled(live.domains, e)
             s == [live EXCEPT !.domains = ds]
  <2>1. /\ e.set = "domain" /\ limits' = limits /\ e.word \in Domain
    BY <1>6, EditKinds DEF setGatewayDestinationDomain
  <2>2. store' = [store EXCEPT ![epoch] = s]
    BY <1>6, <1>1 DEF setGatewayDestinationDomain, live
  <2>3. ds \subseteq Domain /\ \A d \in ds : <<"domain", d>> \in granted'
    BY <1>2, <1>4, <2>1 DEF toggled, StoreType
  <2> HIDE DEF ds
  <2>4. /\ s \in StoreType /\ s.domains = ds /\ s.recipients = live.recipients
        /\ s.recipientCount = live.recipientCount /\ s.tokens = live.tokens
        /\ s.destTokens = live.destTokens /\ s.callers = live.callers
    BY <1>2, <2>3 DEF StoreType
  <2> HIDE DEF s
  <2> QED
    BY <1>1, <1>3, <1>4, <2>1, <2>2, <2>3, <2>4, Written
<1>7. CASE setGatewayToken(e)
  <2> DEFINE ts == toggled(live.tokens, e)
             s == [live EXCEPT !.tokens = ts]
  <2>1. /\ e.set = "token" /\ limits' = limits /\ e.word \in Address
    BY <1>7, EditKinds DEF setGatewayToken
  <2>2. store' = [store EXCEPT ![epoch] = s]
    BY <1>7, <1>1 DEF setGatewayToken, live
  <2>3. ts \subseteq Address /\ \A t \in ts : <<"token", t>> \in granted'
    BY <1>2, <1>4, <2>1 DEF toggled, StoreType
  <2> HIDE DEF ts
  <2>4. /\ s \in StoreType /\ s.tokens = ts /\ s.recipients = live.recipients
        /\ s.recipientCount = live.recipientCount /\ s.domains = live.domains
        /\ s.destTokens = live.destTokens /\ s.callers = live.callers
    BY <1>2, <2>3 DEF StoreType
  <2> HIDE DEF s
  <2> QED
    BY <1>1, <1>3, <1>4, <2>1, <2>2, <2>3, <2>4, Written
<1>8. CASE setGatewayDestinationToken(e)
  <2> DEFINE ts == toggled(live.destTokens, e)
             s == [live EXCEPT !.destTokens = ts]
  <2>1. /\ e.set = "destToken" /\ limits' = limits /\ e.word \in Word
    BY <1>8, EditKinds DEF setGatewayDestinationToken
  <2>2. store' = [store EXCEPT ![epoch] = s]
    BY <1>8, <1>1 DEF setGatewayDestinationToken, live
  <2>3. ts \subseteq Word /\ \A t \in ts : <<"destToken", t>> \in granted'
    BY <1>2, <1>4, <2>1 DEF toggled, StoreType
  <2> HIDE DEF ts
  <2>4. /\ s \in StoreType /\ s.destTokens = ts /\ s.recipients = live.recipients
        /\ s.recipientCount = live.recipientCount /\ s.domains = live.domains
        /\ s.tokens = live.tokens /\ s.callers = live.callers
    BY <1>2, <2>3 DEF StoreType
  <2> HIDE DEF s
  <2> QED
    BY <1>1, <1>3, <1>4, <2>1, <2>2, <2>3, <2>4, Written
<1>9. CASE setGatewayDestinationCaller(e)
  <2> DEFINE cs == toggled(live.callers, e)
             s == [live EXCEPT !.callers = cs]
  <2>1. /\ e.set = "caller" /\ limits' = limits /\ e.word \in Word
    BY <1>9, EditKinds DEF setGatewayDestinationCaller
  <2>2. store' = [store EXCEPT ![epoch] = s]
    BY <1>9, <1>1 DEF setGatewayDestinationCaller, live
  <2>3. cs \subseteq Word /\ \A c \in cs : <<"caller", c>> \in granted'
    BY <1>2, <1>4, <2>1 DEF toggled, StoreType
  <2> HIDE DEF cs
  <2>4. /\ s \in StoreType /\ s.callers = cs /\ s.recipients = live.recipients
        /\ s.recipientCount = live.recipientCount /\ s.domains = live.domains
        /\ s.tokens = live.tokens /\ s.destTokens = live.destTokens
    BY <1>2, <2>3 DEF StoreType
  <2> HIDE DEF s
  <2> QED
    BY <1>1, <1>3, <1>4, <2>1, <2>2, <2>3, <2>4, Written
<1>10. CASE setGatewayDestinationMinter(e)
  <2> DEFINE ms == [live.minters EXCEPT ![e.word] = e.minter]
             s == [live EXCEPT !.minters = ms]
  <2>1. /\ e.set = "minter" /\ limits' = limits /\ e.word \in Domain /\ e.minter \in Word
    BY <1>10, EditKinds DEF setGatewayDestinationMinter
  <2>2. store' = [store EXCEPT ![epoch] = s]
    BY <1>10, <1>1 DEF setGatewayDestinationMinter, live
  <2>3. ms \in [Domain -> Word]
    BY <1>2, <2>1 DEF StoreType
  <2> HIDE DEF ms
  <2>4. /\ s \in StoreType /\ s.callers = live.callers /\ s.recipients = live.recipients
        /\ s.recipientCount = live.recipientCount /\ s.domains = live.domains
        /\ s.tokens = live.tokens /\ s.destTokens = live.destTokens
    BY <1>2, <2>3 DEF StoreType
  <2> HIDE DEF s
  <2> QED
    BY <1>1, <1>3, <1>4, <2>1, <2>2, <2>4, Written
<1>11. CASE setGatewayLimits(e)
  <2>1. /\ e.set = "limits" /\ store' = store /\ e.cap \in Nat /\ e.fee \in Nat
        /\ e.blocks \in Nat /\ e.cap # 0 /\ e.blocks # 0
        /\ limits' = [limits EXCEPT !.perIntentCap = e.cap, !.maxFeeCap = e.fee,
                                    !.maxExpiryBlocks = e.blocks]
    BY <1>11, EditKinds DEF setGatewayLimits, validLimits
  <2>2. /\ limits' \in LimitsType /\ limits'.perIntentCap > 0
        /\ limits'.maxExpiryBlocks > 0 /\ limits'.addressBook = limits.addressBook
    <3>1. limits' \in LimitsType
      BY <1>1, <2>1 DEF LimitsType
    <3>2. limits'.perIntentCap = e.cap /\ limits'.maxExpiryBlocks = e.blocks
          /\ limits'.addressBook = limits.addressBook
      BY <1>1, <2>1 DEF LimitsType
    <3> QED
      BY <2>1, <3>1, <3>2
  <2>3. limits' # None
    BY <2>2 DEF GuardsAssumption, LimitsType
  <2>4. store' = [store EXCEPT ![epoch] = live]
    BY <1>1, <2>1 DEF live
  <2> QED
    BY <1>1, <1>2, <1>3, <1>4, <2>1, <2>2, <2>3, <2>4, Written
<1> QED
    BY <1>5, <1>6, <1>7, <1>8, <1>9, <1>10, <1>11

-----------------------------------------------------------------------------
(* The steps.                                                              *)

LEMMA InitEstablishes ==
    ASSUME GuardsAssumption, Init
    PROVE  IInv
<1>1. MaxInstalls \in Nat /\ 0 \in 0 .. MaxInstalls
    BY DEF GuardsAssumption
<1>2. Nothing \in StoreType
    BY NothingType, AddressAssumption
<1>3. \A e \in 0 .. MaxInstalls : store[e] = Nothing
    BY DEF Init
<1>4. GuardTypes
    BY <1>1, <1>2 DEF Init, GuardTypes
<1>5. live.recipients = {}
    BY <1>1, <1>3 DEF Init, live, Nothing
<1>6. FiniteRecipients
    BY <1>5, FS_EmptySet DEF FiniteRecipients
<1>7. PluginInv
  <2>1. bundle \in Seq(OpType) /\ 1 .. Len(bundle) = {}
    BY DEF Init
  <2>2. PluginTypes
    BY <2>1 DEF Init, PluginTypes
  <2>3. HookedPaymentsInBook
    BY <2>1, Zenon DEF HookedPaymentsInBook
  <2> QED
    BY <2>2, <2>3 DEF Init, PluginInv, BookIsCleared
<1> QED
    BY <1>3, <1>4, <1>6, <1>7 DEF Init, IInv, GuardInv, FutureIsBlank,
       RecipientsAreCounted, LiveWasGranted

\* A step that leaves the guard and the words switched on alone.
LEMMA GuardUntouched ==
    ASSUME GuardInv, UNCHANGED <<guard, granted>>
    PROVE  GuardInv'
BY DEF GuardInv, GuardTypes, FutureIsBlank, FiniteRecipients, RecipientsAreCounted,
       LiveWasGranted, live, guard

\* The execution of an operation that leaves the book and the hook alone.
LEMMA PluginsUntouched ==
    ASSUME PluginInv, NEW op, Executes(op), UNCHANGED <<addressBook, bound>>
    PROVE  PluginInv'
BY ExecutesEffect DEF PluginInv, PluginTypes, BookIsCleared, addressBook

LEMMA ownersSignKeeps ==
    ASSUME IInv, NEW op \in OwnerOps, ownersSign(op)
    PROVE  IInv'
<1>1. GuardInv'
    BY GuardUntouched DEF IInv, ownersSign, ghosts
<1>2. op \in OpType /\ op.kind # "agent"
    BY DEF OpType, OwnerOps
<1>3. bundle' \in Seq(OpType) /\ HookedPaymentsInBook'
    BY <1>2, AppendsEffect DEF IInv, ownersSign, addressBook, ghosts
<1> QED
    BY <1>1, <1>3 DEF IInv, PluginInv, PluginTypes, BookIsCleared, ownersSign, addressBook

\* The hook admits a payment only to a payee of the book: native value goes to
\* the target, which is what the hook looks up, and so does a transfer's
\* recipient.
LEMMA hookKeeps ==
    ASSUME GuardsAssumption, IInv, NEW op \in AgentOps, preUserOpValidationHook(op)
    PROVE  IInv'
<1> DEFINE c == op.call
           signed == [op EXCEPT !.hooked = bound]
<1>1. GuardInv'
    BY GuardUntouched DEF IInv, preUserOpValidationHook, ghosts
<1>2. /\ signed \in OpType /\ signed.hooked = bound /\ signed.call = c
      /\ c.value \in BOOLEAN
    BY DEF IInv, PluginInv, PluginTypes, OpType, AgentOps, GuardsAssumption
<1>3. bound => paidBy(c) \subseteq book
    BY <1>2 DEF preUserOpValidationHook, wellFormed, targetOrRecipient, paidBy
<1>4. bundle' = Append(bundle, signed) /\ ~executing
      /\ UNCHANGED <<executing, book, bookThen>>
    BY DEF preUserOpValidationHook, addressBook, ghosts
<1> HIDE DEF signed, c
<1>5. bundle' \in Seq(OpType) /\ HookedPaymentsInBook'
    BY <1>2, <1>3, <1>4, AppendsEffect DEF IInv
<1> QED
    BY <1>1, <1>5 DEF IInv, PluginInv, PluginTypes, BookIsCleared,
       preUserOpValidationHook, addressBook

\* The book a bundle executes under is the one its payments were judged by.
LEMMA handleOpsKeeps ==
    ASSUME IInv, handleOps
    PROVE  IInv'
<1>1. GuardInv'
    BY GuardUntouched DEF IInv, handleOps
<1>2. HookedPaymentsInBook'
    BY DEF IInv, PluginInv, handleOps, HookedPaymentsInBook, paidBy
<1> QED
    BY <1>1, <1>2 DEF IInv, PluginInv, PluginTypes, BookIsCleared, handleOps, addressBook

\* An operation that executes, whichever it is.
LEMMA executionKeeps ==
    ASSUME GuardsAssumption, IInv, NEW op,
           \/ onInstall(op) \/ onUninstall(op) \/ edits(op)
           \/ hookInstall(op) \/ hookUninstall(op) \/ pays(op)
           \/ bookOnInstall(op) \/ bookOnUninstall(op)
           \/ addAllowedRecipients(op) \/ removeAllowedRecipients(op)
    PROVE  IInv'
<1>1. CASE onInstall(op)
  <2>1. op.init \in Inits
    BY <1>1, ExecutesEffect, OpKinds DEF IInv, onInstall
  <2> QED
    BY <1>1, <2>1, InstallKeeps, PluginsUntouched DEF IInv, onInstall
<1>2. CASE onUninstall(op)
    BY <1>2, UninstallKeeps, PluginsUntouched DEF IInv, onUninstall
<1>3. CASE edits(op)
  <2>1. op.edit \in Edits
    BY <1>3, ExecutesEffect, OpKinds DEF IInv, edits
  <2>2. GuardInv'
    BY <1>3, <2>1, EditKeeps DEF IInv, edits
  <2>3. PluginInv'
    BY <1>3, PluginsUntouched DEF IInv, edits
  <2> QED
    BY <2>2, <2>3 DEF IInv
<1>4. CASE hookInstall(op) \/ hookUninstall(op)
  <2>1. Executes(op) /\ UNCHANGED <<guard, addressBook, granted>> /\ bound' \in BOOLEAN
    BY <1>4 DEF hookInstall, hookUninstall
  <2> QED
    BY <2>1, ExecutesEffect, GuardUntouched
    DEF IInv, PluginInv, PluginTypes, BookIsCleared, addressBook
<1>5. CASE pays(op)
    BY <1>5, GuardUntouched, PluginsUntouched DEF IInv, pays
<1>6. CASE bookOnInstall(op)
  <2>1. op.payees \subseteq Payees
    BY <1>6, ExecutesEffect, OpKinds DEF IInv, bookOnInstall
  <2>2. GuardInv'
    BY <1>6, GuardUntouched DEF IInv, bookOnInstall
  <2>3. PluginInv'
    BY <1>6, <2>1, ExecutesEffect
    DEF IInv, PluginInv, PluginTypes, BookIsCleared, bookOnInstall
  <2> QED
    BY <2>2, <2>3 DEF IInv
<1>7. CASE bookOnUninstall(op)
  <2>1. GuardInv'
    BY <1>7, GuardUntouched DEF IInv, bookOnUninstall
  <2>2. PluginInv'
    BY <1>7, ExecutesEffect
    DEF IInv, PluginInv, PluginTypes, BookIsCleared, bookOnUninstall
  <2> QED
    BY <2>1, <2>2 DEF IInv
<1>8. CASE addAllowedRecipients(op) \/ removeAllowedRecipients(op)
  <2>1. /\ Executes(op) /\ op.kind \in {"admit", "expel"} /\ bookInstalled
        /\ bookInstalled' = bookInstalled /\ bound' = bound
        /\ UNCHANGED <<guard, granted>>
    BY <1>8 DEF addAllowedRecipients, removeAllowedRecipients
  <2>2. op.payee \in Payees
    BY <2>1, ExecutesEffect, OpKinds DEF IInv
  <2>3. book' \subseteq Payees
    BY <1>8, <2>2
    DEF IInv, PluginInv, PluginTypes, addAllowedRecipients, removeAllowedRecipients
  <2>4. GuardInv'
    BY <2>1, GuardUntouched DEF IInv
  <2>5. PluginInv'
    BY <2>1, <2>3, ExecutesEffect DEF IInv, PluginInv, PluginTypes, BookIsCleared
  <2> QED
    BY <2>4, <2>5 DEF IInv
<1> QED
    BY <1>1, <1>2, <1>3, <1>4, <1>5, <1>6, <1>7, <1>8

LEMMA NextKeeps ==
    ASSUME GuardsAssumption, IInv, [Next]_vars
    PROVE  IInv'
<1>1. CASE \E op \in OwnerOps : ownersSign(op)
    BY <1>1, ownersSignKeeps
<1>2. CASE \E op \in AgentOps : preUserOpValidationHook(op)
    BY <1>2, hookKeeps
<1>3. CASE \E op \in Range(bundle) :
              \/ onInstall(op) \/ onUninstall(op) \/ edits(op)
              \/ hookInstall(op) \/ hookUninstall(op) \/ pays(op)
              \/ bookOnInstall(op) \/ bookOnUninstall(op)
              \/ addAllowedRecipients(op) \/ removeAllowedRecipients(op)
    BY <1>3, executionKeeps
<1>4. CASE handleOps
    BY <1>4, handleOpsKeeps
<1>5. CASE reverts
    BY <1>5, GuardUntouched, PluginsUntouched DEF IInv, reverts
<1>6. CASE UNCHANGED vars
  <2>1. GuardInv'
    BY <1>6, GuardUntouched DEF IInv, vars, ghosts
  <2> QED
    BY <1>6, <2>1 DEF IInv, PluginInv, PluginTypes, BookIsCleared,
       HookedPaymentsInBook, paidBy, vars, addressBook, bundling, ghosts
<1> QED
    BY <1>1, <1>2, <1>3, <1>4, <1>5, <1>6 DEF Next

LEMMA Invariance == GuardsAssumption => (Spec => []IInv)
<1> SUFFICES ASSUME GuardsAssumption PROVE Spec => []IInv
    OBVIOUS
<1>1. Init => IInv
    BY InitEstablishes
<1>2. IInv /\ [Next]_vars => IInv'
    BY NextKeeps
<1> QED
    BY <1>1, <1>2, PTL DEF Spec

-----------------------------------------------------------------------------
(* The theorems.                                                           *)

\* An installed guard's limits are ones validLimits accepts, and the book and
\* the sets hold what the contracts' types allow, after any bundles.
THEOREM TypeCorrect == GuardsAssumption => (Spec => []TypeOK)
<1> SUFFICES ASSUME GuardsAssumption PROVE Spec => []TypeOK
    OBVIOUS
<1>1. IInv => TypeOK
    BY DEF IInv, GuardInv, GuardTypes, PluginInv, PluginTypes, TypeOK, StoreType
<1> QED
    BY <1>1, Invariance, PTL

\* The guard's lists are its owners': the counter of _install and
\* setGatewayRecipient is the number of recipients, and checkBurnIntent
\* approves only what was switched on since the last install or, on an EVM
\* domain, a payee of a book that is installed.
THEOREM ListsAreTheOwners == GuardsAssumption => (Spec => []GuardListsAreTheOwners)
<1> SUFFICES ASSUME GuardsAssumption PROVE Spec => []GuardListsAreTheOwners
    OBVIOUS
<1>1. IInv => GuardListsAreTheOwners
  <2> SUFFICES ASSUME IInv, NEW i \in Intents, checkBurnIntent(i)
               PROVE  /\ <<"domain", i.spec.destinationDomain>> \in granted
                      /\ <<"token", i.spec.sourceToken.addr>> \in granted
                      /\ <<"destToken", i.spec.destinationToken>> \in granted
                      /\ \/ i.spec.destinationCaller = ZeroWord
                         \/ <<"caller", i.spec.destinationCaller>> \in granted
                      /\ \/ <<"recipient", i.spec.destinationRecipient>> \in granted
                         \/ /\ bookInstalled
                            /\ i.spec.destinationRecipient.addr \in book
                            /\ i.spec.destinationDomain # SOLANA_DOMAIN
    BY DEF IInv, GuardInv, GuardListsAreTheOwners, GuardAdmitsWhatWasGranted
  <2>1. /\ limits # None
        /\ i.spec.sourceToken.addr \in live.tokens
        /\ i.spec.destinationToken \in live.destTokens
        /\ i.spec.destinationDomain \in live.domains
        /\ i.spec.destinationCaller # ZeroWord =>
              i.spec.destinationCaller \in live.callers
        /\ recipientAllowed(i.spec.destinationDomain, i.spec.destinationRecipient)
    BY DEF checkBurnIntent, truncate
  <2>2. \/ i.spec.destinationRecipient \in live.recipients
        \/ /\ bookInstalled
           /\ i.spec.destinationRecipient.addr \in book
           /\ i.spec.destinationDomain # SOLANA_DOMAIN
    BY <2>1 DEF IInv, PluginInv, BookIsCleared, recipientAllowed, isEvmDomain, truncate
  <2> QED
    BY <2>1, <2>2 DEF IInv, GuardInv, LiveWasGranted
<1> QED
    BY <1>1, Invariance, PTL

\* A session key's payment that passed preUserOpValidationHook reaches only
\* payees of the book as it was when the bundle began to execute.
THEOREM PaymentsFollowTheBook ==
    GuardsAssumption => (Spec => SessionPaymentsFollowTheBook)
<1> SUFFICES ASSUME GuardsAssumption PROVE Spec => SessionPaymentsFollowTheBook
    OBVIOUS
<1>1. IInv => \A op \in Range(bundle) :
                 pays(op) /\ op.hooked => paidBy(op.call) \subseteq bookThen
    BY ExecutesEffect DEF IInv, pays
<1> QED
    BY <1>1, Invariance, PTL DEF SessionPaymentsFollowTheBook

=============================================================================
