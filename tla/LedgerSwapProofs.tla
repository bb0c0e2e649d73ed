-------------------------- MODULE LedgerSwapProofs --------------------------
(***************************************************************************)
(* Theorems about LedgerSwap, for any number of concurrent calls of the    *)
(* signer's methods and of the one-shot flows.                             *)
(***************************************************************************)
EXTENDS LedgerSwap, TLAPS

-----------------------------------------------------------------------------
(* The inductive invariant.                                                *)

\* The awaits of a call that holds the signer.
Holding == Await \ {"idle", "closing", "onceConnect", "onceSign"}

\* A call that holds the signer holds it alone, and busy says so.
HoldsAlone ==
    \A c \in Call : pc[c] \in Holding =>
        busy /\ \A d \in Call : d # c => pc[d] \notin Holding

\* The awaits of each kind of call.
OpsFitTheirAwait ==
    \A c \in Call :
        /\ pc[c] \in {"owner", "chain"} => op[c] \in {"send", "order", "resume"}
        /\ pc[c] \in {"connect", "otherAccount", "sign", "ownerAgain"}
              => op[c] \in {"send", "order"}
        /\ pc[c] \in {"prepare", "chainAgain", "submit"} => op[c] = "send"
        /\ pc[c] = "receipt" => op[c] \in {"send", "resume"}
        /\ pc[c] = "closing" => op[c] = "close"
        /\ pc[c] \in {"onceConnect", "onceSign"} => op[c] = "once"

CountsAreNumbers ==
    asked \in [0..2 -> Nat] /\ raw \in [Step -> Nat] /\ handedOver \in Nat

\* Steps are attempted in order, a later one only after the earlier succeeded;
\* pending is the attempted one while its raw transaction is out.
StepsAdvance ==
    /\ attempted <= nextStep /\ attempted <= steps
    /\ pending # 0 => pending = attempted /\ attempted = nextStep
    /\ nextStep > 1 => steps > 0
    /\ \A s \in Step :
          /\ asked[s] > 0 \/ raw[s] > 0 => s <= attempted
          /\ s < nextStep => mined[s] = "success" /\ told[s] = "success"
          /\ pending = s => raw[s] = 1 /\ told[s] = "no"
          /\ raw[s] > 0 /\ told[s] = "no" => pending = s
          /\ raw[s] = 0 => told[s] = "no"
          /\ raw[s] <= 1 /\ asked[s] <= 1

\* A send that has not asked the device yet finds its step never asked, and one
\* that has not submitted finds it never sent.
SendsAreFresh ==
    \A c \in Call : pc[c] # "idle" /\ op[c] = "send" =>
        /\ nextStep <= steps
        /\ pc[c] \in {"owner", "chain"} => attempted < nextStep
        /\ pc[c] \notin {"owner", "chain"} => attempted = nextStep
        /\ pc[c] \in {"owner", "chain", "connect", "otherAccount", "prepare", "sign"}
              => asked[nextStep] = 0
        /\ pc[c] \in {"submit", "receipt"} => pending = nextStep
        /\ pc[c] \notin {"submit", "receipt"} => pending = 0 /\ raw[nextStep] = 0

\* The same for the order, which steps = 0 sets apart from the transactions.
OrdersAreFresh ==
    /\ orderAttempted => steps = 0
    /\ ~orderAttempted => asked[0] = 0 /\ handedOver = 0
    /\ asked[0] <= 1 /\ handedOver <= 1
    /\ \A c \in Call : pc[c] # "idle" /\ op[c] = "order" =>
          /\ steps = 0 /\ handedOver = 0
          /\ pc[c] \in {"owner", "chain"} => ~orderAttempted
          /\ pc[c] \notin {"owner", "chain"} => orderAttempted
          /\ pc[c] # "ownerAgain" => asked[0] = 0

\* An account that is not the owner's is held only by the call that refuses it.
AccountIsKnown ==
    connection = "other" => \E c \in Call : pc[c] = "otherAccount"

IInv ==
    /\ Types /\ CountsAreNumbers /\ HoldsAlone /\ OpsFitTheirAwait
    /\ StepsAdvance /\ SendsAreFresh /\ OrdersAreFresh
    /\ AccountIsKnown /\ SessionsAreReachable

USE DEF Step, Op, Await, Holding, signer, world, trace, Goto, Start, Returns

LEMMA IInvInit == ASSUME CallAssumption, Init PROVE IInv
  <1> USE DEF Init
  <1>1. Types
    <2>1. busy \in BOOLEAN /\ closed \in BOOLEAN /\ orderAttempted \in BOOLEAN
      OBVIOUS
    <2> QED
      BY <2>1 DEF Types
  <1>2. CountsAreNumbers /\ HoldsAlone /\ OpsFitTheirAwait
    BY DEF OpsFitTheirAwait, CountsAreNumbers, HoldsAlone
  <1>3. AccountIsKnown /\ SessionsAreReachable
    BY DEF AccountIsKnown, SessionsAreReachable
  <1>4. StepsAdvance
    BY DEF StepsAdvance
  <1>5. SendsAreFresh /\ OrdersAreFresh
    BY DEF SendsAreFresh, OrdersAreFresh
  <1> QED
    BY <1>1, <1>2, <1>3, <1>4, <1>5 DEF IInv

LEMMA IInvStep ==
    ASSUME CallAssumption, IInv, NEW c \in Call, Calls(c) \/ Continues(c)
    PROVE  IInv'
  <1> USE DEF IInv, Types, CountsAreNumbers, HoldsAlone, OpsFitTheirAwait, StepsAdvance, SendsAreFresh, OrdersAreFresh, AccountIsKnown, SessionsAreReachable
  <1>1. CASE sendTransaction(c)
    <2> USE <1>1 DEF sendTransaction, mayEnter, unattempted
    <2>2. (Types /\ CountsAreNumbers)'
      OBVIOUS
    <2>3. (HoldsAlone /\ OpsFitTheirAwait)'
      OBVIOUS
    <2>4. (AccountIsKnown /\ SessionsAreReachable)'
      BY DEF CallAssumption
    <2>5. (StepsAdvance /\ SendsAreFresh /\ OrdersAreFresh)'
      OBVIOUS
    <2> QED
      BY <2>2, <2>3, <2>4, <2>5
  <1>2. CASE signTypedData(c)
    <2> USE <1>2 DEF signTypedData, mayEnter
    <2>2. (Types /\ CountsAreNumbers)'
      OBVIOUS
    <2>3. (HoldsAlone /\ OpsFitTheirAwait)'
      OBVIOUS
    <2>4. (AccountIsKnown /\ SessionsAreReachable)'
      BY DEF CallAssumption
    <2>5. (StepsAdvance /\ SendsAreFresh /\ OrdersAreFresh)'
      OBVIOUS
    <2> QED
      BY <2>2, <2>3, <2>4, <2>5
  <1>3. CASE resumeTransaction(c)
    <2> USE <1>3 DEF resumeTransaction
    <2>2. (Types /\ CountsAreNumbers)'
      OBVIOUS
    <2>3. (HoldsAlone /\ OpsFitTheirAwait)'
      OBVIOUS
    <2>4. (AccountIsKnown /\ SessionsAreReachable)'
      BY DEF CallAssumption
    <2>5. (StepsAdvance /\ SendsAreFresh /\ OrdersAreFresh)'
      OBVIOUS
    <2> QED
      BY <2>2, <2>3, <2>4, <2>5
  <1>4. CASE close(c)
    <2> USE <1>4 DEF close
    <2>2. (Types /\ CountsAreNumbers)'
      OBVIOUS
    <2>3. (HoldsAlone /\ OpsFitTheirAwait)'
      OBVIOUS
    <2>4. (AccountIsKnown /\ SessionsAreReachable)'
      BY DEF CallAssumption
    <2>5. (StepsAdvance /\ SendsAreFresh /\ OrdersAreFresh)'
      OBVIOUS
    <2> QED
      BY <2>2, <2>3, <2>4, <2>5
  <1>5. CASE closeEnds(c)
    <2> USE <1>5 DEF closeEnds
    <2>2. (Types /\ CountsAreNumbers)'
      OBVIOUS
    <2>3. (HoldsAlone /\ OpsFitTheirAwait)'
      OBVIOUS
    <2>4. (AccountIsKnown /\ SessionsAreReachable)'
      BY DEF CallAssumption
    <2>5. (StepsAdvance /\ SendsAreFresh /\ OrdersAreFresh)'
      OBVIOUS
    <2> QED
      BY <2>2, <2>3, <2>4, <2>5
  <1>6. CASE assertOwner(c)
    <2> USE <1>6 DEF assertOwner, reviewStands
    <2>1. (busy \in BOOLEAN /\ closed \in BOOLEAN /\ orderAttempted \in BOOLEAN)'
      OBVIOUS
    <2>2. (Types /\ CountsAreNumbers)'
      BY <2>1
    <2>3. (HoldsAlone /\ OpsFitTheirAwait)'
      OBVIOUS
    <2>4. (AccountIsKnown /\ SessionsAreReachable)'
      BY DEF CallAssumption
    <2>5. (StepsAdvance /\ SendsAreFresh /\ OrdersAreFresh)'
      OBVIOUS
    <2> QED
      BY <2>2, <2>3, <2>4, <2>5
  <1>7. CASE entered(c)
    <2> USE <1>7 DEF entered, reviewStands
    <2>1. (busy \in BOOLEAN /\ closed \in BOOLEAN /\ orderAttempted \in BOOLEAN)'
      OBVIOUS
    <2>2. (Types /\ CountsAreNumbers)'
      BY <2>1
    <2>3. (HoldsAlone /\ OpsFitTheirAwait)'
      OBVIOUS
    <2>4. (AccountIsKnown /\ SessionsAreReachable)'
      BY DEF CallAssumption
    <2>5. (StepsAdvance /\ SendsAreFresh /\ OrdersAreFresh)'
      OBVIOUS
    <2> QED
      BY <2>2, <2>3, <2>4, <2>5
  <1>8. CASE getDmkFails(c)
    <2> USE <1>8 DEF getDmkFails
    <2>1. (busy \in BOOLEAN /\ closed \in BOOLEAN /\ orderAttempted \in BOOLEAN)'
      OBVIOUS
    <2>2. (Types /\ CountsAreNumbers)'
      BY <2>1
    <2>3. (HoldsAlone /\ OpsFitTheirAwait)'
      OBVIOUS
    <2>4. (AccountIsKnown /\ SessionsAreReachable)'
      BY DEF CallAssumption
    <2>5. (StepsAdvance /\ SendsAreFresh /\ OrdersAreFresh)'
      OBVIOUS
    <2> QED
      BY <2>2, <2>3, <2>4, <2>5
  <1>9. CASE connectLedger(c)
    <2> USE <1>9 DEF connectLedger
    <2>2. (Types /\ CountsAreNumbers)'
      OBVIOUS
    <2>3. (HoldsAlone /\ OpsFitTheirAwait)'
      OBVIOUS
    <2>4. (AccountIsKnown /\ SessionsAreReachable)'
      BY DEF CallAssumption
    <2>5. (StepsAdvance /\ SendsAreFresh /\ OrdersAreFresh)'
      BY SMTT(30)
    <2> QED
      BY <2>2, <2>3, <2>4, <2>5
  <1>10. CASE refusesAccount(c)
    <2> USE <1>10 DEF refusesAccount, dropsOther
    <2>2. (Types /\ CountsAreNumbers)'
      OBVIOUS
    <2>3. (HoldsAlone /\ OpsFitTheirAwait)'
      OBVIOUS
    <2>4. (AccountIsKnown /\ SessionsAreReachable)'
      BY DEF CallAssumption
    <2>5. (StepsAdvance /\ SendsAreFresh /\ OrdersAreFresh)'
      OBVIOUS
    <2> QED
      BY <2>2, <2>3, <2>4, <2>5
  <1>11. CASE prepareTransactionRequest(c)
    <2> USE <1>11 DEF prepareTransactionRequest
    <2>2. (Types /\ CountsAreNumbers)'
      OBVIOUS
    <2>3. (HoldsAlone /\ OpsFitTheirAwait)'
      OBVIOUS
    <2>4. (AccountIsKnown /\ SessionsAreReachable)'
      BY DEF CallAssumption
    <2>5. (StepsAdvance /\ SendsAreFresh /\ OrdersAreFresh)'
      OBVIOUS
    <2> QED
      BY <2>2, <2>3, <2>4, <2>5
  <1>12. CASE signs(c)
    <2> USE <1>12 DEF signs
    <2>2. (Types /\ CountsAreNumbers)'
      OBVIOUS
    <2>3. (HoldsAlone /\ OpsFitTheirAwait)'
      OBVIOUS
    <2>4. (AccountIsKnown /\ SessionsAreReachable)'
      BY DEF CallAssumption
    <2>5. (StepsAdvance /\ SendsAreFresh /\ OrdersAreFresh)'
      BY SMTT(30)
    <2> QED
      BY <2>2, <2>3, <2>4, <2>5
  <1>13. CASE sendRawTransaction(c)
    <2> USE <1>13 DEF sendRawTransaction, remember
    <2>2. (Types /\ CountsAreNumbers)'
      OBVIOUS
    <2>3. (HoldsAlone /\ OpsFitTheirAwait)'
      OBVIOUS
    <2>4. (AccountIsKnown /\ SessionsAreReachable)'
      BY DEF CallAssumption
    <2>5. (StepsAdvance /\ SendsAreFresh /\ OrdersAreFresh)'
      OBVIOUS
    <2> QED
      BY <2>2, <2>3, <2>4, <2>5
  <1>14. CASE submitted(c)
    <2> USE <1>14 DEF submitted
    <2>2. (Types /\ CountsAreNumbers)'
      OBVIOUS
    <2>3. (HoldsAlone /\ OpsFitTheirAwait)'
      OBVIOUS
    <2>4. (AccountIsKnown /\ SessionsAreReachable)'
      BY DEF CallAssumption
    <2>5. (StepsAdvance /\ SendsAreFresh /\ OrdersAreFresh)'
      OBVIOUS
    <2> QED
      BY <2>2, <2>3, <2>4, <2>5
  <1>15. CASE confirmPending(c)
    <2> USE <1>15 DEF confirmPending
    <2>1. (busy \in BOOLEAN /\ closed \in BOOLEAN /\ orderAttempted \in BOOLEAN)'
      OBVIOUS
    <2>2. (Types /\ CountsAreNumbers)'
      BY <2>1
    <2>3. (HoldsAlone /\ OpsFitTheirAwait)'
      OBVIOUS
    <2>4. (AccountIsKnown /\ SessionsAreReachable)'
      BY DEF CallAssumption
    <2>5. (StepsAdvance /\ SendsAreFresh /\ OrdersAreFresh)'
      OBVIOUS
    <2> QED
      BY <2>2, <2>3, <2>4, <2>5
  <1>16. CASE Rejects(c)
    <2> USE <1>16 DEF Rejects, releases
    <2>1. (busy \in BOOLEAN /\ closed \in BOOLEAN /\ orderAttempted \in BOOLEAN)'
      OBVIOUS
    <2>2. (Types /\ CountsAreNumbers)'
      BY <2>1
    <2>3. (HoldsAlone /\ OpsFitTheirAwait)'
      OBVIOUS
    <2>4. (AccountIsKnown /\ SessionsAreReachable)'
      BY DEF CallAssumption
    <2>5. (StepsAdvance /\ SendsAreFresh /\ OrdersAreFresh)'
      BY SMTT(30)
    <2> QED
      BY <2>2, <2>3, <2>4, <2>5
  <1>17. CASE oneShot(c)
    <2> USE <1>17 DEF oneShot
    <2>2. (Types /\ CountsAreNumbers)'
      OBVIOUS
    <2>3. (HoldsAlone /\ OpsFitTheirAwait)'
      OBVIOUS
    <2>4. (AccountIsKnown /\ SessionsAreReachable)'
      BY DEF CallAssumption
    <2>5. (StepsAdvance /\ SendsAreFresh /\ OrdersAreFresh)'
      OBVIOUS
    <2> QED
      BY <2>2, <2>3, <2>4, <2>5
  <1>18. CASE oneShotConnects(c)
    <2> USE <1>18 DEF oneShotConnects
    <2>2. (Types /\ CountsAreNumbers)'
      OBVIOUS
    <2>3. (HoldsAlone /\ OpsFitTheirAwait)'
      OBVIOUS
    <2>4. (AccountIsKnown /\ SessionsAreReachable)'
      BY DEF CallAssumption
    <2>5. (StepsAdvance /\ SendsAreFresh /\ OrdersAreFresh)'
      OBVIOUS
    <2> QED
      BY <2>2, <2>3, <2>4, <2>5
  <1>19. CASE oneShotEnds(c)
    <2> USE <1>19 DEF oneShotEnds
    <2>2. (Types /\ CountsAreNumbers)'
      OBVIOUS
    <2>3. (HoldsAlone /\ OpsFitTheirAwait)'
      OBVIOUS
    <2>4. (AccountIsKnown /\ SessionsAreReachable)'
      BY DEF CallAssumption
    <2>5. (StepsAdvance /\ SendsAreFresh /\ OrdersAreFresh)'
      BY SMTT(30)
    <2> QED
      BY <2>2, <2>3, <2>4, <2>5
  <1> QED
    BY <1>1, <1>2, <1>3, <1>4, <1>5, <1>6, <1>7, <1>8, <1>9, <1>10, <1>11, <1>12, <1>13, <1>14, <1>15, <1>16, <1>17, <1>18, <1>19 DEF Calls, Continues

LEMMA IInvWorld == ASSUME IInv, World PROVE IInv'
  <1> USE DEF World, IInv
  <1>1. (Types /\ CountsAreNumbers)'
    BY DEF Types, CountsAreNumbers
  <1>2. (HoldsAlone /\ OpsFitTheirAwait)'
    BY DEF HoldsAlone, OpsFitTheirAwait
  <1>3. (AccountIsKnown /\ SessionsAreReachable)'
    BY DEF AccountIsKnown, SessionsAreReachable
  <1>4. (StepsAdvance /\ SendsAreFresh /\ OrdersAreFresh)'
    BY DEF Types, StepsAdvance, SendsAreFresh, OrdersAreFresh
  <1> QED
    BY <1>1, <1>2, <1>3, <1>4

LEMMA Inductive == CallAssumption => (Spec => []IInv)
  <1> SUFFICES ASSUME CallAssumption PROVE Spec => []IInv
    OBVIOUS
  <1>1. Init => IInv
    BY IInvInit
  <1>2. IInv /\ [Next]_vars => IInv'
    <2>1. CASE UNCHANGED vars
      BY <2>1, SMTT(30) DEF vars, IInv, Types, CountsAreNumbers, HoldsAlone, OpsFitTheirAwait,
                  StepsAdvance, SendsAreFresh, OrdersAreFresh, AccountIsKnown,
                  SessionsAreReachable
    <2>2. CASE World
      BY <2>2, IInvWorld
    <2>3. CASE \E c \in Call : Calls(c) \/ Continues(c)
      BY <2>3, IInvStep
    <2> QED
      BY <2>1, <2>2, <2>3 DEF Next
  <1> QED
    BY <1>1, <1>2, PTL DEF Spec

-----------------------------------------------------------------------------
(* What follows from it.                                                   *)

\* The signer's closure keeps its types, and however many of its methods are
\* called at once a single operation holds `busy` (run and its finally).
THEOREM TypeCorrect == CallAssumption => (Spec => []TypeOK)
  <1>1. IInv => TypeOK
    BY DEF IInv, Types, HoldsAlone, OpsFitTheirAwait, TypeOK
  <1> QED
    BY <1>1, Inductive, PTL

\* Each step of the reviewed swap is shown on the device once and broadcast
\* once, the swap after its approval was mined, and one that may be on chain is
\* found in `pending` until its outcome is reported.
THEOREM BroadcastsAccountedFor ==
    CallAssumption => (Spec => []BroadcastsAreAccountedFor)
  <1>1. IInv => BroadcastsAreAccountedFor
    <2> SUFFICES ASSUME IInv PROVE BroadcastsAreAccountedFor
      OBVIOUS
    <2>1. BroadcastIsNeverForgotten
      BY DEF IInv, StepsAdvance, BroadcastIsNeverForgotten
    <2>2. \A s \in 0..2 : asked[s] <= 1
      BY DEF IInv, Types, CountsAreNumbers, StepsAdvance, OrdersAreFresh
    <2>3. raw[2] > 0 => mined[1] = "success"
      BY DEF IInv, Types, CountsAreNumbers, StepsAdvance
    <2>4. handedOver = 1 => \A s \in Step : raw[s] = 0
      BY DEF IInv, Types, CountsAreNumbers, StepsAdvance, OrdersAreFresh
    <2>5. \A s \in Step : raw[s] <= 1
      BY DEF IInv, StepsAdvance
    <2>6. handedOver <= 1
      BY DEF IInv, OrdersAreFresh
    <2> QED
      BY <2>1, <2>2, <2>3, <2>4, <2>5, <2>6
         DEF BroadcastsAreAccountedFor, StepsGoOutOnceInOrder
  <1> QED
    BY <1>1, Inductive, PTL

\* No device session is lost: `connection` or a running one-shot flow still
\* holds each one, and none for another account reaches a request.
THEOREM SessionsReachable == CallAssumption => (Spec => []SessionsAreReachable)
  <1>1. IInv => SessionsAreReachable
    BY DEF IInv
  <1> QED
    BY <1>1, Inductive, PTL

\* Nothing is broadcast and no signed order is handed over after close() or
\* after the quote expired.
THEOREM LeavesOnlyWhileLive == Spec => OnlyALiveReviewLeaves
  <1> DEFINE Live == raw' # raw \/ handedOver' # handedOver => ~closed /\ quote = "live"
  <1>1. [Next]_vars => [Live]_vars
    <2> SUFFICES ASSUME Next, raw' # raw \/ handedOver' # handedOver
                 PROVE  ~closed /\ quote = "live"
      BY DEF vars
    <2>1. ~World
      BY DEF World
    <2> PICK c \in Call : Calls(c) \/ Continues(c)
      BY <2>1 DEF Next
    <2>2. assertOwner(c) \/ sendRawTransaction(c)
      BY DEF Calls, Continues, sendTransaction, signTypedData, resumeTransaction, close,
             oneShot, closeEnds, entered, getDmkFails, connectLedger, refusesAccount,
             prepareTransactionRequest, signs, submitted, confirmPending, Rejects,
             oneShotConnects, oneShotEnds
    <2> QED
      BY <2>2 DEF assertOwner, sendRawTransaction, reviewStands
  <1> QED
    BY <1>1, PTL DEF Spec, OnlyALiveReviewLeaves
=============================================================================
