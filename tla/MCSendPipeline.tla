--------------------------- MODULE MCSendPipeline ---------------------------
(***************************************************************************)
(* Small instances of SendPipeline: owner a has weight 2, b has weight 1;  *)
(* the threshold is 3, so that both must sign, or is lowered to 2.         *)
(***************************************************************************)
EXTENDS SendPipeline, TLC

CONSTANTS c1, c2, j1, j2, r1

JobSymmetry == Permutations(JobId) \cup Permutations(Client)

MCOwner == {"a", "b"}
MCFee == [p \in {"evm", "solana"} |-> IF p = "evm" THEN 1 ELSE 2]

Strict == [weights |-> [o \in MCOwner |-> IF o = "a" THEN 2 ELSE 1],
           threshold |-> 3, cap |-> 2]
OneConfig == {Strict}
Lenient == [Strict EXCEPT !.threshold = 2]
TwoConfigs == {Strict, Lenient}

Send(recipient, value, signers, source) ==
    [wellFormed |-> TRUE, recipient |-> recipient, value |-> value,
     signers |-> signers, source |-> source, expectRefusal |-> FALSE]

\* One payment (the first is made from evm, the next from the larger position),
\* and a request that validation refuses.
OnePayment == {Send(r1, 1, MCOwner, "auto"), Send(r1, 3, MCOwner, "evm")}

\* Payments from the Solana vault, by a quorum and by too few.
SolanaPayments == {Send(r1, 1, MCOwner, "solana"), Send(r1, 1, {"a"}, "solana")}

\* The refusal demo: a payment that only a is asked to approve.
RefusalDemo == {[Send(r1, 1, {"a"}, "evm") EXCEPT !.expectRefusal = TRUE]}
=============================================================================
