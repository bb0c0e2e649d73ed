-------------------------- MODULE MCSquadsTreasury --------------------------
EXTENDS SquadsTreasury

MCSpecs == {[weight |-> <<2, 1, 1>>, threshold |-> 3],
            [weight |-> <<1, 1>>, threshold |-> 2],
            [weight |-> <<1, 1>>, threshold |-> 3]}

\* What the tab saved and read refers to what is on chain, and the treasury it
\* saved is one that createTreasury created.
TabMatchesTheChain == TypeOK /\ SavedTreasuryIsOurs

\* Nobody spends without authority: a policy exists only after every owner
\* approved it, and pays only for owners who reach its spec's threshold.
AuthorityComesFromOwners == PoliciesNeedEveryOwner /\ SpendsAreAuthorised
=============================================================================
