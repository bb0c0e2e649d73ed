---------------------------- MODULE AdminTimelock ----------------------------
(***************************************************************************)
(* What the admin queue of a treasury promises, without owners, signatures *)
(* or calls: an operation is approved once, waits out the delay in force,  *)
(* can then be enacted for a limited time, and is done or dead for ever    *)
(* after.  The delay changes only in a step that kills everything pending. *)
(***************************************************************************)
EXTENDS Naturals

CONSTANTS Nonce, Grace

VARIABLES clock, delay, status, opensAt

vars == <<clock, delay, status, opensAt>>

Init ==
    /\ clock = 0
    /\ delay \in Nat
    /\ status = [n \in Nonce |-> "free"]
    /\ opensAt = [n \in Nonce |-> 0]

\* Time passes; a pending operation whose window closes is dead.
Pass ==
    /\ clock' = clock + 1
    /\ status' = [n \in Nonce |->
          IF status[n] = "pending" /\ clock' > opensAt[n] + Grace
          THEN "dead" ELSE status[n]]
    /\ UNCHANGED <<delay, opensAt>>

Approve(n) ==
    /\ status[n] = "free"
    /\ status' = [status EXCEPT ![n] = "pending"]
    /\ opensAt' = [opensAt EXCEPT ![n] = clock + delay]
    /\ UNCHANGED <<clock, delay>>

\* A nonce is withdrawn: a pending operation cancelled, or a free one spent.
Withdraw(n) ==
    /\ status[n] \in {"free", "pending"}
    /\ status' = [status EXCEPT ![n] = "dead"]
    /\ UNCHANGED <<clock, delay, opensAt>>

Ripe(n) ==
    /\ status[n] = "pending"
    /\ clock \in opensAt[n] .. (opensAt[n] + Grace)

Enact(n) ==
    /\ Ripe(n)
    /\ status' = [status EXCEPT ![n] = "done"]
    /\ UNCHANGED <<clock, delay, opensAt>>

\* Enacting a change of the configuration kills whatever else is pending.
Reconfigure(n) ==
    /\ Ripe(n)
    /\ delay' \in Nat
    /\ status' = [m \in Nonce |->
          IF m = n THEN "done"
          ELSE IF status[m] = "pending" THEN "dead" ELSE status[m]]
    /\ UNCHANGED <<clock, opensAt>>

Next ==
    \/ Pass
    \/ \E n \in Nonce :
          Approve(n) \/ Withdraw(n) \/ Enact(n) \/ Reconfigure(n)

Spec == Init /\ [][Next]_vars
=============================================================================
