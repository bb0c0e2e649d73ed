---------------------------- MODULE SandboxStack ----------------------------
(***************************************************************************)
(* The deployer of the local Circle stack (deployStack) and the lock file  *)
(* of its forge build.  Several processes may need the build at once; one  *)
(* of them then deploys to anvil, dies and is started again.  Each step    *)
(* reads the chain first and sends only what is missing.                   *)
(***************************************************************************)
EXTENDS Naturals, Sequences, SequencesExt, FiniteSets

CONSTANTS Proc,          \* processes that need the forge artifacts
          Deployer,      \* the one that goes on to deploy and serve
          DEPOSIT,       \* PAYMASTER_DEPOSIT
          MaxCrashes, MaxRuns

VARIABLES built, lock,                    \* contracts/out, the lock file
          pc, step, crashes, runs,        \* processes
          installed, allowed,             \* anvil: code, factory allowlist,
          usdc, deposit,                  \*   deployer's USDC, paymaster
          info,                           \* the deposit as it was read
          sent,                           \* transactions of this run
          file                            \* what local.json records

chain == <<installed, allowed, usdc, deposit>>
vars == <<built, lock, pc, step, crashes, runs, chain, info, sent, file>>

NoLock == "none"

\* What deployStack installs, in its order.  "scratch" is the EntryPoint at
\* an ordinary address, whose code is then copied to the canonical one.
paymasterSteps_proxyFirst == <<"pmProxy", "pmImpl">>
paymasterSteps == <<"pmImpl", "pmProxy">>
Steps == <<"create2Deployer", "scratch", "entryPoint", "pluginManager",
           "factory", "addressBook", "weighted", "usdc", "mint">>
         \o paymasterSteps \o
         <<"stake", "deposit", "sessionKey", "earn", "allowlist">>
Plugins == {"addressBook", "weighted", "sessionKey", "earn"}
BufiPlugins == {"sessionKey", "earn"}
NotCode == {"mint", "stake", "deposit", "allowlist", "scratch"}
Contracts == ToSet(Steps) \ NotCode

\* The contracts a step's transaction or read needs.
Needs(s) == CASE s = "entryPoint" -> {"scratch"}
              [] s = "mint" -> {"usdc"}
              [] s = "pmProxy" -> {"pmImpl"}
              [] s \in {"stake", "deposit"} -> {"pmProxy", "entryPoint"}
              [] s = "allowlist" -> {"factory"}
              [] s \in {"create2Deployer", "scratch"} -> {}
              [] OTHER -> {"create2Deployer"}

Init ==
    \* the forge artifacts on disk; BUFI's plugins may be the ones missing
    /\ built \in {"none", "circle"} /\ lock = NoLock
    /\ pc = [p \in Proc |-> "start"] /\ step = 1 /\ crashes = 0 /\ runs = 1
    \* anvil comes with the CREATE2 deployer
    /\ installed \in {{}, {"create2Deployer"}}
    /\ allowed = {} /\ usdc = 0 /\ deposit = 0
    /\ info = 0 /\ sent = {} /\ file = {}

Goto(p, label) == pc' = [pc EXCEPT ![p] = label]

-----------------------------------------------------------------------------
(* ensureForgeArtifacts *)

ensureForgeArtifacts(p) ==
    /\ pc[p] = "start"
    /\ Goto(p, IF built = "none" THEN "waiting"
               ELSE IF p = Deployer THEN "deploying" ELSE "ended")
    /\ UNCHANGED <<built, lock, step, crashes, runs, chain, info, sent, file>>

\* The loop on existsSync ends; the lock is written in a later step.
lockIsFree(p) ==
    /\ pc[p] = "waiting" /\ lock = NoLock /\ Goto(p, "locking")
    /\ UNCHANGED <<built, lock, step, crashes, runs, chain, info, sent, file>>

\* After ten minutes of waiting.
lockTimesOut(p) ==
    /\ pc[p] = "waiting" /\ lock # NoLock /\ Goto(p, "ended")
    /\ UNCHANGED <<built, lock, step, crashes, runs, chain, info, sent, file>>

takesLock(p) ==
    /\ pc[p] = "locking" /\ lock' = p /\ Goto(p, "building")
    /\ UNCHANGED <<built, step, crashes, runs, chain, info, sent, file>>

forgeBuild(p) ==
    /\ pc[p] = "building" /\ lock' = NoLock
    /\ \/ built' \in (IF built = "all" THEN {"all"} ELSE {"circle", "all"})
          /\ Goto(p, IF p = Deployer THEN "deploying" ELSE "ended")
       \/ UNCHANGED built /\ Goto(p, "ended")
    /\ UNCHANGED <<step, crashes, runs, chain, info, sent, file>>

-----------------------------------------------------------------------------
(* deployStack, step by step; Deployer only *)

depositIsLow_once == info = 0
depositIsLow == info < DEPOSIT

\* The read that decides whether a step sends anything.
missing(s) ==
    CASE s = "mint" -> usdc = 0
      [] s = "deposit" -> depositIsLow
      [] s = "scratch" -> "entryPoint" \notin installed
      [] s \in BufiPlugins -> built = "all" /\ s \notin installed
      [] s = "allowlist" -> (Plugins \cap installed) \ allowed # {}
      [] OTHER -> s \notin installed

topUp == DEPOSIT - info

canSend(s) == missing(s) => Needs(s) \subseteq installed

deployStep ==
    LET s == Steps[step]
    IN /\ pc[Deployer] = "deploying" /\ step <= Len(Steps)
       /\ canSend(s)
       /\ IF missing(s)
          THEN /\ installed' = installed \cup ({s} \ {"mint", "deposit", "allowlist"})
               /\ sent' = sent \cup {s}
               /\ usdc' = IF s = "mint" THEN 1 ELSE usdc
               /\ deposit' = IF s = "deposit" THEN deposit + topUp
                             ELSE deposit
               /\ allowed' = IF s = "allowlist" THEN Plugins \cap installed
                             ELSE allowed
          ELSE UNCHANGED <<chain, sent>>
       \* getDepositInfo is read once, before addStake
       /\ info' = IF s = "pmProxy" THEN deposit ELSE info
       /\ step' = step + 1
    /\ UNCHANGED <<built, lock, pc, crashes, runs, file>>

mayWrite == step > Len(Steps)

writeDeployment ==
    /\ pc[Deployer] = "deploying" /\ mayWrite
    /\ file' = Contracts \cap (installed \cup (Contracts \ BufiPlugins))
    /\ Goto(Deployer, "serving")
    /\ UNCHANGED <<built, lock, step, crashes, runs, chain, info, sent>>

\* A failing call ends the run where it is, as a crash does.
deployFails ==
    /\ pc[Deployer] = "deploying" /\ step <= Len(Steps)
    /\ ~canSend(Steps[step]) \/ crashes < MaxCrashes
    /\ crashes' = IF crashes < MaxCrashes THEN crashes + 1 ELSE crashes
    /\ Goto(Deployer, "ended")
    /\ UNCHANGED <<built, lock, step, runs, chain, info, sent, file>>

crash(p) ==
    /\ pc[p] \in {"locking", "building", "deploying", "serving"}
    /\ crashes < MaxCrashes /\ crashes' = crashes + 1 /\ Goto(p, "ended")
    /\ UNCHANGED <<built, lock, step, runs, chain, info, sent, file>>

\* The user runs it again.
rerun(p) ==
    /\ pc[p] = "ended" /\ (p = Deployer \/ built = "none") /\ runs < MaxRuns
    /\ runs' = runs + 1 /\ Goto(p, "start")
    /\ IF p = Deployer THEN step' = 1 /\ sent' = {} ELSE UNCHANGED <<step, sent>>
    /\ UNCHANGED <<built, lock, crashes, chain, info, file>>

\* While it serves: a sponsored operation is paid from the deposit, and the
\* deployer's USDC is given away.
sponsor ==
    /\ pc[Deployer] = "serving" /\ deposit > 0 /\ deposit' = deposit - 1
    /\ UNCHANGED <<built, lock, pc, step, crashes, runs, installed, allowed, usdc, info,
                   sent, file>>
spendUsdc ==
    /\ pc[Deployer] = "serving" /\ usdc > 0 /\ usdc' = 0
    /\ UNCHANGED <<built, lock, pc, step, crashes, runs, installed, allowed, deposit,
                   info, sent, file>>
stop ==
    /\ pc[Deployer] = "serving" /\ Goto(Deployer, "ended")
    /\ UNCHANGED <<built, lock, step, crashes, runs, chain, info, sent, file>>

Builds(p) == ensureForgeArtifacts(p) \/ lockIsFree(p) \/ lockTimesOut(p)
             \/ takesLock(p) \/ forgeBuild(p)

Next == \/ \E p \in Proc : Builds(p) \/ crash(p) \/ rerun(p)
        \/ deployStep \/ writeDeployment \/ deployFails
        \/ sponsor \/ spendUsdc \/ stop
Spec == Init /\ [][Next]_vars

-----------------------------------------------------------------------------
(* Properties *)

\* Type invariant.  The lock, the processes and what anvil and local.json hold.
TypeOK ==
    /\ built \in {"none", "circle", "all"} /\ lock \in Proc \cup {NoLock}
    /\ pc \in [Proc -> {"start", "waiting", "locking", "building",
                        "deploying", "serving", "ended"}]
    /\ step \in 1..(Len(Steps) + 1)
    /\ crashes \in 0..MaxCrashes /\ runs \in 1..MaxRuns
    /\ installed \subseteq ToSet(Steps) /\ allowed \subseteq Plugins
    /\ usdc \in 0..1 /\ deposit \in 0..DEPOSIT /\ info \in 0..DEPOSIT
    /\ sent \subseteq ToSet(Steps) /\ file \subseteq Contracts

\* Wherever earlier runs of deployStack died, a local.json that was written
\* names only contracts that have code, and every plugin it names can be
\* installed by a new account, since the factory allows it.
FileDescribesTheStack ==
    /\ file \subseteq installed
    /\ file \cap Plugins \subseteq allowed

\* deployStack resumes from wherever it died: whatever earlier runs left on
\* the chain, each step finds what its transaction or read needs, so no run
\* ends on a contract that an earlier, interrupted run failed to leave.
RunsResume ==
    pc[Deployer] = "deploying" /\ step <= Len(Steps) => canSend(Steps[step])

\* A run that comes to serve leaves the paymaster with its full deposit and
\* the deployer with USDC, whatever a previous server spent of them.
RunsLeaveItFunded ==
    [][pc[Deployer] = "deploying" /\ pc'[Deployer] = "serving"
       => deposit' = DEPOSIT /\ usdc' = 1 /\ "stake" \in installed]_vars
=============================================================================
