---------------------------- MODULE WorkerGates ----------------------------
(***************************************************************************)
(* What a worker must show before `clu complete` lets its phase end, and    *)
(* how many tasks it may spawn (cmd_verify, cmd_attest, cmd_complete and    *)
(* cmd_spawn of cli.py).                                                    *)
(*                                                                          *)
(* `clu verify` runs the project's tests in the checkout and stamps the     *)
(* claim with the commit HEAD named when they began; `clu attest            *)
(* --simplify` stamps it with the commit the worker has reviewed; `clu      *)
(* complete` compares the stamps of a snapshot with HEAD.  None of them     *)
(* holds anything while git or the tests run: files may be edited, HEAD may *)
(* move either way, the claim may be released and the phase claimed again.  *)
(* A worker, with its agents, runs several commands at a time and goes on   *)
(* when its claim has been taken away; the operator may verify too.         *)
(***************************************************************************)
EXTENDS Integers, FiniteSets, TLC

CONSTANTS
  Worktree,     \* the plan has a worktree, and so a base_ref
  Cap,          \* max_spawns_per_phase
  Command,      \* bound: the commands that may be running at a time
  MaxClaims,    \* bound: claims of the phase
  MaxCommits    \* bound: commits since the base

ASSUME WorktreeAssumption == Worktree \in BOOLEAN
ASSUME LimitsAssumption == Cap \in Nat
ASSUME BoundsAssumption == MaxClaims \in Nat /\ MaxCommits \in Nat

VARIABLES
  head,      \* the commit HEAD names
  made,      \* commits made since the base, which is commit 0
  dirty,     \* the checkout is not HEAD's commit
  good,      \* commits whose tree passes the verify command
  large,     \* commits whose diff to the base exceeds quality.simplify_threshold
  claim,     \* the claim of the phase, or NoClaim
  minted,    \* claims made
  tasks,     \* rows of spawned_tasks with the phase
  proc       \* the commands that run

repo == <<head, made, dirty, good, large>>
vars == <<head, made, dirty, good, large, claim, minted, tasks, proc>>

Token  == 1..MaxClaims
Operator == 0
Sha    == 0..MaxCommits
Never  == -1
Named  == Sha \cup {Never}

\* For the properties a stamp remembers whether the tests may have read something
\* else than its commit, and who attested.
Verified == [sha : Named, mixed : BOOLEAN]
Attested == [sha : Named, by : 0..MaxClaims]
Unverified == [sha |-> Never, mixed |-> FALSE]
Unattested == [sha |-> Never, by |-> 0]
Claim == [token : Token, verify : Verified, simplify : Attested]
NoClaim == [token |-> 0, verify |-> Unverified, simplify |-> Unattested]

\* head is what rev-parse said; verify and simplify are of the snapshot.  mixed, big and
\* since are observed: the tests may have read something else than head, the diff was large
\* at the gate, tasks that commands of the same claim have added since the look.
PC == {"idle", "test", "stamp", "attest", "gate", "size", "release", "spawn"}
Proc == [pc : PC, who : 0..MaxClaims, head : Named, mixed : BOOLEAN, verify : Named,
         simplify : Attested, skipVerify : BOOLEAN, skipSimplify : BOOLEAN,
         big : BOOLEAN, since : Nat]
Idle == [pc |-> "idle", who |-> Operator, head |-> Never, mixed |-> FALSE, verify |-> Never,
         simplify |-> Unattested, skipVerify |-> FALSE, skipSimplify |-> FALSE,
         big |-> FALSE, since |-> 0]

Init ==
  /\ head = 0 /\ made = 0 /\ dirty = FALSE
  /\ good = {0} /\ large = {}    \* the tests passed where the plan began
  /\ claim = NoClaim /\ minted = 0
  /\ tasks = 0
  /\ proc = [c \in Command |-> Idle]

Runs(c, pc) == proc[c].pc = pc
Goes(c, p)  == proc' = [proc EXCEPT ![c] = p]
Ends(c)     == Goes(c, Idle)
Starts(pc, who) == [Idle EXCEPT !.pc = pc, !.who = who]

\* The compare-and-set of every write a token guards.
Held(who) == who # Operator /\ claim.token = who
Holds(c) == Held(proc[c].who)

-----------------------------------------------------------------------------
(* Around the commands                                                       *)

\* Files are edited, stashed or checked out, or HEAD is reset: tests that run then
\* have seen more than one tree.
ChangesCheckout ==
  /\ head' \in 0..made /\ dirty' \in BOOLEAN /\ <<head, dirty>>' # <<head, dirty>>
  /\ proc' = [c \in Command |-> IF Runs(c, "test") THEN [proc[c] EXCEPT !.mixed = TRUE] ELSE proc[c]]
  /\ UNCHANGED <<made, good, large, claim, minted, tasks>>

\* The worker, one of its agents or another plan of the project commits what the
\* checkout has, or a part of it.
Commits ==
  /\ dirty /\ made + 1 \in Sha
  /\ made' = made + 1 /\ head' = made'
  /\ dirty' \in BOOLEAN
  /\ good' \in {good, good \cup {made'}}
  /\ large' \in {large, large \cup {made'}}
  /\ UNCHANGED <<claim, minted, tasks, proc>>

\* Plausible bug: tokens counted from 0, which says there is no claim.
NewClaimZero(t) == [NoClaim EXCEPT !.token = t - 1, !.simplify.by = 1]
NewClaim(t) == [NoClaim EXCEPT !.token = t]
Dispatches ==
  /\ claim = NoClaim /\ minted < MaxClaims
  /\ minted' = minted + 1
  /\ claim' = NewClaim(minted')
  /\ UNCHANGED <<repo, tasks, proc>>

\* A lease that ended, a worker taken for dead, `clu release --force`.
LosesClaim ==
  /\ claim # NoClaim /\ claim' = NoClaim
  /\ UNCHANGED <<repo, minted, tasks, proc>>

\* The command is interrupted, times out or cannot get the database.
Fails(c) ==
  /\ ~Runs(c, "idle") /\ Ends(c)
  /\ UNCHANGED <<repo, claim, minted, tasks>>

-----------------------------------------------------------------------------
(* clu verify                                                                *)

\* The token is looked at and HEAD resolved before the tests start; nobody asks
\* whether the checkout is clean.
VerifyStarts(c, who) ==
  /\ Runs(c, "idle")
  /\ who = Operator \/ Held(who)
  /\ Goes(c, [Starts("test", who) EXCEPT !.head = head, !.mixed = dirty])
  /\ UNCHANGED <<repo, claim, minted, tasks>>

\* The tests read the tree they find, which may be no commit's.
Verdicts(c) == IF proc[c].mixed THEN BOOLEAN ELSE {head \in good}
TestsRun(c) ==
  /\ Runs(c, "test")
  /\ \/ TRUE \in Verdicts(c) /\ Goes(c, [proc[c] EXCEPT !.pc = "stamp"])
     \/ FALSE \in Verdicts(c) /\ Ends(c)
  /\ UNCHANGED <<repo, claim, minted, tasks>>

\* A worker's stamp needs its claim; the operator's goes to whatever claim is live.
MayStamp(c) == IF proc[c].who = Operator THEN claim # NoClaim ELSE Holds(c)
\* Plausible bug: HEAD is resolved when the tests have ended.
VerifiedShaLate(c) == head
VerifiedSha(c) == proc[c].head
VerifyStamps(c) ==
  /\ Runs(c, "stamp") /\ Ends(c)
  /\ claim' = IF MayStamp(c)
              THEN [claim EXCEPT !.verify = [sha |-> VerifiedSha(c), mixed |-> proc[c].mixed]]
              ELSE claim
  /\ UNCHANGED <<repo, minted, tasks>>

-----------------------------------------------------------------------------
(* clu attest --simplify                                                     *)

\* Whose command it is shows at the stamp.
AttestReads(c, who) ==
  /\ Runs(c, "idle") /\ who \in 1..minted
  /\ Goes(c, [Starts("attest", who) EXCEPT !.head = head])
  /\ UNCHANGED <<repo, claim, minted, tasks>>

AttestStamps(c) ==
  /\ Runs(c, "attest") /\ Ends(c)
  /\ claim' = IF Holds(c) THEN [claim EXCEPT !.simplify = [sha |-> proc[c].head, by |-> proc[c].who]]
              ELSE claim
  /\ UNCHANGED <<repo, minted, tasks>>

-----------------------------------------------------------------------------
(* clu complete: a snapshot, HEAD, the diff to HEAD and the release are four  *)
(* moments.  A refusal ends the command (its event, logged unless the claim   *)
(* has the stamp by then, is read by nobody here).                            *)

\* A project that does not require verify completes as with --skip-verify.
CompleteLooks(c, who) ==
  /\ Runs(c, "idle") /\ Held(who)
  /\ \E skipVerify, skipSimplify \in BOOLEAN :
       LET verify == IF skipVerify THEN Unverified ELSE claim.verify IN
       Goes(c, [Starts("gate", who) EXCEPT
                  !.verify = verify.sha, !.mixed = verify.mixed,
                  !.simplify = IF skipSimplify THEN Unattested ELSE claim.simplify,
                  !.skipVerify = skipVerify, !.skipSimplify = skipSimplify])
  /\ UNCHANGED <<repo, claim, minted, tasks>>

\* What git answers; Never when it fails.
GitSays(sha) == {sha, Never}
Names(stamped, sha) == stamped # Never /\ stamped = sha

PassesVerify(p, sha) == p.skipVerify \/ Names(p.verify, sha)
GateResolves(c) ==
  /\ Runs(c, "gate")
  /\ \E sha \in GitSays(head) :
       IF PassesVerify(proc[c], sha) THEN Goes(c, [proc[c] EXCEPT !.pc = "size", !.head = sha, !.verify = Never])
       ELSE Ends(c)
  /\ UNCHANGED <<repo, claim, minted, tasks>>

\* _claim_base_sha: a claim without a worktree has none, because nothing writes
\* the field head_sha_at_claim that would hold it.
HasBase == Worktree
\* _compute_phase_diff: a git that fails counts as no diff.
Large(sha) == HasBase /\ sha \in large
\* Plausible bug: any attestation of the claim will do.
PassesSimplifyStale(p, sha) == p.skipSimplify \/ ~Large(sha) \/ p.simplify.sha # Never
PassesSimplify(p, sha) == p.skipSimplify \/ ~Large(sha) \/ Names(p.simplify.sha, p.head)
GateMeasures(c) ==
  /\ Runs(c, "size")
  /\ \E sha \in GitSays(head) :
       LET big == sha \in large /\ ~proc[c].skipSimplify IN
       IF PassesSimplify(proc[c], sha)
       THEN Goes(c, [proc[c] EXCEPT !.pc = "release", !.big = big,
                                    !.simplify = IF big THEN @ ELSE Unattested])
       ELSE Ends(c)
  /\ UNCHANGED <<repo, claim, minted, tasks>>

\* The release, compare-and-set on the token; coolant, worktree cleanup and the tick
\* that follow are in PlanLifecycle and ShipArchive.
Completes(c) ==
  /\ Runs(c, "release") /\ Ends(c)
  /\ claim' = IF Holds(c) THEN NoClaim ELSE claim
  /\ UNCHANGED <<repo, minted, tasks>>

-----------------------------------------------------------------------------
(* clu spawn: the cap is asked of a snapshot, and the write asks for the      *)
(* claim alone.                                                              *)

SpawnLooks(c, who) ==
  /\ Runs(c, "idle") /\ Held(who)
  /\ tasks < Cap
  /\ Goes(c, Starts("spawn", who))
  /\ UNCHANGED <<repo, claim, minted, tasks>>

\* Plausible bug: the write trusts the look.
MaySpawnUnchecked(c) == TRUE
MaySpawn(c) == Holds(c)
SpawnWrites(c) ==
  /\ Runs(c, "spawn")
  /\ IF MaySpawn(c)
     THEN /\ tasks' = tasks + 1
          /\ proc' = [d \in Command |->
               IF d = c THEN Idle
               ELSE IF Runs(d, "spawn") /\ proc[d].who = proc[c].who
               THEN [proc[d] EXCEPT !.since = @ + 1] ELSE proc[d]]
     ELSE UNCHANGED tasks /\ Ends(c)
  /\ UNCHANGED <<repo, claim, minted>>

-----------------------------------------------------------------------------
Next ==
  \/ ChangesCheckout \/ Commits \/ Dispatches \/ LosesClaim
  \/ \E c \in Command, who \in 0..MaxClaims :
       VerifyStarts(c, who) \/ AttestReads(c, who) \/ CompleteLooks(c, who) \/ SpawnLooks(c, who)
  \/ \E c \in Command :
       \/ Fails(c) \/ TestsRun(c) \/ VerifyStamps(c) \/ AttestStamps(c)
       \/ GateResolves(c) \/ GateMeasures(c) \/ Completes(c) \/ SpawnWrites(c)

Spec == Init /\ [][Next]_vars

CommandsAlike == Permutations(Command)

-----------------------------------------------------------------------------
\* Every variable keeps its type.
TypeOK ==
  /\ made \in Sha /\ head \in 0..made /\ dirty \in BOOLEAN
  /\ good \subseteq 0..made /\ large \subseteq 0..made
  /\ claim \in Claim \cup {NoClaim}
  /\ minted \in 0..MaxClaims
  /\ tasks \in Nat
  /\ proc \in [Command -> Proc]

\* The cap of spawned tasks is the phase's, whoever holds its claim: a spawn goes
\* through only where the tasks, but for those its own claim has added since the
\* look, are under the cap.  What one worker's parallel calls add beyond it is the
\* hole, and a worker that has lost its claim adds nothing to its successor's.
OverrunsAreOwn ==
  [][\A c \in Command :
       (Runs(c, "spawn") /\ proc'[c] = Idle /\ tasks' # tasks)
         => tasks - proc[c].since < Cap]_vars

Ended(c) == Runs(c, "release") /\ Holds(c) /\ claim' = NoClaim /\ proc'[c] = Idle

\* A phase completed through the verify gate had a commit at its gate whose tests
\* pass, if nobody touched the checkout while they ran and it was clean before:
\* neither a commit made since, nor an earlier claim's verify, nor the operator's on
\* another claim, nor a HEAD that moved there and back lets another one through.
CompletedIsGood ==
  [][\A c \in Command :
       (Ended(c) /\ ~proc[c].skipVerify /\ ~proc[c].mixed) => proc[c].head \in good]_vars

\* A phase whose diff is large where the gate measures it is completed only when this
\* claim's own worker has attested to the commit the gate saw: not to an earlier one,
\* nor a predecessor's worker.  (A diff that git cannot make passes for small.)
LargeIsAttested ==
  [][\A c \in Command :
       (Ended(c) /\ proc[c].big)
         => proc[c].simplify = [sha |-> proc[c].head, by |-> proc[c].who]]_vars
=============================================================================
