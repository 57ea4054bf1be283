--------------------------- MODULE PlanLifecycle ---------------------------
(***************************************************************************)
(* One plan of clu and everyone who writes to it: the tickers of module     *)
(* Supervisor, the workers they spawn (cli.py's worker callbacks), the      *)
(* heartbeat daemon each worker leaves behind, the operator's commands, and *)
(* the passing of time.                                                     *)
(***************************************************************************)
EXTENDS Supervisor

CONSTANTS
  MaxBlockers,   \* bound: questions a behaviour may ask
  MaxTasks       \* bound: tasks a behaviour may spawn

ASSUME MaxBlockersAssumption == MaxBlockers \in Nat
ASSUME MaxTasksAssumption == MaxTasks \in Nat

VARIABLE op   \* the operator's command between its snapshot and its write

vars == <<storeVars, tick, worker, budget, op>>

Command == {"none", "pause", "resume", "retry", "release", "force_complete", "extend"}
Op == [cmd : Command, phase : 0..NumPhases,
       token : 0..MaxClaims,    \* the claim the snapshot showed, 0 if none
       kill : 0..MaxClaims,     \* its pid, until the process group is reaped
       reset : BOOLEAN]         \* --reset-attempts
NoOp == [cmd |-> "none", phase |-> 0, token |-> 0, kill |-> 0, reset |-> FALSE]

Init ==
  /\ StoreInit
  /\ SupervisorInit
  /\ op = NoOp

-----------------------------------------------------------------------------
(* Worker callbacks: each one's snapshot only serves its messages, the write *)
(* is a compare-and-set on the worker's own token and phase.                 *)

Alive(t) == worker[t] = "alive"
WorkerOnly == UNCHANGED <<tick, worker, budget, op>>

WorkerCompletes(t) ==
  /\ Alive(t)
  /\ OpReleaseClaim(t, claim.phase, {Ev("phase_completed", claim.phase, 0)})
  /\ WorkerOnly

WorkerBlocks(t) ==
  /\ Alive(t)
  /\ Len(blockers) < MaxBlockers
  /\ OpAddBlocker(t, claim.phase)
  /\ WorkerOnly

WorkerSpawnsTask(t) ==
  /\ Alive(t)
  /\ Len(tasks) < MaxTasks
  /\ OpSpawnTask(t, claim.phase)
  /\ WorkerOnly

\* clu task-done with a token: the token must hold the phase that spawned it.
WorkerFinishesTask(t) ==
  /\ Alive(t)
  /\ \E i \in PendingTasks : Holds(t, tasks[i].phase) /\ OpCompleteTask(i)
  /\ WorkerOnly

WorkerDies(t) ==
  /\ Alive(t)
  /\ worker' = Kill(t)
  /\ UNCHANGED <<storeVars, tick, budget, op>>

\* clu notify-worker-dead, from the heartbeat daemon the worker left behind.
DaemonReportsDeath(t) ==
  /\ worker[t] = "dead"
  /\ \E forgiven \in BOOLEAN :
       /\ ClaimDeath(forgiven)
       /\ OpReleaseClaim(t, claim.phase,
                         {Note} \cup QuotaDeath(forgiven, t, claim.phase))
  /\ UNCHANGED <<tick, worker, op>>

LeaseRunsOut ==
  /\ Claimed /\ ~claim.expired
  /\ claim' = [claim EXCEPT !.expired = TRUE]
  /\ UNCHANGED <<status, minted, maxEvent, completed, spent, blockers, tasks>>
  /\ UNCHANGED <<tick, worker, budget, op>>

\* The watchdog notices, the metadata stamps and every other writer of events
\* no decision reads.
SomeoneLogs ==
  /\ Spend(1)
  /\ OpAppendEvents({Note})
  /\ UNCHANGED <<tick, worker, op>>

-----------------------------------------------------------------------------
(* Operator commands: each looks at a snapshot, and its write does not ask   *)
(* again.  One command is under way at a time.                               *)

Looks(command) ==
  /\ op = NoOp
  /\ Spend(1)
  /\ op' = command
  /\ UNCHANGED <<storeVars, tick, worker>>

LooksToPause == status \notin {"done", "paused"} /\ Looks([NoOp EXCEPT !.cmd = "pause"])
LooksToResume == status = "paused" /\ Looks([NoOp EXCEPT !.cmd = "resume"])
LooksToRetry(p) ==
  status # "done" /\ Looks([NoOp EXCEPT !.cmd = "retry", !.phase = p])
LooksToExtend ==
  Claimed /\ Looks([NoOp EXCEPT !.cmd = "extend", !.phase = claim.phase])

\* Without --force the claim must be stale or the plan not running; a heartbeat
\* may be of any age, so the model has no state this excludes.
LooksToRelease ==
  /\ Claimed
  /\ \E reset \in BOOLEAN :
       Looks([cmd |-> "release", phase |-> claim.phase, token |-> claim.token,
              kill |-> claim.pid, reset |-> reset])

LooksToForceComplete(p) ==
  /\ p \notin completed
  /\ LET its == Claimed /\ claim.phase = p IN
     Looks([NoOp EXCEPT !.cmd = "force_complete", !.phase = p,
                        !.token = IF its THEN claim.token ELSE 0,
                        !.kill = IF its THEN claim.pid ELSE 0])

\* st.reap_orphan_pgroup, for seconds and with no lock held.
OperatorReaps ==
  /\ op.kill # 0
  /\ worker' = Kill(op.kill)
  /\ op' = [op EXCEPT !.kill = 0]
  /\ UNCHANGED <<storeVars, tick, budget>>

Writes(cmd) ==
  /\ op.cmd = cmd /\ op.kill = 0
  /\ op' = NoOp
  /\ UNCHANGED <<tick, worker, budget>>

WritesPause  == Writes("pause") /\ OpSetStatus("paused", {Note}, FALSE)
WritesResume == Writes("resume") /\ OpSetStatus("running", {Note}, FALSE)
WritesRetry  ==
  Writes("retry") /\ OpSetStatus("running", {Ev("retry_requested", op.phase, 0)}, FALSE)
WritesExtend ==
  /\ Writes("extend")
  /\ \/ OpExtendLease(op.phase)
     \/ claim.phase # op.phase /\ UNCHANGED storeVars
WritesRelease ==
  /\ Writes("release")
  /\ OpReleaseAnyClaim({Note} \cup IF op.reset THEN {Ev("attempts_reset", op.phase, 0)}
                                              ELSE {})
WritesForceComplete ==
  /\ Writes("force_complete")
  /\ LET evts == {Ev("phase_completed", op.phase, 0)} IN
     IF op.token # 0 THEN OpReleaseAnyClaim(evts) ELSE OpAppendEvents(evts)

OperatorAnswers ==
  /\ \E b \in OpenBlockers : OpAnswerBlocker(b)
  /\ UNCHANGED <<tick, worker, budget, op>>

\* clu task-done --force
OperatorFinishesTask ==
  /\ \E i \in PendingTasks : OpCompleteTask(i)
  /\ UNCHANGED <<tick, worker, budget, op>>

OperatorActs ==
  \/ LooksToPause \/ LooksToResume \/ LooksToExtend \/ LooksToRelease
  \/ \E p \in Phase : LooksToRetry(p) \/ LooksToForceComplete(p)
  \/ OperatorReaps
  \/ WritesPause \/ WritesResume \/ WritesRetry \/ WritesExtend
  \/ WritesRelease \/ WritesForceComplete
  \/ OperatorAnswers \/ OperatorFinishesTask

-----------------------------------------------------------------------------
WorkerActs(t) ==
  \/ WorkerCompletes(t) \/ WorkerBlocks(t) \/ WorkerSpawnsTask(t)
  \/ WorkerFinishesTask(t) \/ WorkerDies(t) \/ DaemonReportsDeath(t)

TickerActs(k) == TickProceeds(k) /\ UNCHANGED op
TickerCrashes(k) == TickCrashes(k) /\ UNCHANGED op

Next ==
  \/ \E k \in Ticker : TickerActs(k) \/ TickerCrashes(k)
  \/ \E t \in Token : WorkerActs(t)
  \/ OperatorActs
  \/ LeaseRunsOut \/ SomeoneLogs

Spec == Init /\ [][Next]_vars

\* Cron ticks every plan every 30 seconds and a tick always ends; a lease is a
\* deadline.  Workers, their daemons and the operator owe nobody anything.
Fairness == WF_vars(LeaseRunsOut) /\ \A k \in Ticker : WF_vars(TickerActs(k))
FairSpec == Spec /\ Fairness

-----------------------------------------------------------------------------
(* What the plan's data looks like at every moment                          *)

\* Every variable keeps its type, and the watchdog's bounds hold.
TypeOK == StoreTypeOK /\ SupervisorTypeOK /\ op \in Op

\* A claim carries no pid but that of the worker spawned for its own token,
\* though dispatchers stamp pids seconds after the claim they made may have
\* gone to somebody else (dispatch._stamp_pid).
PidBelongsToClaim == claim.pid \in {0, claim.token}

\* No phase is ever charged more attempts than max_attempts_per_phase, with any
\* number of tickers dispatching, dying and being forgiven at once.
BudgetRespected == \A p \in Phase : AttemptsForPhase(p) <= MaxAttempts

\* A plan that halted or finished has no worker in charge of a phase and no
\* question the operator has yet to answer: a verdict derived before a claim
\* or a question appeared is never written after it.
QuietWhenFinished ==
  status \in {"halted", "done"} => ~Claimed /\ OpenBlockers = {}

\* plan_completed is true when it is written and stays true: every phase is
\* completed and no spawned task is pending.
DoneMeansFinished == status = "done" => PhasesLeft = {} /\ PendingTasks = {}

\* A verdict is a decision to start a phase, to halt or to finish the plan.
Verdict(k) == /\ At(k, "decided")
              /\ tick[k].delta.start # 0 \/ tick[k].delta.status \in {"halted", "done"}
RightNow(delta) ==
  /\ OpenBlockers = {} /\ AnsweredBlockers = {}
  /\ delta.start # 0 => /\ PhasesLeft # {} /\ delta.start = NextPhase
                        /\ AttemptsForPhase(NextPhase) < MaxAttempts
  /\ delta.status = "halted" => /\ PhasesLeft # {}
                                /\ AttemptsForPhase(NextPhase) >= MaxAttempts
  /\ delta.status = "done" => PhasesLeft = {} /\ PendingTasks = {}

\* The log is a clock for everything a verdict rests on: whatever others did
\* since the snapshot, as long as no event was added the verdict would be
\* reached again, so checking MAX(events.id) and the claim at the write is
\* enough (TickPreconditions, plan_store.py).
VerdictsRestOnLog ==
  \A k \in Ticker : Verdict(k) =>
    /\ tick[k].pre.claim = {<<0, 0>>} /\ tick[k].pre.status = {"running"}
    /\ tick[k].pre.maxEvent # {}
    /\ \A m \in tick[k].pre.maxEvent : m <= maxEvent
    /\ maxEvent \in tick[k].pre.maxEvent => RightNow(tick[k].delta)

-----------------------------------------------------------------------------
(* What a step may never do                                                 *)

\* A phase starts only while the plan runs, when every phase before it is
\* completed, it is not, nobody holds the plan and every question asked was
\* answered and consumed; all of that at the moment of the claim, however old
\* the snapshot is that the dispatch was decided on.
Starts(p) == minted' # minted /\ claim'.phase = p
StartsOnlyOpenPhase ==
  [][\A p \in Phase : Starts(p) =>
       /\ status = "running" /\ ~Claimed
       /\ p \notin completed /\ 1..(p - 1) \subseteq completed
       /\ OpenBlockers = {} /\ AnsweredBlockers = {}]_vars

\* The plan halts only if the phase it is stuck on has spent its attempts at
\* the moment of the halt: a retry or a reset that came between the decision
\* and the write is not overrun.
HaltsOnlyWhenSpent ==
  [][status # "halted" /\ status' = "halted" =>
       PhasesLeft # {} /\ AttemptsForPhase(NextPhase) >= MaxAttempts]_vars

\* No step of a tick or a dispatch takes the claim of a worker that is alive
\* and within its lease: an extension that lands between the decision to
\* release and the release saves the worker.
LiveClaimSurvivesTicks ==
  [][tick' # tick /\ Claimed /\ worker[claim.token] = "alive" /\ ~claim.expired
       => claim'.token = claim.token]_vars

-----------------------------------------------------------------------------
(* The plan seen from outside                                               *)

Unconsumed == {b \in DOMAIN blockers : blockers[b].state # "consumed"}

Ledger == INSTANCE PlanLedger
  WITH done <- completed, current <- claim.phase, mode <- status,
       waiting <- Unconsumed

\* The processes above, with all their stale snapshots, implement PlanLedger:
\* one lane, in the order of the plan file, stopped by questions.
ImplementsLedger == Ledger!Spec

-----------------------------------------------------------------------------
(* What must eventually happen                                              *)

\* Whatever becomes of its worker, its daemon or the ticker that made it, a
\* claim is given up: the lease is the backstop of every failure.
ClaimsEnd == \A t \in Token : claim.token = t ~> claim.token # t

\* A running plan is never left standing: it ends, or waits for somebody it
\* has asked (a question, a pending task, an operator).
RunningPlansMove ==
  status = "running" ~>
    \/ status # "running" \/ OpenBlockers # {} \/ PendingTasks # {}
    \/ minted = MaxClaims

\* An operator's answer always reaches the plan.
AnswersAreConsumed ==
  \A b \in 1..MaxBlockers :
    (b \in DOMAIN blockers /\ blockers[b].state = "answered")
      ~> (b \in DOMAIN blockers /\ blockers[b].state = "consumed")
=============================================================================
