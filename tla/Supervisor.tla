----------------------------- MODULE Supervisor -----------------------------
(***************************************************************************)
(* supervisor.tick and dispatch.dispatch_for_tick: the processes that drive *)
(* one plan.  Nothing excludes two of them from working on the same plan at *)
(* once (cron's tick-all, the tick a worker callback pushes), so a tick is  *)
(*                                                                          *)
(*   decide    one read transaction and a decision, holding no lock         *)
(*   apply     the decision is written, if what it rested on still holds    *)
(*   reap      kill the worker of a claim whose lease ran out               *)
(*   dispatch  spawn the worker of the claim just made                      *)
(*   fastfail  wait two seconds for it, then stamp its pid                  *)
(*                                                                          *)
(* The snapshot and the probes of ps and of the clock that follow it are    *)
(* one step: a dead worker stays dead and a lease that lapsed lapses again  *)
(* only through a new lease_expires, which the preconditions notice.        *)
(***************************************************************************)
EXTENDS PlanStore

CONSTANTS
  Ticker,            \* processes that may tick this plan
  MaxAttempts,       \* config.max_attempts_per_phase
  MaxInterventions   \* bound: interventions of the environment, see budget

ASSUME MaxAttemptsAssumption == MaxAttempts \in Nat \ {0}
ASSUME MaxInterventionsAssumption == MaxInterventions \in Nat

VARIABLES
  tick,      \* per ticker: how far it is, and what it carries
  worker,    \* per token: the process spawned for it
  budget     \* interventions left: operator commands, crashes, quota deaths

Tick == [pc : {"idle", "decided", "reap", "dispatch", "fastfail"},
         phase : 0..NumPhases,   \* TickResult.phase_id
         token : 0..MaxClaims,   \* TickResult.token, or the pid to reap
         pre : Preconditions, delta : Delta]
IdleTick == [pc |-> "idle", phase |-> 0, token |-> 0, pre |-> NoPre, delta |-> NoDelta]
At(k, pc) == tick[k].pc = pc

ProcessState == {"none", "alive", "dead"}
Kill(t) == IF t = 0 THEN worker ELSE [worker EXCEPT ![t] = "dead"]

SupervisorInit ==
  /\ tick = [k \in Ticker |-> IdleTick]
  /\ worker = [t \in Token |-> "none"]
  /\ budget = MaxInterventions

Spend(n) == budget >= n /\ budget' = budget - n

\* quota.classify_log_tail reads the log the pid stamp recorded; a match
\* forgives the attempt.  Each forgiven attempt is charged to the budget.
QuotaDeath(forgiven, t, p) == IF forgiven THEN {Ev("quota_death", p, t)} ELSE {}
ClaimDeath(forgiven) ==
  /\ forgiven => claim.pid # 0
  /\ Spend(IF forgiven THEN 1 ELSE 0)

-----------------------------------------------------------------------------
(* Decide                                                                   *)

Decide(k, pre, delta, pid) ==
  /\ At(k, "idle")
  /\ tick' = [tick EXCEPT ![k] = [pc |-> "decided", phase |-> delta.start,
                                  token |-> pid, pre |-> pre, delta |-> delta]]
  /\ UNCHANGED <<storeVars, worker>>

\* Plausible bug: only claims that got as far as a pid are looked at.
ClaimLapsedIfStamped == Claimed /\ claim.pid # 0 /\ claim.expired
ClaimLapsed == Claimed /\ claim.expired
WorkerGone  == Claimed /\ claim.pid # 0 /\ worker[claim.pid] # "alive"
Watchdog    == ClaimLapsed \/ WorkerGone
ReleaseDelta(forgiven) ==
  [NoDelta EXCEPT !.release = TRUE,
                  !.events = {Note} \cup QuotaDeath(forgiven, claim.token, claim.phase)]

\* Plausible bug: the release rests on the claim but not on its lease.
TickLeaseExpiredUnconditional(k) ==
  /\ ClaimLapsed
  /\ Decide(k, [NoPre EXCEPT !.claim = SeenClaim], ReleaseDelta(FALSE), claim.pid)
  /\ UNCHANGED budget

TickLeaseExpired(k) ==
  /\ ClaimLapsed
  /\ \E forgiven \in BOOLEAN :
       /\ ClaimDeath(forgiven)
       /\ Decide(k, [NoPre EXCEPT !.claim = SeenClaim, !.lease = SeenLease],
                 ReleaseDelta(forgiven), claim.pid)

TickWorkerDead(k) ==
  /\ WorkerGone /\ ~ClaimLapsed
  /\ \E forgiven \in BOOLEAN :
       /\ ClaimDeath(forgiven)
       /\ Decide(k, [NoPre EXCEPT !.claim = SeenClaim], ReleaseDelta(forgiven), 0)

\* A question older than its SLA, outside quiet hours, pauses the plan.
TickEscalate(k) ==
  /\ ~Watchdog /\ status # "paused"
  /\ \E b \in OpenBlockers :
       Decide(k, [NoPre EXCEPT !.blockers = SeenBlockers({b}), !.status = SeenStatus],
              [NoDelta EXCEPT !.status = "paused", !.events = {Note}], 0)
  /\ UNCHANGED budget

AnsweredBlockers == {b \in DOMAIN blockers : blockers[b].state = "answered"}

\* Plausible bug: a paused plan is skipped before its answers are looked at.
TickConsumeIfRunning(k) ==
  /\ ~Watchdog /\ AnsweredBlockers # {} /\ status = "running"
  /\ Decide(k, [NoPre EXCEPT !.blockers = SeenBlockers(AnsweredBlockers),
                             !.status = SeenStatus],
            [NoDelta EXCEPT !.consume = AnsweredBlockers, !.status = "running",
                            !.events = {Note}], 0)
  /\ UNCHANGED budget

TickConsume(k) ==
  /\ ~Watchdog /\ AnsweredBlockers # {}
  /\ Decide(k, [NoPre EXCEPT !.blockers = SeenBlockers(AnsweredBlockers),
                             !.status = SeenStatus],
            [NoDelta EXCEPT !.consume = AnsweredBlockers, !.status = "running",
                            !.events = {Note}], 0)
  /\ UNCHANGED budget

\* Plausible bug: a question stops only the phase that asked it.
DispatchablePastQuestions == status = "running" /\ ~Claimed /\ AnsweredBlockers = {}

\* The rest of the chain is reached by a running plan with neither a claim nor
\* an unconsumed question.
Dispatchable ==
  /\ status = "running" /\ ~Claimed
  /\ OpenBlockers = {} /\ AnsweredBlockers = {}

PhasesLeft == Phase \ completed
NextPhase  == CHOOSE p \in PhasesLeft : \A q \in PhasesLeft : p <= q

\* Plausible bug: the log may have moved since the snapshot.
WholeButLog == [NoPre EXCEPT !.claim = SeenClaim, !.status = SeenStatus]

\* What halting, dispatching and finishing rest on.
Whole == [NoPre EXCEPT !.claim = SeenClaim, !.maxEvent = SeenLog, !.status = SeenStatus]

\* Plausible bug: the halt wants one attempt more than the budget has.
TickHaltOneLate(k) ==
  /\ Dispatchable /\ PhasesLeft # {}
  /\ AttemptsForPhase(NextPhase) > MaxAttempts
  /\ Decide(k, Whole, [NoDelta EXCEPT !.status = "halted", !.events = {Note}], 0)
  /\ UNCHANGED budget

TickHalt(k) ==
  /\ Dispatchable /\ PhasesLeft # {}
  /\ AttemptsForPhase(NextPhase) >= MaxAttempts
  /\ Decide(k, Whole, [NoDelta EXCEPT !.status = "halted", !.events = {Note}], 0)
  /\ UNCHANGED budget

TickDispatch(k) ==
  /\ Dispatchable /\ PhasesLeft # {}
  /\ AttemptsForPhase(NextPhase) < MaxAttempts
  /\ minted < MaxClaims
  /\ Decide(k, Whole, [NoDelta EXCEPT !.start = NextPhase], 0)
  /\ UNCHANGED budget

\* Plausible bug: spawned tasks are forgotten.
TickDoneWithoutTasks(k) ==
  /\ Dispatchable /\ PhasesLeft = {}
  /\ Decide(k, Whole, [NoDelta EXCEPT !.status = "done", !.events = {Note}], 0)
  /\ UNCHANGED budget

TickDone(k) ==
  /\ Dispatchable /\ PhasesLeft = {} /\ PendingTasks = {}
  /\ Decide(k, Whole, [NoDelta EXCEPT !.status = "done", !.events = {Note}], 0)
  /\ UNCHANGED budget

TickDecides(k) ==
  \/ TickLeaseExpired(k) \/ TickWorkerDead(k) \/ TickEscalate(k) \/ TickConsume(k)
  \/ TickHalt(k) \/ TickDispatch(k) \/ TickDone(k)

-----------------------------------------------------------------------------
(* Apply                                                                    *)

Goto(k, pc, t) == tick' = [tick EXCEPT ![k] =
  IF pc = "idle" THEN IdleTick
  ELSE [IdleTick EXCEPT !.pc = pc, !.phase = tick[k].phase, !.token = t]]

AfterApply(k) ==
  \/ tick[k].delta.start # 0 /\ Goto(k, "dispatch", minted + 1)
  \/ /\ tick[k].delta.start = 0
     /\ Goto(k, IF tick[k].token = 0 THEN "idle" ELSE "reap", tick[k].token)

TickApplies(k) ==
  /\ At(k, "decided")
  /\ AssertPreconditions(tick[k].pre)
  /\ ApplyTickDelta(tick[k].delta)
  /\ AfterApply(k)
  /\ UNCHANGED <<worker, budget>>

\* TickConflict: nothing is written, the next tick derives everything again.
TickConflicts(k) ==
  /\ At(k, "decided")
  /\ ~AssertPreconditions(tick[k].pre)
  /\ Goto(k, "idle", 0)
  /\ UNCHANGED <<storeVars, worker, budget>>

\* _reap_and_record: after the commit, so the claim is long gone.
TickReaps(k) ==
  /\ At(k, "reap")
  /\ worker' = Kill(tick[k].token)
  /\ OpAppendEvents({Note})
  /\ Goto(k, "idle", 0)
  /\ UNCHANGED budget

-----------------------------------------------------------------------------
(* Dispatch                                                                 *)

\* The claim goes only if it is still this dispatch's; the events are logged
\* either way.
ReleaseRecording(k, evts) ==
  \/ OpReleaseClaim(tick[k].token, tick[k].phase, evts)
  \/ ~Holds(tick[k].token, tick[k].phase) /\ OpAppendEvents(evts)

PauseRecording(k, evts) ==
  OpSetStatus("paused", evts, Holds(tick[k].token, tick[k].phase))

\* No dispatch.command, or Popen found no directory to run in.
DispatchFails(k) ==
  /\ At(k, "dispatch")
  /\ ReleaseRecording(k, {Note})
  /\ Goto(k, "idle", 0)
  /\ UNCHANGED <<worker, budget>>

\* worktree_missing is an event no reader of the log looks for.
DispatchNoWorktree(k) ==
  /\ At(k, "dispatch")
  /\ PauseRecording(k, {Note})
  /\ Goto(k, "idle", 0)
  /\ UNCHANGED <<worker, budget>>

DispatchSpawns(k) ==
  /\ At(k, "dispatch")
  /\ worker' = [worker EXCEPT ![tick[k].token] = "alive"]
  /\ Goto(k, "fastfail", tick[k].token)
  /\ UNCHANGED <<storeVars, budget>>

\* The worker exited with an error within the wait.
FastFails(k) ==
  /\ At(k, "fastfail") /\ worker[tick[k].token] = "dead"
  /\ LET of == tick[k] IN
     \/ /\ Spend(1)
        /\ ReleaseRecording(k, QuotaDeath(TRUE, of.token, of.phase))
     \/ /\ PauseRecording(k, {Ev("systemic_failure", of.phase, of.token)})
        /\ UNCHANGED budget
     \/ /\ ReleaseRecording(k, {Note})
        /\ UNCHANGED budget
  /\ Goto(k, "idle", 0)
  /\ UNCHANGED worker

\* It runs on, or exited with 0.  A claim that moved meanwhile is not stamped.
StampPid(k) ==
  /\ At(k, "fastfail")
  /\ \/ OpStampPid(tick[k].token)
     \/ claim.token # tick[k].token /\ UNCHANGED storeVars
  /\ Goto(k, "idle", 0)
  /\ UNCHANGED <<worker, budget>>

-----------------------------------------------------------------------------
\* The ticking process dies, or a transaction fails for a reason of its own
\* (a database busy beyond its timeout): what it carried is lost.
TickCrashes(k) ==
  /\ ~At(k, "idle")
  /\ Spend(1)
  /\ Goto(k, "idle", 0)
  /\ UNCHANGED <<storeVars, worker>>

TickProceeds(k) ==
  \/ TickDecides(k) \/ TickApplies(k) \/ TickConflicts(k) \/ TickReaps(k)
  \/ DispatchFails(k) \/ DispatchNoWorktree(k) \/ DispatchSpawns(k)
  \/ FastFails(k) \/ StampPid(k)

SupervisorTypeOK ==
  /\ tick \in [Ticker -> Tick]
  /\ worker \in [Token -> ProcessState]
  /\ budget \in 0..MaxInterventions
=============================================================================
