# clu, modelled and proved

clu (`end_of_line/`) runs long plans unattended: a plan file lists phases, and
clu starts one worker process per phase, watches it, releases what died, asks
the operator what only a person can decide, and moves on. There is no server.
Everything happens in short-lived processes - cron's `clu tick-all` every 30
seconds, the tick a worker callback pushes, the callbacks themselves, a
heartbeat daemon per worker, the operator's commands - that share one SQLite
database per project and nothing else. This directory holds TLA+ models of that
coordination, the TLC runs that check them and the theorems TLAPS proves about
them.

Run a check with `tlc -config lifecycle_races.cfg MCPlanLifecycle.tla`, a proof
with `tlapm PlanLifecycle_proofs.tla`.

## 1. The system

| Component | State it keeps | Operations | What is hard about it | What makes it correct |
|---|---|---|---|---|
| Plan store (`plan_store.py`, `state.py`, `db.py`) | per plan: status, at most one claim, event log, blockers, spawned tasks | one `BEGIN IMMEDIATE` transaction per `op_...`; `snapshot_with_preconditions` and `apply_tick_delta` | every caller's snapshot is stale by the time it writes; token compare-and-set in some operations, nothing in others | a write that rests on a fact asks again for that fact, or for something that cannot stay the same when the fact changes |
| Supervisor tick (`supervisor.py`) | none of its own between ticks | decide, apply, reap | decides for seconds (`ps`, `kill`) while holding no lock; several ticks of one plan run at once | no stale verdict is written; the attempt budget; a live claim is left alone |
| Dispatcher (`dispatch.py`) | log file, child process | spawn, wait two seconds, stamp the pid, or give the claim back | the claim it works for may be gone at each of its writes | no attempt of a worker goes unaccounted, no pid lands on another claim |
| Worker callbacks (`cli.py`) | none | `complete`, `block`, `spawn`, `task-done`, `verify`, `attest` | arrive from a worker whose claim was taken | only the holder of the claim changes the plan |
| Heartbeat daemon (`heartbeat_daemon.py`) | strikes | ping the worker, heartbeat, `notify-worker-dead` | races the supervisor's own dead-pid probe | a death is charged once |
| Operator commands (`cli.py`) | none | `pause`, `resume`, `retry`, `extend-lease`, `release-claim`, `force-complete`, `answer`, `unregister`, `archive` | look first, write later, mostly without asking again | a command does what it said when it looked |
| Quota gate (`quota.py`) | one pause row per project | record a quota death, gate, canary | many plans' ticks ask at once; the canary may vanish | one probe at a time, and the pause always ends |
| Plan queue, registry, `tick-all`, zombie sweep (`queue.py`, `registry.py`, `cross_plan_rules.py`) | queue and history in the project database, registry in the host's | insert, pop, absorb, register, sweep | two databases, so two transactions and a crash between them | a queued plan runs once, and none is lost |
| Watchdog emitters and inbox (`supervisor.py`, `inbox.py`, `activity_hook.py`) | markers, samples and spans on the claim, notices | stalled claim, stuck tool, idle worker, stalled phase; `activity`, `quiet-span` | a tick measures for seconds what the worker changes meanwhile; two ticks judge one worker | a notice is given once, is true when it is written, and is given |
| Worker gates (`cli.py`, `plan_store.py`) | attestations on the claim | `verify`, `attest`, the gates of `complete`, the cap of `spawn` | tests run for minutes while HEAD and the claim move; the gate reads a snapshot | what completes was verified, and attested if it measured large, at the head the gate saw; the cap is the phase's, whoever holds it |
| Event log, archive, watch (`plan_store.py`, `watch.py`, `fleet.py`) | events, archived events, a cursor and a connection per reader | append, archive, poll | rows of several plans share ids; a connection is asked only whether something changed; reads are refused | a reader sees each event once, in order, and sees it at all |
| Worktrees, ship, dry merge (`cli.py`, `cross_plan_rules.py`, `dry_merge.py`) | branches, worktrees, pull requests; ship markers on the plan | create, attach, collect, ship, archive; the rules of a tick | git is not transactional with the store: look, run git, write | no work is deleted that origin has not; no rule starves another |
| Notifications, dashboards, skills, demo, coolant, hooks | none that others read | I/O | - | - |

How they interact: the ticks, the callbacks and the commands meet in the plan
store only. A tick may spawn a worker (through the dispatcher) and kill one
(the reap). A worker's callback names its claim token. An answer, a retry or a
completed phase pushes a tick of its own, which is why ticks of one plan overlap.

The hazards this code lives with are listed, each at its line, in
`PROJECT.json`.

## 2. The modules

    PlanStore            the rows of one plan; one operator per transaction
      Supervisor         tick and dispatch, a program counter per ticking process
        PlanLifecycle    + workers, daemon, operator, clock: Init, Next, Spec, properties
          MCPlanLifecycle                        the instance TLC checks
          PlanLifecycle_proofs                   its safety, and that it implements
    PlanLedger           what a plan promises, seen from outside
                         (INSTANCE, WITH)
    Ranks                a finite set of integers in ascending order: ORDER BY id
      Ranks_proofs                               it leaves nothing out, and is the only one
    PlanQueue            one project: queue, registry, the end of tick-all, the sweep
      PlanQueue_proofs                           safety, and the refinement of
    QueueLine            what the queue promises, seen from outside;
                         PlanQueue implements it
    QuotaGate            one project's quota pause, its canary, the forgiven attempts
      QuotaGate_proofs                           its safety
    Watchdogs            one claim watched: samples, markers, notices, the daemon
      Watchdogs_proofs                           its safety
    WorkerGates          one phase: verify, attest, complete, spawn
      WorkerGates_proofs                         its safety
    ShipArchive          worktrees, git, ship, archive, and the rules of a tick
      ShipArchive_proofs                         its safety
    WatchStream          the event tables of several projects, and a stream on them
      MCWatchStream      the instance TLC checks
      WatchStream_proofs                         its safety
    ClaimTable           what a claim is, seen from outside; PlanLifecycle, PlanQueue,
                         QuotaGate, Watchdogs and WorkerGates implement it

The modules of the second half each take one state the core leaves out - the
project's pause, what the watchdogs know of a claim, its attestations, the
worktree, the log as rows - with the processes that race for it, and reduce the
plan's life to what bears on that state. Five modules have a claim with a token of
their own making, each as detailed as its properties need; `ClaimTable` is what a claim is to
all of them.

### PlanStore

Each `Op...` operator is one write transaction of `plan_store.py`: its guard is
the compare-and-set in the SQL, its primed variables are the columns it writes.
A transaction that finds its claim gone raises and writes nothing, so a failed
compare-and-set is an action that is not enabled, except where the caller goes
on to do something else; there the caller's action has that alternative.

The event log is kept as the three things the program derives from it: `maxEvent`
is `MAX(events.id)`, `completed` is `completed_phase_ids`, and `spent[p]` is the
set of claim tokens `attempts_for_phase` counts for phase `p`: those with a
`phase_started` since the last `retry_requested` or `attempts_reset`, without
those forgiven by `systemic_failure` or `quota_death`. Ids only grow, so one step
per transaction is as good as one per event.

`AssertPreconditions` and `ApplyTickDelta` are the two halves of
`apply_tick_delta`. A precondition is an option: the empty set is `UNCHECKED`.

### Supervisor

A tick walks `idle -> decided -> reap -> idle`, or `idle -> decided -> dispatch
-> fastfail -> idle`. `decide` takes the snapshot and runs the chain of rules of
`supervisor.tick` - lease, dead worker, SLA, answered questions, idle rules,
halt, dispatch, done - in the order of the code, as guards that exclude the
rules before them. What it decided is carried to `apply`, with its preconditions,
while every other process is free to run. `TickConflicts` is `TickConflict`.
Snapshot and probes are one step: a process that is dead stays dead, and a lease
changes only with `lease_expires`, which the preconditions cover.

The dispatcher's outcomes are actions of their own: it finds no command or no
directory to start in, finds no worktree, spawns, sees a fast failure (forgiven
as a quota death, forgiven as a systemic failure with a pause, or charged), or
stamps the pid. A ticker may crash anywhere between its steps.

### PlanLifecycle

A worker acts while its process lives, whether its claim is still there or not;
the compare-and-set decides. An operator command is two steps, three where a
process group is reaped in between (`release-claim`, `force-complete`), because
the write of most commands does not ask again what the look saw.

### PlanQueue

The plans of one project, each reduced to its status and claim, with `PlanStep`
standing for everything a tick does to one of them. A ticking process goes through
the end of `cmd_tick_all`: read the registry (`visited`), load the plans and look
for claims (the busy gate), read the head and choose the branch, then absorb,
abandon, or pop in two transactions and tick the new plan; then the archive rule
if the queue rule did nothing, and the sweep over `todo`, the plans of the
database that are not in `visited`. A plan that cannot be read is left out of the busy
gate, a head that cannot be read has no status and is judged by its plan file, frozen
or not, and a rule that raises takes the sweep with it (`MisreadsPlans`, `MisreadsHead`,
`TickFails`). `clu queue add` of a worker is four looks with gaps between them
(`WorkerQueueAdd`). A project-scoped tick (`cmd_tick`) does the
same without the sweep. Queue rows keep their ids, because the order of the line
is the order of ids that grow at one end and shrink at the other. Each gap between
two of these reads and writes is a gap another process may use; a crash may fall
into it.

### QuotaGate

A death is seen by a tick, a daemon or the dispatcher waiting for a fast failure;
from there the code makes three separate writes - the project's pause, the release
with the events that forgive the attempt - and each is a step, so a process can
die or be overtaken between them. The gate is two steps too: `AsksGate` is the
read that without a row means go, `GateDecides` the transaction that reads the row
again and judges it (`Judges`), and either may find a store or a field it cannot read, and dispatches (`GateDegrades`). `paused_until` and the canary's deadline are kept as the time
that is left; `Reset` is a time of day, and `UntilReset` is `parse_reset`'s next
occurrence of it.

### Watchdogs

A tick looks (`Decides`), and writes (`Applies`) if what it declared with
`require_claim_field` has not moved (`Requires`). Instead of copying the claim into
the tick, the model notes which of those fields have moved since the look; a
time stamp never returns to an old value, a marker that is cleared again is what
the tick saw. Ages are on one side of their threshold or the other. The run of
alike samples stands for the window, `busy` for a processor clock that moved.
`told` and `repeated` observe the log for the properties and guard nothing.

### WorkerGates

Commits of the phase are numbers; the tree of a commit may or may not pass the verify
command, and its diff to the base may or may not be large. HEAD moves to any commit, and
the checkout may be `dirty`: tests that find it so, or that are disturbed, say nothing of
a commit, and a stamp remembers it (`mixed`). Each command is the steps between which the
code holds nothing: `clu verify` resolves HEAD, runs the tests, and stamps; `clu complete`
reads the attestations, then HEAD (`GateResolves`), then the diff (`GateMeasures`), then
releases; git may fail in both of the middle ones, and a diff that fails is a small one.
Several commands of one worker run at a time, and go on after its claim was taken; the
operator verifies without a token.

### ShipArchive

A branch is known by its tip; main and origin/main by the tip of each branch that
they contain. `RunsRules` is `run_rules`: of conflict scan, gate, announcement
and archive the first that has something to do decides, on this tick's snapshot, and
its stamps are written plan by plan. An archive is the steps of
`_perform_archive`, each with its failure, whoever runs it - the rule, `clu
archive`, or the clean-up after a worker's `complete`. Removing a tree is three calls
of git (`RemovesTree`): each may be refused, which is noted and passed over, or take too
long, which raises with the call done or not. `Reachable` answers yes without asking
where git does not know origin's default branch (`DefaultKnown`). What a dry merge finds is
not kept, only that this set of tips was tried.

### WatchStream

Each project's `events` table gives out ids in order and never again; each plan's
rows may be archived away. The stream is the loop of `stream_loop`, a poll at a
time, with its frame-wide answer per project (`moved`) and its connection per project:
what `data_version` will say is `current` or `behind`, and `invalidated` is no
reading at all. A plan may be dropped because its store broke or because a row of
its own cannot be decoded (`Skips`, `Undecodable`); either closes the connection, and the
next plan of the project opens one with a reading of its own (`Opens`). `lines` and `start` observe what was printed.

### Abstractions

- One operator command is under way at a time; tickers, workers, daemons and
  the clock interleave with its steps.
- `MaxInterventions` bounds operator commands, crashes of a ticker, forgiven
  quota deaths and log entries of other writers, together. The other bounds are
  `MaxClaims`, `MaxBlockers` and `MaxTasks`, each a guard of the action that
  would pass it.
- The freshness of a heartbeat is not kept: where the code refuses a fresh claim
  (`release-claim` without `--force`) a stale one is always possible, so the
  guard has no state to exclude.
- `_release_recording`'s release and, when that is refused, its append are one
  step; nothing decides on what lies between.
- The project-wide quota pause is not part of this model; `RunningPlansMove`
  speaks of a project that is not paused.
- Unregistering and the zombie sweep are not part of `PlanLifecycle`: they end or
  replace a plan. They are in `PlanQueue`; archiving is in `ShipArchive`.
- `PlanQueue` leaves out the cap on a worker's adds, which only refuses. Only
  registered plans are walked, though `clu tick --plan` takes any. `MaxAdds`,
  `MaxCommands`, `MaxFaults` (crashes, rules that raise, reads that fail) and `MaxClaims`
  bound the environment.
- `QuotaGate` releases what a tick or a daemon sees dead without the supervisor's
  other rules; `MaxFaults` bounds crashes, busy and unreadable databases and operator
  clears together.
- `Watchdogs` has no question, no retry and no reset: the plan is running throughout.
- `WorkerGates` bounds the commands that run at a time (`Command`), whosever they are. A
  refusal ends the command; its event is not kept, because no process reads it. A
  project that does not require `verify` is one that always says `--skip-verify`.
  `since` and `big` observe for the properties and guard nothing.
- `ShipArchive`: plans are one batch; the operator runs one command at a time, and
  a failing call inside it is not counted against `MaxEvents`, which bounds commands,
  crashes and the tick's and worker's failing calls together. `DefaultKnown` does not
  change: nobody sets or loses origin's HEAD meanwhile.
- `WatchStream`: a broken store stays broken.

## 3. What is checked

`CHECK_DEADLOCK FALSE` stands in every configuration because a plan that is done
really stops.

| Run | Instance | Shows |
|---|---|---|
| `lifecycle_races` | 2 tickers (symmetric), 2 phases, 2 claims, 1 attempt, 1 question, 1 task, 1 intervention | the invariants and action properties below, and that `PlanLifecycle` implements `PlanLedger` |
| `lifecycle_liveness` | 2 tickers, 1 phase, 3 claims, 1 attempt, 1 question, 1 intervention | claims end, running plans move, answers are consumed |
| `queue_races` | a tick-all and a project tick, 2 plans, 2 adds, 1 claim, 1 fault | `PoppedPlansExist`, `SweepTakesOnlyZombies`, and that `PlanQueue` implements `QueueLine` |
| `queue_liveness` | 1 fair tick-all, 2 plans, 2 claims, 1 add, 1 operator command, 1 fault | the line moves, zombies end |
| `quota_gate` | 2 plans with a tick and a daemon each, 2 claims, 1 quota death, 1 fault, a day of 4 | the four properties of `QuotaGate` |
| `watchdogs` | 2 fair ticks, 1 claim, 2 tool calls or spans, 1 fault, window of 2 samples | notices are given once, and are current; a wedged worker is reported |
| `ship_archive` | 2 plans, 1 of them operated on, 1 commit each, 1 event, git knows origin's default branch | the six properties of `ShipArchive` |
| `watch` | 2 plans of one project and one of another, which may be refused or not decode, 3 + 1 rows, 1 fault or archival | the three properties of `WatchStream` |
| `worker_gates` | 2 commands at a time (symmetric), 2 claims, 1 commit besides the base, cap 1, an operator | the four properties of `WorkerGates`, for a plan with a worktree |
| `watch_retry` | as `watch`, but the plan that is refused has a sibling polled after it | finding 1 |
| `simplify_gate` | as `worker_gates`, but without a worktree | finding 2 |
| `ship_unresolved` | 1 plan, 1 commit, 2 events, git does not know origin's default branch | finding 3 |

Why the bounds are enough. A race needs two deciders and one intruder. Two phases
make "the next phase" mean something; a second claim is a retry or a second
phase, and what crosses claims (a stale pid, a stale token, an outliving daemon, a
predecessor's attestation) needs exactly two - but for the watchdogs, whose second claim,
made between a tick's look and its write, is left to the theorems `ToldOnce` and
`NoticesCurrent`. One intervention is any one of the
operator's commands, a crash, a forgiven death or a foreign log entry, at any moment.
In the queue one waiting plan and one that keeps the project registered make a
stale head for two ticks. The quota's day of 4 with a buffer and a window of 1 has
a moment before, at and after the reset and the deadline. A window of 2 samples has
a hole and a beginning. One commit moves a branch past its announcement and its
batch; two plans are the smallest batch, conflict and pair of archivals. In `watch`
rows of two plans interleave in one table; in `worker_gates` a base and one commit give HEAD
somewhere to go and to come back from between any two steps, and two commands are a verify or
a spawn beside another. The runs of `ShipArchive`, `QuotaGate`, `Watchdogs`
and `WatchStream` check safety and liveness on one instance.

The properties, each with the mutant of the code that breaks it:

- `VerdictsRestOnLog` - the argument behind the preconditions, as an invariant:
  as long as no event was logged since the snapshot, a verdict (start, halt,
  finish) would be reached again. Broken by one writer that changes what a
  verdict rests on and does not move `MAX(events.id)`.
- `BudgetRespected`, `QuietWhenFinished`, `HaltsOnlyWhenSpent` - broken if the
  verdicts' precondition on the log is dropped.
- `StartsOnlyOpenPhase` - one lane in file order, judged at the moment of the
  claim and not of the snapshot. Broken if a question stops only its own phase.
- `LiveClaimSurvivesTicks` - broken if the lapsed-lease release does not ask for
  the lease again.
- `PidBelongsToClaim` - broken if the pid stamp is not a compare-and-set.
- `DoneMeansFinished` - broken if the done rule forgets spawned tasks.
- `ImplementsLedger` - broken if `clu block` is two transactions.
- `ClaimsEnd`, `RunningPlansMove`, `AnswersAreConsumed` - broken if the lease rule
  looks only at stamped claims, if the halt is one attempt late, if answers are
  looked at only on a running plan.
- `PoppedPlansExist`, `ImplementsLine` - broken if a pop takes the head whatever it
  is by then.
- `SweepTakesOnlyZombies` - broken if the sweep's write does not ask for the claim.
- `OneProbe` - broken if the gate judges the row of its
  first read; `ForgivenWasRecorded` - if the release comes before the pause;
  `PausesEnd` - if a canary is let through before its window is looked at;
  `QuotaGate!TypeOK` - if a reset time that has passed is today's.
- `NoticeOnce`, `NoticesAreCurrent` - broken if the markers, or the samples, are not
  among what a tick's write requires; `WedgedIsReported` - if the active-tool marker
  suppresses for ever.
- `CompletedIsGood` - broken if HEAD is resolved after the tests; `LargeIsAttested` -
  if any attestation of the claim will do; `OverrunsAreOwn` - if the write of a spawn
  does not ask for the claim again. The first speaks of tests on a clean checkout that
  nobody disturbed; the second of a diff that was measured as large; the third lets
  one worker's parallel spawns pass the cap together, which the code does.
- `DeletedIsOnOrigin`, `UnregisteredIsShipped` - broken if local main counts as
  merged. `MergedIsArchived` says that a merged plan's file is committed to the archive and
  the plan is off the registry; the case in which that fails is part of it by name
  (`Stranded`: a fault or a command has taken the record the rule looks for). Liveness of the rules: `ReadyIsAnnounced` and `MergedIsArchived` break if an earlier rule forgets
  what it did (the gate, the announcement), `BatchIsTried` if a batch is tried once
  for good, `ConflictsAreMarked` if only the plan that warns is marked.
- `StreamIsTheLog` - broken if the cursor counts rows; `GateStaysOpen` - if a refused
  read keeps the reading that announced it; `NewsArrives` - if every plan asks
  `data_version` for itself.
- `LineMoves` - broken if a plan that exists already makes the pop fail;
  `ZombiesEnd` - if the sweep walks the registry.

### Fairness

`FairSpec` assumes that a lease that is not extended runs out (it is a time
stamp) and, for each ticker, that it proceeds when it can: cron starts a tick of
every registered plan every 30 seconds and a tick always ends. Nothing is assumed
of workers, of their daemons, of the operator, of crashes. With several tickers
weak fairness of each is enough because a conflict sends the loser back to a new
snapshot, and every conflict is somebody's write; the writes that are not ticks'
own are bounded. `PlanQueue`'s `FairSpec` assumes the same of its ticks, one process
standing for the succession of ticks cron starts, and nothing of the operator, of
workers, of crashes, or of the walk over the plans.

`QuotaGate` assumes that time passes and that every plan is ticked; `Watchdogs`
that its ticks come and end and that ages pass their thresholds, and nothing of
workers and daemons; `ShipArchive` that a tick runs its rules and
goes on to its end, and nothing of workers, operator or GitHub; `WatchStream` that
the stream polls. `WorkerGates` states no liveness: a worker owes none.

## 4. What is proved

Every theorem holds for every value of the constants: any number of tickers,
phases, claims, plans, rows, tasks, faults and interventions. The named assumptions on the
constants are their types, and that there is at least one of what there must be one of
(a phase, a claim, an attempt). Four theorems have a hypothesis of their own (the table
names it); they are false without it, and section 5 says why.

| Module | Theorem | Property |
|---|---|---|
| `PlanLifecycle_proofs` | `TypeCorrect` | `TypeOK` |
| | `VerdictsSound` | `VerdictsRestOnLog` |
| | `BudgetHolds` | `BudgetRespected` |
| | `FinishedIsQuiet` | `QuietWhenFinished` |
| | `DoneIsFinished` | `DoneMeansFinished` |
| | `PidIsOwn` | `PidBelongsToClaim` |
| | `StartsAreRight` | `StartsOnlyOpenPhase` |
| | `HaltsAreRight` | `HaltsOnlyWhenSpent` |
| | `KeepsLedger` | `ImplementsLedger` |
| | `LiveClaimsSurvive` | `LiveClaimSurvivesTicks` |
| | `KeepsClaims` | implements `ClaimTable` |
| `PlanQueue_proofs` | `TypeCorrect` | `TypeOK`: no id and no slug in two rows |
| | `PoppedHavePlans` | `PoppedPlansExist` |
| | `SweepsZombies` | `SweepTakesOnlyZombies` |
| | `Implements` | `ImplementsLine` |
| | `KeepsClaims` | implements `ClaimTable` |
| | `TokensAreOwn`, `OwnTokenMeansHeld` | a token is on one plan's claim, and never comes back to one |
| `QuotaGate_proofs` | `TypeCorrect` | `TypeOK` |
| | `OneGoesFirst` | `OneProbe` |
| | `ForgivenRecorded` | `ForgivenWasRecorded` |
| | `KeepsClaims` | implements `ClaimTable` |
| `Watchdogs_proofs` | `ToldOnce` | `NoticeOnce` |
| | `NoticesCurrent` | `NoticesAreCurrent` |
| | `KeepsClaims` | implements `ClaimTable` |
| `WorkerGates_proofs` | `TypeCorrect` | `TypeOK` |
| | `OverrunsOwn` | `OverrunsAreOwn` |
| | `CompletedGood` | `CompletedIsGood` |
| | `LargeAttested` | `LargeIsAttested`, if plans have worktrees |
| | `KeepsClaims` | implements `ClaimTable` |
| `WatchStream_proofs` | `LinesAreTheLog` | `StreamIsTheLog` |
| | `GateNeverShuts` | `GateStaysOpen`, if a plan that can be refused, or whose rows may not decode, is alone in its project |
| `ShipArchive_proofs` | `DeletedWasOnOrigin` | `DeletedIsOnOrigin`, if git knows origin's default branch |
| | `UnregisteredWasShipped` | `UnregisteredIsShipped`, if git knows origin's default branch |
| `Ranks_proofs` | `SortedRead`, `SortedReadIsUnique` | - |

Each `..._proofs` module but `Ranks_proofs` proves an invariant of its own
(`Inductive`) and takes the rest from it, because no property is inductive alone: a
process acts on what it saw some steps ago, and an invariant has to say what of that
is still true.

- `PlanLifecycle`. That the budget is respected after a claim is made follows from
  the decision having counted the attempts, on a snapshot that is gone. What bridges
  the two moments is `VerdictsRestOnLog`: a verdict carries `MAX(events.id)` as a
  precondition, and everything a verdict rests on changes only together with an
  event. `IInv` is therefore `TypeOK`, the shape of what a ticker carries
  (`DecisionShape`), `VerdictsRestOnLog` and the state invariants above. The proof
  splits the steps three ways: a decision (`InvDecide`) establishes the verdict's
  facts from its own guard; an apply (`InvApply`) uses them
  (`AppliedVerdictIsRight`); and every other step is `Mild` (`StepKinds`): it mints
  nothing, sets no final status, takes no completed phase away, and logs an event
  whenever it changes what verdicts rest on. `StartsOnlyOpenPhase` and
  `HaltsOnlyWhenSpent` follow from `IInv` at the apply, the only step that starts a
  phase or halts the plan.
- `PlanLifecycle => PlanLedger`. Every transaction is one step of the ledger or none.
  For most it can be read off the transaction; an apply writes
  whatever the decision holds, so `LedgerShape` says what a decision can hold: it logs
  no completion, releases only where it leaves the status alone, and takes an answer
  only together with the status that stands for it. That the steps it makes are allowed
  to the ledger (a start in file order, a plan that is done) is `IInv` again.
- `LiveClaimSurvivesTicks`. A release compares token and lease with what the
  decision saw, but not whether the worker lives: the probe of its pid was seconds ago.
  `LiveInv` says that what the probe found is final: a worker that is not alive and whom
  no ticker is about to spawn is never alive again (`GoneForGood`), and a lease
  that was over is over as long as it is the claim's (`LapsedForGood`). The
  first needs that a token is one dispatcher's and spawned once (`TokensAreOwn`),
  and that a pid on the claim is its own worker's (`PidBelongsToClaim`).
- `PlanLifecycle`, `PlanQueue`, `QuotaGate`, `Watchdogs`, `WorkerGates` `=> ClaimTable`.
  The code fences every write of a worker, a daemon or a tick with a compare-and-set
  on the claim's token, and the other invariants use tokens as names of claims. `ClaimTable`
  is the rule that makes this right: a claim is made only where there is none and with a new
  token, and nothing else moves one. Each of the five modules implements it, so
  they mean the same by a claim. In `PlanLifecycle` this is a theorem about races: that
  there is no claim when a dispatch is written follows from the verdict's
  preconditions (`AppliedVerdictIsRight`) and not from a look at the claim. Elsewhere
  it is that stamps, markers, sweeps, pops and the operator's writes keep the token they find.
  `OwnTokenMeansHeld`, proved for the many plans of `PlanQueue`, is what a
  compare-and-set relies on. The code's tokens are random; that two are never alike is an
  assumption of the models, which count them.
- `PlanQueue`. Ids run below zero when the operator pushes in front, so that there is
  a head at all needs the queue to stay finite (`QueueOK`). What the sweep halts was a
  zombie when it looked, and still is when it writes, because what it saw was no claim or
  a token that died, and no token is claimed twice (`TicksOK`, `PlansOK`). For the
  refinement `LineInv` adds that a tick abandons only a row whose file is gone and absorbs
  only a plan that exists, however long ago it looked. Every step is then shown
  to be a step of `QueueLine` or a stutter: the rows in the order of their ids are
  the line, so an insert is an append at one end (`SortedReadIsUnique` says that the
  result is the sorted read), and a pop takes its head.
- `QuotaGate`. The process that forgives an attempt is told of the death long before.
  The invariant follows the token it carries (`CarriedDeaths`): what became of a
  token's worker is final, so a process about to release either has recorded the pause
  or carries a death that needs none.
- `Watchdogs`. `Sound` says of a tick whose claim has not moved that what it will say
  is true of the claim but for the fields that have moved since, which its write asks for;
  `ToldIsMarked`, that what the log says of the claim's holder is marked on the claim.
- `WorkerGates`. A stamp may name a commit whose tests fail: HEAD moved while they ran, and
  may move back. But HEAD cannot move under tests without touching the checkout they read, so
  such a stamp is `mixed`, and every other one is `Tested` wherever it goes, from the run to the
  claim, the snapshot of `complete` and its release (`StampsAreTested`). The simplify gate
  and the cap rest on tokens: what a command reads of the claim while it holds the token was
  written by the same worker's commands (`AttestsAreOwn`), and so were the tasks added between its
  look and its write (`SpawnsHaveRoom`).
- `WatchStream`. `LogInv`: no cursor is ahead of its log, and the lines are the
  visible rows between baseline and cursor (`IsLog`), which survives rows beyond the
  cursor and rows taken away (`LogLasts`) and grows by a poll (`LogGrows`). `GateInv`:
  a followed plan has a connection, and a project nobody in this frame has asked about has all its
  followed plans still to come; so the plan that asks asks for all of them. A retry or a skip
  takes that away from a second plan of the project, hence the hypothesis.
- `ShipArchive`. A command deletes seconds after it looked. `ProcessOK` follows
  the tip that it saw from the look to the deletion and on to the registry: it was on origin
  (`OnOrigin`), and still is, because no step takes a commit from origin; a push is
  refused when local main lacks something. A branch that `clu init` takes back (`Making`) is
  at local main because its plan has no row yet and nobody works there (`NoneUnclaimed`).

Facts about what a sorted read or a largest row is would be proved by induction over
the set. They are proved instead by counting: the ranks of n integers
are n different numbers below n, so they are all of them (`RankIsOnto`).

Every safety property that a passing run checks is proved (four under the hypothesis the
table names), and so are both refinements that runs check. `ClaimTable` is a property of no
run; TLC has found no counterexample to it on the instances of the five modules either.
Only model-checked: the liveness properties (`ClaimsEnd`, `RunningPlansMove`,
`AnswersAreConsumed`, `LineMoves`, `ZombiesEnd`, `PausesEnd`, `WedgedIsReported`,
`ReadyIsAnnounced`, `MergedIsArchived`, `BatchIsTried`, `ConflictsAreMarked`,
`NewsArrives`), since fairness and `ENABLED` are outside the prover's reach.

## 5. Where code and documents disagree

Three disagreements have a run whose counterexample shows them:

1. `watch_retry` (a bug): when the read of a plan's events is refused, the stream
   invalidates its connection and forgets the frame's answer, "to force the next
   tick to query" (`watch.py:693`). A second plan of the same project, later in the
   same frame, asks `data_version` again, is told yes, and stores the reading. In the next
   frame nothing has changed, and the refused events wait for the next commit of
   anybody.
2. `simplify_gate` (a bug): the base of the diff of a plan without a worktree is
   `head_sha_at_claim`, "captured when claim was created" (`cli.py:5188`). Nothing
   captures it, so for such plans the simplify gate never fires.
3. `ship_unresolved` (a bug): where git cannot tell origin's default branch, "callers can
   fall back to retain-and-warn rather than guess" (`cli.py:1760`). The caller that decides
   (`cli.py:1790`) takes it for a repository without an origin instead, and the
   clean-up, the archive and gc delete a branch that was never shipped, although its docstring
   has it return False whenever an origin exists and lacks commits (`cli.py:1786`).

Others were met in translating the code. The model takes the code's side; a property
taken from the words would be false.

- A dispatch that finds no worktree leaves its attempt charged
  (`dispatch.py:602`); `docs/contract.md:251` says it does not burn one.
- `clu release-claim` judges a snapshot, reaps for seconds and releases without a token
  (`cli.py:4944`); `docs/operations.md:2515` says it refuses a fresh claim.
- An answered question sets a paused plan running (`supervisor.py:1166`);
  `docs/operations.md:2550` says pause stops dispatching.
- `tick-all` hands the sweep the registry it read before the rules
  (`cli.py:4449`), so a plan just popped and registered may be halted;
  `supervisor.py:1358` says registered slugs are skipped.
- A crash between the two transactions of a pop does not heal itself
  (`cross_plan_rules.py:246`), as `docs/architecture.md:466` says it does.
- A batch of which one member was stamped is never stamped again
  (`cross_plan_rules.py:418`); the comment at line 119 says it is re-derived.
- An archive whose commit fails after the worktree record was cleared is not taken
  up again (`cli.py:6361`); the comment above it is about keeping the retry.
- A plan whose store is busy during the baseline of a stream is never followed
  (`watch.py:635`), which the comment at line 502 sets out to prevent.
- A plan whose row cannot be decoded closes its project's connection, and the one that
  the next plan opens in the same frame has a fresh reading (`watch.py:676`): rows that plan
  has not read yet wait for the next commit of anybody, which is what the comment at
  `watch.py:539` is about. `GateStaysOpen` and `NewsArrives` except plans that share a
  database with one of those, as they do for finding 1.
- With `ps` unreadable an idle notice may be written over a tool call that began and
  ended meanwhile (`supervisor.py:794`), though the comment there calls it the premise.
- A worker of another plan that was still running when the limit hit and is found
  dead in the canary's window pauses the project anew, as if the canary had failed
  (`quota.py:182`).

More gaps are in the model, but nothing in the
repository says clearly that they are faults: the busy gate is asked once, so a pop
may go ahead beside a plan dispatched since (`cross_plan_rules.py:158`); and
`unregister` halts a plan without releasing a claim made after its look
(`cli.py:2275`); two spawns that one worker runs in parallel pass the cap together
(`cli.py:5078`); the verify stamp says nothing of a working tree that was dirty
(`cli.py:7015`); a diff that git cannot make passes the simplify gate, as its docstring says
(`cli.py:5157`); and a registered head whose plan cannot be read is popped though it may be
frozen (`cross_plan_rules.py:188`).

## 6. Not modelled, and the plan

Left out of what is modelled in part: the re-pings of a stuck question
(`supervisor.py:427`) and the inbox files; `fleet.py` and the state dump; the content of a
dry merge; schema upgrade and the legacy import of the store; `clu doctor` and other
commands that only read; the refusal events of `complete` and their inbox files. Faults
of every kind are finite in number in the runs.

Out of scope: transports, dashboards, skills, demo, coolant, text parsing - pure
I/O, or read-only, or without state others read.

What comes next: the hazards in `PROJECT.json` that no property covers yet, of which
most are the divergences of section 5.
