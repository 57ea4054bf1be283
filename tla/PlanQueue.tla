----------------------------- MODULE PlanQueue ------------------------------
(***************************************************************************)
(* One project of clu: its queue of plans to run (queue.py), the registry   *)
(* that tells which plans are ticked (registry.py), and the part of         *)
(* `clu tick-all` that comes after the plans were ticked one by one: the    *)
(* rule that advances the queue (cross_plan_rules.py), the archive rule and *)
(* the zombie sweep (supervisor.py).                                        *)
(*                                                                          *)
(* The queue and the plans are tables of the project's database, the        *)
(* registry is one of the host's, so no transaction covers both.  A plan is *)
(* what these processes see of it: its status and its claim; how it moves   *)
(* when it is ticked is module PlanLifecycle's subject and abstracted here  *)
(* by PlanStep.                                                             *)
(***************************************************************************)
EXTENDS Integers, FiniteSets, Sequences, Ranks

CONSTANTS
  Slug,          \* plans of the project
  Bootstrap,     \* the plan that `clu init` made and registered
  TickAll,       \* processes of cron's tick-all
  ProjectTick,   \* project-scoped ticks, pushed by callbacks: they do not sweep
  MaxClaims,     \* bound: claims a behaviour may make
  MaxAdds,       \* bound: rows a behaviour may put into the queue
  MaxCommands,   \* bound: operator commands other than queue add
  MaxFaults      \* bound: ticking processes that die, rules that raise, reads that fail

ASSUME BootstrapAssumption == Bootstrap \in Slug
ASSUME TickerAssumption == TickAll \cap ProjectTick = {}
ASSUME BoundsAssumption ==
  MaxClaims \in Nat /\ MaxAdds \in Nat /\ MaxCommands \in Nat /\ MaxFaults \in Nat

Ticker  == TickAll \cup ProjectTick
Token   == 1..MaxClaims
Outcome == {"popped", "absorbed", "abandoned", "removed"}
Status  == {"running", "paused", "halted", "done"}
Frozen  == {"paused", "halted"}                         \* _FREEZE_STATUSES

VARIABLES
  queue,       \* rows of queue: a slug and its id, the smallest id first
  lastId,      \* sqlite_sequence: the largest id the table ever held
  history,     \* outcomes in queue_history, per slug
  plans,       \* rows of plans, with the claim's token (0: unclaimed)
  minted,      \* claims made
  dead,        \* tokens whose worker is gone
  registry,    \* registered plans of this project
  files,       \* plan files in the plan directory
  proc,        \* the ticking processes
  op,          \* the operator's command under way
  adding,      \* the workers' `clu queue add` under way
  left         \* what is left of the bounds on the environment

vars == <<queue, lastId, history, plans, minted, dead, registry, files, proc, op, adding, left>>

Plan   == [status : Status \cup {"none"}, claim : 0..MaxClaims]
NoPlan == [status |-> "none", claim |-> 0]
Exists(s) == plans[s].status # "none"
Claimed(s) == plans[s].claim # 0

PC == {"idle", "load", "head", "absorb", "abandon", "pop", "register", "tick",
       "archive", "sweep", "swept"}
Proc == [pc : PC,
         visited : SUBSET Slug,   \* slugs_by_project: the registry before the rules
         project : SUBSET Slug,   \* the plans load_plans_for_project loaded
         todo : SUBSET Slug,      \* plans the sweep has yet to look at
         slug : Slug, token : 0..MaxClaims]
Idle == [pc |-> "idle", visited |-> {}, project |-> {}, todo |-> {},
         slug |-> Bootstrap, token |-> 0]
At(k, pc) == proc[k].pc = pc

Op == [cmd : {"none", "init", "unregister", "halt", "drop"}, slug : Slug,
       token : 0..MaxClaims]
NoOp == [cmd |-> "none", slug |-> Bootstrap, token |-> 0]

Adding == [slug : Slug, step : {"file", "ask", "insert"}, running : BOOLEAN]

Init ==
  /\ queue = {} /\ lastId = 0
  /\ history = [s \in Slug |-> {}]
  /\ plans = [s \in Slug |->
        IF s = Bootstrap THEN [status |-> "running", claim |-> 0] ELSE NoPlan]
  /\ minted = 0 /\ dead = {}
  /\ registry = {Bootstrap}
  /\ files = Slug
  /\ proc = [k \in Ticker |-> Idle]
  /\ op = NoOp /\ adding = {}
  /\ left = [adds |-> MaxAdds, commands |-> MaxCommands, faults |-> MaxFaults]

queueVars == <<queue, lastId, history>>
planVars  == <<plans, minted, dead>>

Faulty == left.faults > 0 /\ left' = [left EXCEPT !.faults = @ - 1]

-----------------------------------------------------------------------------
(* The queue's rows                                                         *)

Queued(s) == \E r \in queue : r.slug = s
HeadRow   == CHOOSE r \in queue : \A other \in queue : r.id <= other.id

\* Plausible bug: a slug that waits already is queued again.
InsertAgain(s, front) ==
  /\ LET id == IF ~front THEN lastId + 1
               ELSE IF queue = {} THEN 1 ELSE HeadRow.id - 1
     IN /\ queue' = queue \cup {[slug |-> s, id |-> id]}
        /\ lastId' = IF id > lastId THEN id ELSE lastId
  /\ UNCHANGED history

\* insert_in_txn: a tail row takes the next AUTOINCREMENT id, a front row the
\* smallest id less one, or 1 in an empty queue.
Insert(s, front) ==
  /\ ~Queued(s)
  /\ LET id == IF ~front THEN lastId + 1
               ELSE IF queue = {} THEN 1 ELSE HeadRow.id - 1
     IN /\ queue' = queue \cup {[slug |-> s, id |-> id]}
        /\ lastId' = IF id > lastId THEN id ELSE lastId
  /\ UNCHANGED history

Leave(r, outcome) ==
  /\ queue' = queue \ {r}
  /\ history' = [history EXCEPT ![r.slug] = @ \cup {outcome}]
  /\ UNCHANGED lastId

\* Plausible bug: the head is popped, whatever it is by now.
PopHeadUnchecked(s, outcome) ==
  /\ queue # {}
  /\ Leave(HeadRow, outcome)

Heads(s) == queue # {} /\ HeadRow.slug = s

\* pop_head_in_txn
PopHead(s, outcome) ==
  /\ Heads(s)
  /\ Leave(HeadRow, outcome)

-----------------------------------------------------------------------------
(* A plan as its ticks move it                                              *)

SetPlan(s, st, c) == plans' = [plans EXCEPT ![s] = [status |-> st, claim |-> c]]

PlanStep(s) ==
  /\ plans[s].status = "running"
  /\ \/ /\ ~Claimed(s) /\ minted < MaxClaims
        /\ SetPlan(s, "running", minted + 1)
        /\ minted' = minted + 1
     \/ /\ ~Claimed(s)
        /\ \E st \in {"paused", "halted", "done"} : SetPlan(s, st, 0)
        /\ UNCHANGED minted
     \/ /\ Claimed(s) /\ plans[s].claim \in dead
        /\ SetPlan(s, "running", 0)
        /\ UNCHANGED minted
  /\ UNCHANGED dead

\* The walk over the registered plans, by any process.
TicksPlan(s) ==
  /\ s \in registry
  /\ PlanStep(s)
  /\ UNCHANGED <<queueVars, registry, files, proc, op, adding, left>>

\* The worker of a claim completes its phase, or stops to ask.
WorkerEndsPhase(s) ==
  /\ Claimed(s) /\ plans[s].claim \notin dead
  /\ SetPlan(s, plans[s].status, 0)
  /\ UNCHANGED <<queueVars, minted, dead, registry, files, proc, op, adding, left>>

WorkerDies(t) ==
  /\ t <= minted /\ t \notin dead
  /\ dead' = dead \cup {t}
  /\ UNCHANGED <<queueVars, plans, minted, registry, files, proc, op, adding, left>>

\* clu queue add --token looks four times: the caller's claim, the plan file, the
\* registry with the slug's claim, and in one transaction the queue, where the row is
\* added.  (The event that tells of it asks for the claim again.)
WorkerAddLooks(s) ==
  /\ \E src \in Slug : Claimed(src) /\ plans[src].claim \notin dead
  /\ left.adds > 0 /\ left' = [left EXCEPT !.adds = @ - 1]
  /\ adding' = adding \cup {[slug |-> s, step |-> "file", running |-> FALSE]}
  /\ UNCHANGED <<queueVars, planVars, registry, files, proc, op>>

Becomes(a, rest) == adding' = (adding \ {a}) \cup rest

WorkerAddSeesFile(a) ==
  /\ a.step = "file"
  /\ Becomes(a, IF a.slug \in files THEN {[a EXCEPT !.step = "ask"]} ELSE {})
  /\ UNCHANGED <<queueVars, planVars, registry, files, proc, op, left>>

\* A plan that cannot be read has no claim.
WorkerAddAsks(a) ==
  /\ a.step = "ask"
  /\ LET Hears(running) == Becomes(a, {[a EXCEPT !.step = "insert", !.running = running]}) IN
     \/ Hears(a.slug \in registry /\ Claimed(a.slug)) /\ UNCHANGED left
     \/ Hears(FALSE) /\ Faulty
  /\ UNCHANGED <<queueVars, planVars, registry, files, proc, op>>

\* A slug that waits, ran, or ran when it was asked for is not queued, nor is one
\* over the phase's cap.
WorkerAdds(a) ==
  /\ a.step = "insert" /\ Becomes(a, {})
  /\ \/ ~a.running /\ history[a.slug] = {} /\ Insert(a.slug, FALSE)
     \/ UNCHANGED queueVars
  /\ UNCHANGED <<planVars, registry, files, proc, op, left>>

WorkerQueueAdd ==
  \/ \E s \in Slug : WorkerAddLooks(s)
  \/ \E a \in adding : WorkerAddSeesFile(a) \/ WorkerAddAsks(a) \/ WorkerAdds(a)

-----------------------------------------------------------------------------
(* tick-all after the walk                                                  *)

Goto(k, pc) == proc' = [proc EXCEPT ![k].pc = pc]
Ends(k) == proc' = [proc EXCEPT ![k] = Idle]
TickOnly == UNCHANGED <<op, adding, left>>

\* The registry is read once for the rules' projects and for the sweep; a
\* project without a registered plan is not visited.
PostLoop(k) ==
  /\ At(k, "idle")
  /\ registry # {}
  /\ proc' = [proc EXCEPT ![k].pc = "load", ![k].visited = registry]
  /\ UNCHANGED <<queueVars, planVars, registry, files>>
  /\ TickOnly

\* load_plans_for_project reads the registry again; a claim in any plan it
\* found keeps the queue waiting.
Loads(k, project) ==
  proc' = [proc EXCEPT ![k].project = project,
             ![k].pc = IF \E s \in project : Claimed(s) THEN "archive" ELSE "head"]
LoadPlans(k) ==
  /\ At(k, "load")
  /\ Loads(k, {s \in registry : Exists(s)})
  /\ UNCHANGED <<queueVars, planVars, registry, files>>
  /\ TickOnly

\* A plan that cannot be read is passed over.
MisreadsPlans(k) ==
  /\ At(k, "load") /\ Faulty
  /\ \E unread \in SUBSET registry : Loads(k, {s \in registry \ unread : Exists(s)})
  /\ UNCHANGED <<queueVars, planVars, registry, files, op, adding>>

Registered(k, s) == s \in proc[k].project

\* Which branch of the rule the slug falls into, if it has this status.
Branch(k, s, status) ==
  CASE Registered(k, s) /\ status \in Frozen -> "archive"
    [] Registered(k, s) /\ status \in {"done", "running"} -> "absorb"
    [] OTHER -> IF s \in files THEN "pop" ELSE "abandon"
Judges(k, s, status) == proc' = [proc EXCEPT ![k].pc = Branch(k, s, status), ![k].slug = s]

ReadHead(k) ==
  /\ At(k, "head")
  /\ \/ queue = {} /\ Goto(k, "archive")
     \/ queue # {} /\ Judges(k, HeadRow.slug, plans[HeadRow.slug].status)
  /\ UNCHANGED <<queueVars, planVars, registry, files>>
  /\ TickOnly

\* A queue that cannot be read does not advance; a head whose plan cannot be read
\* has no status, and is judged by its file even if it is registered.
MisreadsHead(k) ==
  /\ At(k, "head") /\ Faulty
  /\ Goto(k, "archive") \/ (queue # {} /\ Judges(k, HeadRow.slug, "none"))
  /\ UNCHANGED <<queueVars, planVars, registry, files, op, adding>>

\* Plausible bug: the sweep walks the registered plans.
AfterRulesWalksRegistry(k) ==
  \/ k \in ProjectTick /\ Ends(k)
  \/ /\ k \in TickAll
     /\ proc' = [proc EXCEPT ![k] = [Idle EXCEPT !.pc = "sweep",
                   !.todo = {s \in Slug : Exists(s)} \cap proc[k].visited]]

\* The rules end with the first that did something; then comes the sweep.
AfterRules(k) ==
  \/ k \in ProjectTick /\ Ends(k)
  \/ /\ k \in TickAll
     /\ proc' = [proc EXCEPT ![k] = [Idle EXCEPT !.pc = "sweep",
                   !.todo = {s \in Slug : Exists(s)} \ proc[k].visited]]

PassesOver(k, pc, outcome) ==
  /\ At(k, pc)
  /\ PopHead(proc[k].slug, outcome)
  /\ AfterRules(k)
  /\ UNCHANGED <<planVars, registry, files>>
  /\ TickOnly
Absorbs(k)  == PassesOver(k, "absorb", "absorbed")
Abandons(k) == PassesOver(k, "abandon", "abandoned")

\* Plausible bug: a plan that exists already makes the transaction fail.
PopsOnlyNew(k) ==
  /\ At(k, "pop")
  /\ ~Exists(proc[k].slug)
  /\ PopHead(proc[k].slug, "popped")
  /\ SetPlan(proc[k].slug, "running", 0)
  /\ Goto(k, "register")
  /\ UNCHANGED <<minted, dead, registry, files>>
  /\ TickOnly

\* Plausible bug: the pop commits before the plan is created.
PopsBeforePlan(k) ==
  /\ At(k, "pop")
  /\ PopHead(proc[k].slug, "popped")
  /\ Goto(k, "register")
  /\ UNCHANGED <<planVars, registry, files>>
  /\ TickOnly

\* Transaction one: the row leaves the queue and the plan comes into being; a
\* plan that exists already stays as it is and the row leaves all the same.
Pops(k) ==
  /\ At(k, "pop")
  /\ PopHead(proc[k].slug, "popped")
  /\ IF Exists(proc[k].slug) THEN UNCHANGED plans ELSE SetPlan(proc[k].slug, "running", 0)
  /\ Goto(k, "register")
  /\ UNCHANGED <<minted, dead, registry, files>>
  /\ TickOnly

\* Another tick was faster: nothing is written, and the next rules have a turn.
LosesHead(k) ==
  /\ proc[k].pc \in {"absorb", "abandon", "pop"}
  /\ ~Heads(proc[k].slug)
  /\ Goto(k, "archive")
  /\ UNCHANGED <<queueVars, planVars, registry, files>>
  /\ TickOnly

\* Transaction two, on the host's database.
RegistersPopped(k) ==
  /\ At(k, "register")
  /\ registry' = registry \cup {proc[k].slug}
  /\ Goto(k, "tick")
  /\ UNCHANGED <<queueVars, planVars, files>>
  /\ TickOnly

\* The popped plan's first tick; it may come to nothing (a quota pause, a
\* worker that failed at once).
TicksPopped(k) ==
  /\ At(k, "tick")
  /\ PlanStep(proc[k].slug) \/ UNCHANGED planVars
  /\ AfterRules(k)
  /\ UNCHANGED <<queueVars, registry, files>>
  /\ TickOnly

\* auto_archive_rule: of a finished plan whose branch was merged the file leaves
\* the plan directory and then, if that could be committed, the plan the registry.
Archives(k) ==
  /\ At(k, "archive")
  /\ \/ \E s \in proc[k].project :
          /\ plans[s].status = "done"
          /\ files' = files \ {s}
          /\ registry' \in {registry, registry \ {s}}
     \/ UNCHANGED <<registry, files>>
  /\ AfterRules(k)
  /\ UNCHANGED <<queueVars, planVars>>
  /\ TickOnly

-----------------------------------------------------------------------------
(* The zombie sweep                                                         *)

\* is_zombie_state: nobody works on a plan that says it is running.
Zombie(s) ==
  /\ plans[s].status = "running"
  /\ Claimed(s) => plans[s].claim \in dead

SweepLooks(k) ==
  /\ At(k, "sweep")
  /\ \E s \in proc[k].todo : LET rest == [proc EXCEPT ![k].todo = @ \ {s}] IN
       \/ ~Zombie(s) /\ proc' = rest
       \/ /\ Zombie(s)
          /\ proc' = [rest EXCEPT ![k].pc = "swept", ![k].slug = s,
                                  ![k].token = plans[s].claim]
  /\ UNCHANGED <<queueVars, planVars, registry, files>>
  /\ TickOnly

\* Plausible bug: only the status is asked for again.
SweepHoldsStatus(k) == plans[proc[k].slug].status = "running"

\* The preconditions of the sweep's write: the claim and the status it saw.
SweepHolds(k) ==
  /\ plans[proc[k].slug].claim = proc[k].token
  /\ plans[proc[k].slug].status = "running"

SweepWrites(k) ==
  /\ At(k, "swept")
  /\ IF SweepHolds(k) THEN SetPlan(proc[k].slug, "halted", 0) ELSE UNCHANGED plans
  /\ proc' = [proc EXCEPT ![k] = [Idle EXCEPT !.pc = "sweep", !.todo = proc[k].todo]]
  /\ UNCHANGED <<queueVars, minted, dead, registry, files>>
  /\ TickOnly

SweepEnds(k) ==
  /\ At(k, "sweep") /\ proc[k].todo = {}
  /\ Ends(k)
  /\ UNCHANGED <<queueVars, planVars, registry, files>>
  /\ TickOnly

TickProceeds(k) ==
  \/ PostLoop(k) \/ LoadPlans(k) \/ ReadHead(k)
  \/ MisreadsPlans(k) \/ MisreadsHead(k)
  \/ Absorbs(k) \/ Abandons(k) \/ Pops(k) \/ LosesHead(k)
  \/ RegistersPopped(k) \/ TicksPopped(k) \/ Archives(k)
  \/ SweepLooks(k) \/ SweepWrites(k) \/ SweepEnds(k)

\* The process dies, or something raises: cmd_tick_all then goes on with the next
\* project, and what is left of this one's rules and its sweep is not done.
TickFails(k) ==
  /\ ~At(k, "idle") /\ Faulty
  /\ Ends(k)
  /\ UNCHANGED <<queueVars, planVars, registry, files, op, adding>>

-----------------------------------------------------------------------------
(* The operator                                                             *)

QueueAdd(s, front) ==
  /\ registry # {} /\ s \in files
  /\ left.adds > 0 /\ left' = [left EXCEPT !.adds = @ - 1]
  /\ Insert(s, front)
  /\ UNCHANGED <<planVars, registry, files, proc, op, adding>>

Commands(command) ==
  /\ op = NoOp
  /\ left.commands > 0 /\ left' = [left EXCEPT !.commands = @ - 1]
  /\ op' = command /\ UNCHANGED adding

QueueRemove(s) ==
  /\ Commands(NoOp)
  /\ \E r \in queue : r.slug = s /\ Leave(r, "removed")
  /\ UNCHANGED <<planVars, registry, files, proc>>

Register(s) ==
  /\ Commands(NoOp)
  /\ registry' = registry \cup {s}
  /\ UNCHANGED <<queueVars, planVars, files, proc>>

Retry(s) ==
  /\ Exists(s) /\ plans[s].status # "done"
  /\ Commands(NoOp)
  /\ SetPlan(s, "running", plans[s].claim)
  /\ UNCHANGED <<queueVars, minted, dead, registry, files, proc>>

\* clu init creates a plan, then registers it; of one that exists it does
\* neither.
InitCreates(s) ==
  /\ ~Exists(s)
  /\ Commands([NoOp EXCEPT !.cmd = "init", !.slug = s])
  /\ SetPlan(s, "running", 0)
  /\ UNCHANGED <<queueVars, minted, dead, registry, files, proc>>
InitRegisters ==
  /\ op.cmd = "init" /\ op' = NoOp
  /\ registry' = registry \cup {op.slug}
  /\ UNCHANGED <<queueVars, planVars, files, proc, adding, left>>

\* clu unregister: look; of a running plan reap the worker and write halted,
\* releasing the claim it saw; leave the registry, whatever the write did.
UnregisterLooks(s) ==
  /\ Exists(s)
  /\ Commands([cmd |-> IF plans[s].status = "running" THEN "unregister" ELSE "drop",
               slug |-> s, token |-> plans[s].claim])
  /\ UNCHANGED <<queueVars, planVars, registry, files, proc>>
UnregisterReaps ==
  /\ op.cmd = "unregister" /\ op' = [op EXCEPT !.cmd = "halt"]
  /\ dead' = IF op.token = 0 THEN dead ELSE dead \cup {op.token}
  /\ UNCHANGED <<queueVars, plans, minted, registry, files, proc, adding, left>>
UnregisterHalts ==
  /\ op.cmd = "halt" /\ op' = [op EXCEPT !.cmd = "drop"]
  /\ \/ op.token = 0 /\ SetPlan(op.slug, "halted", plans[op.slug].claim)
     \/ op.token # 0 /\ plans[op.slug].claim = op.token /\ SetPlan(op.slug, "halted", 0)
     \/ op.token # 0 /\ plans[op.slug].claim # op.token /\ UNCHANGED plans
  /\ UNCHANGED <<queueVars, minted, dead, registry, files, proc, adding, left>>
UnregisterDrops ==
  /\ op.cmd = "drop" /\ op' = NoOp
  /\ registry' = registry \ {op.slug}
  /\ UNCHANGED <<queueVars, planVars, files, proc, adding, left>>

OperatorActs ==
  \/ \E s \in Slug : \/ \E front \in BOOLEAN : QueueAdd(s, front)
                     \/ QueueRemove(s) \/ Register(s) \/ Retry(s)
                     \/ InitCreates(s) \/ UnregisterLooks(s)
  \/ InitRegisters \/ UnregisterReaps \/ UnregisterHalts \/ UnregisterDrops

-----------------------------------------------------------------------------
Next ==
  \/ \E k \in Ticker : TickProceeds(k) \/ TickFails(k)
  \/ \E s \in Slug : TicksPlan(s) \/ WorkerEndsPhase(s)
  \/ WorkerQueueAdd
  \/ \E t \in Token : WorkerDies(t)
  \/ OperatorActs

Spec == Init /\ [][Next]_vars

\* A tick always ends and cron starts the next one.
FairSpec == Spec /\ \A k \in Ticker : WF_vars(TickProceeds(k))

-----------------------------------------------------------------------------
(* What is true at every moment                                             *)

\* Every variable keeps its type, and neither a slug nor an id is in two rows.
TypeOK ==
  /\ queue \subseteq [slug : Slug, id : Int]
  /\ \A r, other \in queue : r.slug = other.slug \/ r.id = other.id => r = other
  /\ \A r \in queue : r.id <= lastId
  /\ lastId \in Nat
  /\ history \in [Slug -> SUBSET Outcome]
  /\ plans \in [Slug -> Plan]
  /\ minted \in 0..MaxClaims
  /\ dead \subseteq 1..minted
  /\ registry \subseteq Slug /\ files \subseteq Slug
  /\ proc \in [Ticker -> Proc]
  /\ op \in Op
  /\ adding \subseteq Adding
  /\ left \in [adds : 0..MaxAdds, commands : 0..MaxCommands, faults : 0..MaxFaults]

\* A row that went to queue_history as popped left a plan behind: whichever of
\* several ticks pops it, and wherever one dies, the row is not used up for
\* nothing (pop_head_in_txn and create_in_txn in one transaction).
PoppedPlansExist == \A s \in Slug : "popped" \in history[s] => Exists(s)

-----------------------------------------------------------------------------
(* What a step may never do                                                 *)

\* The sweep halts a plan only while nobody works on it: one that was registered
\* again and dispatched between the sweep's look and its write is left alone.
SweepTakesOnlyZombies ==
  [][\A k \in Ticker : LET s == proc[k].slug IN
       At(k, "swept") /\ proc'[k] # proc[k] /\ plans'[s] # plans[s] => Zombie(s)]_vars

-----------------------------------------------------------------------------
(* The queue seen from outside                                              *)

Ids(rows) == {r.id : r \in rows}

\* The queue's rows as `clu queue list` reads them.
RowsInOrder(rows) ==
  [i \in 1..Cardinality(Ids(rows)) |-> CHOOSE r \in rows : r.id = InOrder(Ids(rows))[i]]

SlugsInOrder ==
  LET rows == RowsInOrder(queue) IN [i \in DOMAIN rows |-> rows[i].slug]

Line == INSTANCE QueueLine
  WITH line <- SlugsInOrder, created <- {s \in Slug : Exists(s)}, missing <- Slug \ files

\* Rows with ids that grow at one end and shrink at the other, popped by racing
\* ticks that die, are a line: QueueLine.
ImplementsLine == Line!Spec

-----------------------------------------------------------------------------
(* What must eventually happen                                              *)

Busy == \E s \in registry : Claimed(s)
HeadFrozen == queue # {} /\ HeadRow.slug \in registry /\ plans[HeadRow.slug].status \in Frozen

\* The line never stands still for good while somebody ticks the project, unless
\* a claim or a frozen head holds it up.
LineMoves ==
  \A s \in Slug : Heads(s) ~> ~Heads(s) \/ Busy \/ HeadFrozen \/ registry = {}

\* A plan nobody ticks and nobody works on does not say "running" for ever,
\* as long as the project has a plan that is ticked (sweep_zombie_states).
ZombiesEnd ==
  \A s \in Slug : Zombie(s) /\ s \notin registry
    ~> ~Zombie(s) \/ s \in registry \/ registry = {}
=============================================================================
