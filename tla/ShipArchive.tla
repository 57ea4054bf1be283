----------------------------- MODULE ShipArchive -----------------------------
(***************************************************************************)
(* What becomes of a plan's worktree: made by clu init, worked in, announced  *)
(* when the plan is done, shipped to main (clu ship, direct or as a pull      *)
(* request), dry-merged with its batch, archived by rule or by hand, and      *)
(* collected by clu worktree gc (cli.py, cross_plan_rules.py, dry_merge.py).  *)
(*                                                                           *)
(* Git is not transactional with the plan store: every command here reads a   *)
(* snapshot, runs git for seconds, and writes what came of it.  A branch is   *)
(* known by its tip, a number; main and origin/main by the tip of each branch *)
(* they contain.  Plans are numbered in the order of the registry and are one *)
(* batch.                                                                    *)
(***************************************************************************)
EXTENDS Integers, FiniteSets, FiniteSetsExt

CONSTANTS
  NPlans,        \* registered plans
  DefaultKnown,  \* git knows origin's default branch (refs/remotes/origin/HEAD)
  FaultKinds,    \* of {"crash", "call"}: a process dies, a call of git, gh
                 \* or the store fails
  MaxTip,        \* bound: commits on a branch
  Operated,      \* bound: plans that operator commands name
  MaxEvents      \* bound: operator commands and faults

ASSUME DefaultAssumption == DefaultKnown \in BOOLEAN
ASSUME BoundsAssumption ==
  /\ NPlans \in Nat \ {0} /\ MaxTip \in Nat \ {0}
  /\ FaultKinds \subseteq {"crash", "call"} /\ Operated \subseteq 1..NPlans /\ MaxEvents \in Nat

VARIABLES
  plan,        \* the plan's row, its claim and its event log
  git,         \* its branch, worktree and pull request
  md,          \* its plan file
  registered,  \* the host's registry
  proc,        \* a tick, an operator command, a worker's clu complete
  used         \* what is used up of the bounds

vars == <<plan, git, md, registered, proc, used>>

Plan == 1..NPlans
Tip == 0..MaxTip
NoTip == MaxTip + 1
Shas == SUBSET (Plan \X Tip)

\* logged says that the log has the completion of the last phase.
PlanRow ==
  [status : {"none", "running", "paused", "halted", "done"}, claim : BOOLEAN,
   logged : BOOLEAN, worktree : BOOLEAN, in_conflict_with : SUBSET Plan,
   announced : Tip \cup {NoTip}, gate : Shas, ship_pending : BOOLEAN]
NoRow == [status |-> "none", claim |-> FALSE, logged |-> FALSE, worktree |-> FALSE,
          in_conflict_with |-> {}, announced |-> NoTip, gate |-> {}, ship_pending |-> FALSE]
GitState ==
  [branch : BOOLEAN, dir : BOOLEAN, tip : Tip, main : Tip, origin : Tip,
   pushed : Tip, pr : {"none", "open", "closed"}]
NoGit == [branch |-> FALSE, dir |-> FALSE, tip |-> 0, main |-> 0, origin |-> 0,
          pushed |-> 0, pr |-> "none"]

Process == {"tick", "operator", "worker"}
Pc == {"off", "apply", "look", "remove", "branch", "remote", "move", "persist", "events", "commit",
       "unregister", "create", "merge", "push", "open_pr", "stamp", "recheck"}
\* plan and todo are what is being done and what is left; shas what was looked
\* at; cleaned, moved and failed what the archive must still write, commit and raise.
Proc == [pc : Pc, how : {"none", "conflict", "gate", "announce", "auto", "manual", "complete",
                         "direct", "as_pr", "init", "gc", "gc_branch"},
         plan : Plan \cup {0}, todo : SUBSET Plan, shas : Shas,
         cleaned : BOOLEAN, moved : BOOLEAN, failed : BOOLEAN]
Off == [pc |-> "off", how |-> "none", plan |-> 0, todo |-> {}, shas |-> {},
        cleaned |-> FALSE, moved |-> FALSE, failed |-> FALSE]

\* A plan clu init has made, with a worktree or without.
Created(wt) == [NoRow EXCEPT !.status = "running", !.worktree = wt]
Fresh == [NoGit EXCEPT !.branch = TRUE, !.dir = TRUE]

Init ==
  /\ registered \in {Plan, Plan \ {1}}
  /\ \E W \in {registered, {}} :
       /\ plan = [p \in Plan |-> IF p \in registered THEN Created(p \in W) ELSE NoRow]
       /\ git = [p \in Plan |-> IF p \in W THEN Fresh ELSE NoGit]
  /\ md = [p \in Plan |-> "here"]
  /\ proc = [k \in Process |-> Off]
  /\ used = 0

Goes(k, pc) == proc' = [proc EXCEPT ![k].pc = pc]
Ends(k) == proc' = [proc EXCEPT ![k] = Off]
Begins(k, pc, how, p) ==
  proc' = [proc EXCEPT ![k] = [Off EXCEPT !.pc = pc, !.how = how, !.plan = p]]
Commands ==
  /\ proc["operator"].pc = "off" /\ used < MaxEvents /\ used' = used + 1
Faults(kind) ==
  /\ kind \in FaultKinds /\ used < MaxEvents /\ used' = used + 1
\* The calls of an operator's command fail at no charge: it was counted itself.
CallFails(k) ==
  IF k = "operator" THEN "call" \in FaultKinds /\ UNCHANGED used ELSE Faults("call")

\* Plausible bug: merged means merged locally.
MergedLocally(p) == git[p].branch /\ git[p].tip <= git[p].main

\* is_branch_merged_into: false when the branch does not exist
Merged(p) == git[p].branch /\ git[p].tip <= git[p].origin

\* Plausible bug: what is on local main counts as upstream.
ReachableLocally(p) == ~DefaultKnown \/ (git[p].branch /\ git[p].tip <= git[p].main)

\* _is_branch_reachable_from_origin: true if origin's default branch is not known;
\* Merged does not ask which it is, but takes origin/main.
Reachable(p) == ~DefaultKnown \/ (git[p].branch /\ git[p].tip <= git[p].origin)

-----------------------------------------------------------------------------
(* A plan's life, as far as its worktree is concerned                        *)

Active(p) == plan[p].claim \/ plan[p].status = "running"
Ticked(p) == p \in registered /\ md[p] = "here" /\ plan[p].status = "running" /\ ~plan[p].claim

\* A dispatch checks that the worktree is there (worktree_alive).
Dispatches(p) ==
  /\ Ticked(p) /\ ~plan[p].logged
  /\ plan' = IF plan[p].worktree /\ ~git[p].dir
             THEN [plan EXCEPT ![p].status = "paused"]
             ELSE [plan EXCEPT ![p].claim = TRUE]
  /\ UNCHANGED <<git, md, registered, proc, used>>

DeclaresDone(p) ==
  /\ Ticked(p) /\ plan[p].logged
  /\ plan' = [plan EXCEPT ![p].status = "done"]
  /\ UNCHANGED <<git, md, registered, proc, used>>

\* A worker with a claim; the operator fixes what a dry merge found.
CommitsWork(p) ==
  /\ git[p].branch /\ git[p].dir /\ git[p].tip < MaxTip
  /\ plan[p].claim \/ plan[p].status = "done"
  /\ git' = [git EXCEPT ![p].tip = @ + 1]
  /\ UNCHANGED <<plan, md, registered, proc, used>>

\* clu complete of the last phase; with a worktree record it cleans up after.
WorkerCompletes(p) ==
  /\ plan[p].claim /\ proc["worker"].pc = "off"
  /\ plan' = [plan EXCEPT ![p].claim = FALSE, ![p].logged = TRUE]
  /\ IF plan[p].worktree THEN Begins("worker", "look", "complete", p) ELSE UNCHANGED proc
  /\ UNCHANGED <<git, md, registered, used>>

\* Its attempts are spent.
Halts(p) ==
  /\ Ticked(p) /\ ~plan[p].logged
  /\ plan' = [plan EXCEPT ![p].status = "halted"]
  /\ UNCHANGED <<git, md, registered, proc, used>>

Pauses(p) ==
  /\ Commands /\ plan[p].status = "running"
  /\ plan' = [plan EXCEPT ![p].status = "paused"]
  /\ UNCHANGED <<git, md, registered, proc>>

\* clu resume, clu retry
ResumesOrRetries(p) ==
  /\ Commands /\ plan[p].status \in {"paused", "halted"}
  /\ plan' = [plan EXCEPT ![p].status = "running"]
  /\ UNCHANGED <<git, md, registered, proc>>

-----------------------------------------------------------------------------
(* Making a worktree                                                         *)

\* _setup_worktree refuses a branch or a path that exists.
SetsUpWorktree(p) ==
  /\ Commands /\ ~git[p].branch /\ ~git[p].dir /\ plan[p].status = "none"
  /\ git' = [git EXCEPT ![p] = [Fresh EXCEPT !.tip = git[p].main, !.main = git[p].main,
                                             !.origin = git[p].origin]]
  /\ Begins("operator", "create", "init", p)
  /\ UNCHANGED <<plan, md, registered>>

\* The row is created and the plan registered; a store that fails takes the
\* worktree down again (_rollback_worktree).
InitCreates(k) ==
  LET p == proc[k].plan IN
  /\ proc[k].pc = "create"
  /\ \/ /\ plan' = [plan EXCEPT ![p] = Created(TRUE)]
        /\ registered' = registered \cup {p}
        /\ Ends(k) /\ UNCHANGED used
     \/ CallFails(k) /\ Goes(k, "remove") /\ UNCHANGED <<plan, registered>>
  /\ UNCHANGED <<git, md>>

\* clu worktree attach, of a worktree left over or built by hand
AttachesWorktree(p) ==
  /\ Commands /\ plan[p].status # "none" /\ ~plan[p].worktree
  /\ plan' = [plan EXCEPT ![p].worktree = TRUE]
  /\ git' = IF git[p].branch THEN [git EXCEPT ![p].dir = TRUE]
            ELSE [git EXCEPT ![p].branch = TRUE, ![p].dir = TRUE, ![p].tip = git[p].main]
  /\ UNCHANGED <<md, registered, proc>>

\* clu worktree reattach, to a directory built anew (not counted: it takes a
\* collection, which was)
ReattachesWorktree(p) ==
  /\ proc["operator"].pc = "off" /\ plan[p].worktree /\ ~git[p].dir /\ git[p].branch
  /\ git' = [git EXCEPT ![p].dir = TRUE]
  /\ UNCHANGED <<plan, md, registered, proc, used>>

-----------------------------------------------------------------------------
(* The rules of a tick: the first that has something to do is the tick's one  *)
(* action.  (The queue rule, which comes before them, is in PlanQueue.)       *)

Decision(how, todo, shas) ==
  proc' = [proc EXCEPT !["tick"] = [Off EXCEPT !.pc = "apply", !.how = how,
                                               !.todo = todo, !.shas = shas]]

\* worktree_conflict_rule: active plans that share the canonical checkout
Clash == {p \in registered : ~plan[p].worktree /\ Active(p)}
ConflictsIn(shas, p) == IF <<p, 0>> \in shas THEN {q \in Plan \ {p} : <<q, 0>> \in shas} ELSE {}
\* Plausible bug: only the plan that warns is marked.
StaleConflictsFirst ==
  {p \in registered : /\ plan[p].in_conflict_with # (IF p \in Clash THEN Clash \ {p} ELSE {})
                      /\ p \in Clash => p = Min(Clash)}
StaleConflicts ==
  {p \in registered : plan[p].in_conflict_with # (IF p \in Clash THEN Clash \ {p} ELSE {})}

DoneWithTree(p) == p \in registered /\ plan[p].status = "done" /\ plan[p].worktree

\* dry_merge_gate_rule: a set of tips is tried once.
Group == {p \in Plan : DoneWithTree(p) /\ git[p].branch}
GroupShas == {<<p, git[p].tip>> : p \in Group}
\* Plausible bugs: the gate runs every time, or once and never again.
GatePendingAlways == Cardinality(Group) >= 2
GatePendingOnce == Cardinality(Group) >= 2 /\ \A p \in Group : plan[p].gate = {}
GatePending == Cardinality(Group) >= 2 /\ \A p \in Group : plan[p].gate # GroupShas

\* Plausible bug: the announcement is not remembered.
ReadyUnremembered ==
  {p \in Plan : DoneWithTree(p) /\ git[p].branch /\ ~Merged(p) /\ ~plan[p].ship_pending}

\* ready_to_ship_rule
Ready ==
  {p \in Plan : /\ DoneWithTree(p) /\ git[p].branch /\ ~Merged(p)
                /\ ~plan[p].ship_pending /\ plan[p].announced # git[p].tip}

\* auto_archive_rule takes the first; the later ones are for when it fails.
Archivable == {p \in Plan : DoneWithTree(p) /\ Merged(p)}
Archives(S) ==
  proc' = [proc EXCEPT !["tick"] =
             [Off EXCEPT !.pc = "look", !.how = "auto", !.plan = Min(S),
                         !.todo = S \ {Min(S)}, !.shas = {<<Min(S), git[Min(S)].tip>>}]]

RunsRules ==
  /\ proc["tick"].pc = "off"
  /\ \/ StaleConflicts # {} /\ Decision("conflict", StaleConflicts, Clash \X {0})
     \/ /\ StaleConflicts = {} /\ GatePending
        /\ Decision("gate", Group, GroupShas)
     \/ /\ StaleConflicts = {} /\ ~GatePending /\ Ready # {}
        /\ Decision("announce", Ready, {<<p, git[p].tip>> : p \in Ready})
     \/ /\ StaleConflicts = {} /\ ~GatePending /\ Ready = {} /\ Archivable # {}
        /\ Archives(Archivable)
  /\ UNCHANGED <<plan, git, md, registered, used>>

\* _apply: one transaction per plan
Stamped(p, how, shas) ==
  CASE how = "conflict" -> [plan EXCEPT ![p].in_conflict_with = ConflictsIn(shas, p)]
    [] how = "gate"     -> [plan EXCEPT ![p].gate = shas]
    [] how = "announce" -> [plan EXCEPT ![p].announced = CHOOSE t \in Tip : <<p, t>> \in shas]
AppliesRule(p) ==
  LET r == proc["tick"] IN
  /\ r.pc = "apply" /\ p \in r.todo
  /\ plan' = Stamped(p, r.how, r.shas)
  /\ proc' = [proc EXCEPT !["tick"] = IF r.todo = {p} THEN Off ELSE [r EXCEPT !.todo = @ \ {p}]]
  /\ UNCHANGED <<git, md, registered, used>>

-----------------------------------------------------------------------------
(* Archiving: git on a snapshot, then the writes.  A rule's archive also      *)
(* unregisters; a worker's clean-up has no plan file to move.                 *)

\* Raising: the rule goes on with its next plan, a command ends.
Fails(k) ==
  LET later == {p \in proc[k].todo : Merged(p)} IN
  IF proc[k].how = "auto" /\ later # {} THEN Archives(later) ELSE Ends(k)

LooksToArchive(p) ==
  /\ Commands /\ plan[p].status \in {"paused", "halted", "done"}
  /\ Begins("operator", "look", "manual", p)
  /\ UNCHANGED <<plan, git, md, registered>>

\* _maybe_cleanup_worktree: with a record, and nothing ahead of origin
LooksAtTree(k) ==
  LET p == proc[k].plan
      next == IF plan[p].worktree /\ Reachable(p) THEN "remove"
              ELSE IF proc[k].how = "complete" THEN "off" ELSE "move" IN
  /\ proc[k].pc = "look"
  /\ IF next = "off" THEN Ends(k)
     ELSE proc' = [proc EXCEPT ![k].pc = next,
                               ![k].shas = IF next = "remove" THEN {<<p, git[p].tip>>} ELSE @]
  /\ UNCHANGED <<plan, git, md, registered, used>>

\* The calls of _remove_worktree_and_branch: the worktree; the branch, which git keeps
\* while a worktree has it checked out; the branch on origin.
Called(k) ==
  LET p == proc[k].plan IN
  CASE proc[k].pc = "remove" -> [git EXCEPT ![p].dir = FALSE]
    [] proc[k].pc = "branch" -> [git EXCEPT ![p].branch = git[p].branch /\ git[p].dir]
    [] proc[k].pc = "remote" -> [git EXCEPT ![p].pushed = 0,
                                            ![p].pr = IF @ = "open" THEN "closed" ELSE @]

\* gc may ask for the worktree alone, and clu init has pushed nothing.
LastCall(k) ==
  \/ proc[k].pc = "remove" /\ proc[k].how = "gc"
  \/ proc[k].pc = "branch" /\ proc[k].how = "init"
  \/ proc[k].pc = "remote" /\ proc[k].how = "gc_branch"
AfterCall(k) ==
  \/ LastCall(k) /\ Ends(k)
  \/ ~LastCall(k) /\ proc[k].pc = "remove" /\ Goes(k, "branch")
  \/ ~LastCall(k) /\ proc[k].pc = "branch" /\ Goes(k, "remote")
  \/ /\ ~LastCall(k) /\ proc[k].pc = "remote"
     /\ proc' = [proc EXCEPT ![k].cleaned = TRUE,
                             ![k].shas = IF proc[k].how = "auto" THEN @ ELSE {},
                             ![k].pc = IF proc[k].how = "complete" THEN "persist" ELSE "move"]

\* Best effort: a call that git refuses is only recorded, and the branch on origin may
\* be one to keep.  One that takes too long raises, done or not, and nothing of the
\* removal is recorded (clu init sets no time limit).
RemovesTree(k) ==
  /\ proc[k].pc \in {"remove", "branch", "remote"}
  /\ \/ git' = Called(k) /\ UNCHANGED used /\ AfterCall(k)
     \/ proc[k].pc = "remote" /\ UNCHANGED <<git, used>> /\ AfterCall(k)
     \/ CallFails(k) /\ UNCHANGED git /\ AfterCall(k)
     \/ proc[k].how # "init" /\ CallFails(k) /\ git' \in {git, Called(k)} /\ Fails(k)
  /\ UNCHANGED <<plan, md, registered>>

\* git mv of the plan file, if it is there; a failure is raised later.
MovesPlanFile(k) ==
  LET p == proc[k].plan IN
  /\ proc[k].pc = "move"
  /\ \/ md' = [md EXCEPT ![p] = IF @ = "here" THEN "moved" ELSE @]
        /\ proc' = [proc EXCEPT ![k].pc = "persist", ![k].moved = md[p] = "here"]
        /\ UNCHANGED used
     \/ /\ md[p] = "here" /\ CallFails(k)
        /\ proc' = [proc EXCEPT ![k].pc = "persist", ![k].failed = TRUE]
        /\ UNCHANGED md
  /\ UNCHANGED <<plan, git, registered>>

\* _persist_worktree_cleanup: an archive also drops the ship markers.
Persists(k) ==
  LET p == proc[k].plan
      archives == proc[k].how # "complete" IN
  /\ proc[k].pc = "persist"
  /\ plan' = [plan EXCEPT ![p].worktree = @ /\ ~proc[k].cleaned,
                          ![p].ship_pending = @ /\ ~archives,
                          ![p].announced = IF archives THEN NoTip ELSE @]
  /\ IF archives THEN Goes(k, "events") ELSE Ends(k)
  /\ UNCHANGED <<git, md, registered, used>>

\* op_archive_events: the whole log leaves the table the supervisor reads.
ArchivesEvents(k) ==
  LET p == proc[k].plan IN
  /\ proc[k].pc = "events"
  /\ plan' = [plan EXCEPT ![p].logged = FALSE]
  /\ IF proc[k].failed THEN Fails(k)
     ELSE IF proc[k].moved THEN Goes(k, "commit")
     ELSE IF proc[k].how = "auto" THEN Goes(k, "unregister") ELSE Ends(k)
  /\ UNCHANGED <<git, md, registered, used>>

CommitsMove(k) ==
  LET p == proc[k].plan IN
  /\ proc[k].pc = "commit"
  /\ \/ /\ md' = [md EXCEPT ![p] = "archived"]
        /\ IF proc[k].how = "auto" THEN Goes(k, "unregister") ELSE Ends(k)
        /\ UNCHANGED used
     \/ CallFails(k) /\ Fails(k) /\ UNCHANGED md
  /\ UNCHANGED <<plan, git, registered>>

Unregisters(k) ==
  /\ proc[k].pc = "unregister"
  /\ registered' = registered \ {proc[k].plan}
  /\ Ends(k)
  /\ UNCHANGED <<plan, git, md, used>>

\* clu unregister --all-archived: the plans whose file is gone
UnregistersArchived ==
  /\ Commands /\ \E p \in registered : md[p] # "here"
  /\ registered' = {p \in registered : md[p] = "here"}
  /\ UNCHANGED <<plan, git, md, proc>>

-----------------------------------------------------------------------------
(* clu worktree gc: the status is read again before the removal, which leaves *)
(* the plan's record alone.                                                   *)

LooksToCollect(p) ==
  /\ Commands /\ plan[p].worktree /\ plan[p].status \in {"halted", "done"} /\ p \in registered
  /\ \E how \in {"gc", "gc_branch"} : Begins("operator", "recheck", how, p)
  /\ UNCHANGED <<plan, git, md, registered>>
CollectRechecks(k) ==
  LET p == proc[k].plan IN
  /\ proc[k].pc = "recheck"
  /\ IF plan[p].status \in {"halted", "done"} /\ Reachable(p)
     THEN proc' = [proc EXCEPT ![k].pc = "remove", ![k].shas = {<<p, git[p].tip>>}]
     ELSE Ends(k)
  /\ UNCHANGED <<plan, git, md, registered, used>>

-----------------------------------------------------------------------------
(* clu ship                                                                  *)

Shippable(p) == plan[p].status = "done" /\ plan[p].worktree /\ git[p].branch /\ ~Merged(p)

\* The next plan of a batch, whose branch its look found.
NextToShip(k, S) ==
  LET how == proc[k].how IN
  IF S = {} THEN Ends(k)
  ELSE proc' = [proc EXCEPT ![k] =
         [Off EXCEPT !.pc = IF how = "direct" THEN "merge" ELSE "open_pr", !.how = how,
                     !.plan = Min(S), !.todo = S \ {Min(S)}]]

\* --all-done: what a batch would ship
AllDone == {p \in registered : Shippable(p)}

LooksToShip(S, how, pc) ==
  /\ Commands /\ S # {}
  /\ (S = AllDone) \/ \E p \in S : S = {p} /\ Shippable(p)
  /\ proc' = [proc EXCEPT !["operator"] =
       [Off EXCEPT !.pc = pc, !.how = how, !.plan = Min(S), !.todo = S \ {Min(S)}]]
  /\ UNCHANGED <<plan, md, registered>>

\* Direct mode asks for a clean checkout, which one with a moved plan file that
\* was not committed is not.  A dry merge is tried first and may refuse (then
\* nothing happens); the operator may have pulled before.
LooksToShipDirect(S) ==
  /\ \A p \in Plan : md[p] # "moved"
  /\ LooksToShip(S, "direct", "merge")
  /\ \/ UNCHANGED git
     \/ git' = [p \in Plan |-> [git[p] EXCEPT !.main = Max({@, git[p].origin})]]

LooksToShipAsPr(S) == LooksToShip(S, "as_pr", "open_pr") /\ UNCHANGED git

\* A branch archived meanwhile cannot be merged.
ShipMerges(k) ==
  LET p == proc[k].plan IN
  /\ proc[k].pc = "merge"
  /\ IF git[p].branch
     THEN /\ git' = [git EXCEPT ![p].main = Max({@, git[p].tip})]
          /\ Goes(k, "push")
     ELSE UNCHANGED git /\ NextToShip(k, proc[k].todo)
  /\ UNCHANGED <<plan, md, registered, used>>

\* The push carries everything local main has; it is refused when origin has
\* what local main has not.  Local main stays ahead and a second run ends it.
ShipPushes(k) ==
  /\ proc[k].pc = "push"
  /\ IF \E p \in Plan : git[p].origin > git[p].main
     THEN UNCHANGED <<git, used>>
     ELSE \/ /\ git' = [p \in Plan |-> [git[p] EXCEPT !.origin = git[p].main]]
             /\ UNCHANGED used
          \/ CallFails(k) /\ UNCHANGED git
  /\ NextToShip(k, proc[k].todo)
  /\ UNCHANGED <<plan, md, registered>>

\* The branch is pushed and the pull request opened, or found open (gh pr
\* create); a branch archived meanwhile cannot be pushed.
OpensPr(k) ==
  LET p == proc[k].plan IN
  /\ proc[k].pc = "open_pr"
  /\ \/ /\ git[p].branch /\ Goes(k, "stamp") /\ UNCHANGED used
        /\ git' = [git EXCEPT ![p].pr = "open", ![p].pushed = git[p].tip]
     \/ ~git[p].branch /\ NextToShip(k, proc[k].todo) /\ UNCHANGED <<git, used>>
     \/ CallFails(k) /\ NextToShip(k, proc[k].todo) /\ UNCHANGED git
  /\ UNCHANGED <<plan, md, registered>>

StampsPending(k) ==
  LET p == proc[k].plan IN
  /\ proc[k].pc = "stamp"
  /\ plan' = [plan EXCEPT ![p].ship_pending = TRUE]
  /\ NextToShip(k, proc[k].todo)
  /\ UNCHANGED <<git, md, registered, used>>

\* GitHub merges or closes a pull request, and the operator fetches.
PrEnds(p) ==
  /\ git[p].pr = "open"
  /\ \E o \in {git[p].origin, Max({git[p].origin, git[p].pushed})} :
       git' = [git EXCEPT ![p].pr = "closed", ![p].pushed = 0, ![p].origin = o]
  /\ UNCHANGED <<plan, md, registered, proc, used>>

-----------------------------------------------------------------------------
Crashes(k) ==
  /\ proc[k].pc # "off" /\ Faults("crash") /\ Ends(k)
  /\ UNCHANGED <<plan, git, md, registered>>

Archiving(k) ==
  \/ LooksAtTree(k) \/ RemovesTree(k) \/ MovesPlanFile(k) \/ Persists(k)
  \/ ArchivesEvents(k) \/ CommitsMove(k) \/ Unregisters(k)

Next ==
  \/ \E p \in Plan :
       \/ Dispatches(p) \/ DeclaresDone(p) \/ CommitsWork(p) \/ WorkerCompletes(p)
       \/ Halts(p) \/ AppliesRule(p) \/ PrEnds(p)
  \/ \E p \in Operated :
       \/ Pauses(p) \/ ResumesOrRetries(p) \/ SetsUpWorktree(p) \/ AttachesWorktree(p)
       \/ ReattachesWorktree(p) \/ LooksToArchive(p) \/ LooksToCollect(p)
  \/ \E k \in Process : Archiving(k) \/ Crashes(k)
  \/ InitCreates("operator") \/ CollectRechecks("operator")
  \/ ShipMerges("operator") \/ ShipPushes("operator") \/ OpensPr("operator") \/ StampsPending("operator")
  \/ \E S \in {Operated, Plan} : LooksToShipDirect(S)
  \/ LooksToShipAsPr(Operated)
  \/ RunsRules \/ UnregistersArchived

Spec == Init /\ [][Next]_vars

\* cron ticks, and a tick that has begun goes on to its end.
FairSpec ==
  /\ Spec /\ WF_vars(RunsRules) /\ WF_vars(Archiving("tick"))
  /\ WF_vars(\E p \in Plan : AppliesRule(p))

-----------------------------------------------------------------------------
\* No archive, clean-up or collection deletes a branch whose tip, when it
\* looked, was not on origin: a ship whose push failed has merged nothing away.
DeletedIsOnOrigin ==
  [][\A p \in Plan : (git[p].branch /\ ~git'[p].branch) =>
       \E k \in Process : /\ proc[k].plan = p
                          /\ \/ proc[k].how = "init" /\ git[p].tip = git[p].main
                             \/ \E t \in 0..git[p].origin : proc[k].shas = {<<p, t>>}]_vars

\* The archive rule takes a plan off the registry only if origin had its work
\* when the rule looked.
UnregisteredIsShipped ==
  [][\A p \in registered \ registered' :
       (proc["tick"].pc = "unregister" /\ proc["tick"].plan = p /\ proc'["tick"] = Off) =>
         \A s \in proc["tick"].shas : s[1] = p /\ s[2] <= git[p].origin]_vars

Unmerged(p) == git[p].branch /\ git[p].tip > git[p].origin
DoneHere(p) == p \in registered /\ plan[p].status = "done" /\ plan[p].worktree

\* The rules take turns: none that fires keeps another's plan waiting for ever.
\* A finished branch, and one that moved after it was announced, is announced,
ReadyIsAnnounced ==
  \A p \in Plan :
    LET ready == /\ DoneHere(p) /\ Unmerged(p) /\ ~plan[p].ship_pending
                 /\ plan[p].announced # git[p].tip
    IN ready ~> ~ready

\* The rule is not at work on the plan, and has no worktree record or no branch left to
\* see it by: something failed or died on the way, or an operator's command came first.
Stranded(p) ==
  /\ used > 0 /\ proc["tick"].plan # p
  /\ ~(plan[p].worktree /\ git[p].branch)

\* a merged one is archived, its file committed and the plan off the registry, whatever
\* way it was shipped.  It may move ahead of origin again before that, or be stranded:
\* an archive that raises has cleared the record the rule looks for (cli.py:6353) and is
\* not tried again, which takes a fault or a command.  One whose worker cleaned up after
\* itself has no record from the start.
MergedIsArchived ==
  \A p \in Plan :
    LET merged == /\ DoneHere(p) /\ git[p].branch /\ ~Unmerged(p)
                  /\ proc["worker"].plan # p
    IN merged ~> \/ md[p] = "archived" /\ p \notin registered
                 \/ Unmerged(p) \/ Stranded(p)

\* a batch is tried again when one of its branches has moved,
BatchIsTried ==
  LET members == {p \in Plan : DoneHere(p) /\ git[p].branch}
      untried == /\ Cardinality(members) >= 2
                 /\ \A p \in members : plan[p].gate # {<<q, git[q].tip>> : q \in members}
  IN untried ~> ~untried

\* and plans that share the canonical checkout are marked as in conflict.
ConflictsAreMarked ==
  \A p \in Plan : \A q \in Plan \ {p} :
    LET shared == /\ {p, q} \subseteq registered
                  /\ \A r \in {p, q} : Active(r) /\ ~plan[r].worktree
    IN (shared /\ q \notin plan[p].in_conflict_with)
         ~> (~shared \/ q \in plan[p].in_conflict_with)
=============================================================================
