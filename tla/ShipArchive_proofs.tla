------------------------- MODULE ShipArchive_proofs -------------------------
(***************************************************************************)
(* The safety theorems of ShipArchive, for every number of plans, commits,  *)
(* commands and faults: what is deleted, and what leaves the registry, was  *)
(* on origin when whoever did it looked, if git knows which branch of       *)
(* origin is the default one (DefaultKnown: without it the look says yes).  *)
(*                                                                          *)
(* A command deletes long after it looked, and everybody else moves         *)
(* branches meanwhile.  ProcessOK follows what a process carries: what it   *)
(* saw was on origin (OnOrigin), and still is, because no step takes a      *)
(* commit from origin: a push is refused when local main lacks something.   *)
(* The one branch deleted without such a look is the one clu init made      *)
(* itself steps before (Making); it is at local main because its plan has   *)
(* no row yet, so nobody works there (NoneUnclaimed).                       *)
(***************************************************************************)
EXTENDS ShipArchive, WellFoundedInduction, TLAPS

File == {"here", "moved", "archived"}

TypeOK ==
  /\ plan \in [Plan -> PlanRow]
  /\ git \in [Plan -> GitState]
  /\ md \in [Plan -> File]
  /\ registered \in SUBSET Plan
  /\ proc \in [Process -> Proc]
  /\ used \in 0..MaxEvents

\* What was looked at is the tip of the branch in hand, and origin has it.
OnOrigin(k) ==
  DefaultKnown =>
    \E t \in 0..git[proc[k].plan].origin : proc[k].shas = {<<proc[k].plan, t>>}

\* clu init is making a row, or takes down again what it made.
Making(k) ==
  \/ proc[k].pc = "create"
  \/ proc[k].pc \in {"remove", "branch"} /\ proc[k].how = "init"

ProcessOK(k) ==
  LET r == proc[k] IN
  /\ r.pc \notin {"off", "apply"} => r.plan \in Plan
  /\ (r.pc \in {"remove", "branch", "remote"} /\ ~Making(k)) \/ r.how = "auto" =>
       r.plan \in Plan /\ OnOrigin(k)
  /\ r.pc = "unregister" => r.how = "auto"
  /\ r.how = "auto" => k = "tick"
  /\ r.pc \in {"look", "recheck"} => r.how # "init"
  /\ Making(k) => /\ k = "operator" /\ r.how = "init"
                  /\ plan[r.plan].status = "none"
                  /\ git[r.plan].tip = git[r.plan].main
  /\ r.pc = "apply" => /\ r.how \in {"conflict", "gate", "announce"}
                       /\ r.how = "announce" =>
                            \A p \in r.todo : \E t \in Tip : <<p, t>> \in r.shas

NoneUnclaimed == \A p \in Plan : plan[p].status = "none" => ~plan[p].claim

IInv == TypeOK /\ NoneUnclaimed /\ \A k \in Process : ProcessOK(k)

-----------------------------------------------------------------------------
(* Types                                                                    *)

\* The first plan of a batch is one of it: Min is defined by CHOOSE.
LEMMA LeastElement ==
  ASSUME NEW T, T \subseteq Plan, T # {}
  PROVE  Min(T) \in T
<1>1. T \subseteq Nat
  BY DEF Plan
<1>2. \E p \in T : \A q \in T : ~ (<<q, p>> \in OpToRel(<, Nat))
  BY <1>1, NatLessThanWellFounded, WFMin
<1>3. \A p, q \in Nat : ~ (<<q, p>> \in OpToRel(<, Nat)) => p <= q
  BY DEF OpToRel
<1>4. \E p \in T : \A q \in T : p <= q
  BY <1>1, <1>2, <1>3
<1> QED BY <1>4 DEF Min

\* Max of two tips is one of them, and above both.
LEMMA LargerOfTwo ==
  ASSUME NEW a \in Int, NEW b \in Int
  PROVE  Max({a, b}) \in {a, b} /\ Max({a, b}) >= a /\ Max({a, b}) >= b
<1>1. \E x \in {a, b} : \A y \in {a, b} : x >= y
  OBVIOUS
<1> QED BY <1>1 DEF Max

\* Tips and plans are numbers, and none of the marks for none.
LEMMA Bounds ==
  /\ MaxTip \in Nat /\ 0 \in Tip /\ Tip \subseteq Nat
  /\ NoTip \notin Tip /\ Plan \subseteq Nat /\ 1 \in Plan /\ 0 \notin Plan
BY BoundsAssumption DEF Tip, NoTip, Plan

\* What git has of a plan can be compared.
LEMMA GitNumbers ==
  ASSUME NEW g \in GitState
  PROVE  g.tip \in Int /\ g.main \in Int /\ g.origin \in Int /\ g.pushed \in Int
<1>1. g.tip \in Tip /\ g.main \in Tip /\ g.origin \in Tip /\ g.pushed \in Tip
  BY DEF GitState
<1> QED BY <1>1, BoundsAssumption DEF Tip

\* The processes of the model.
LEMMA ProcessType ==
  ASSUME TypeOK, NEW k \in Process
  PROVE  /\ Off \in Proc
         /\ \A pc \in Pc : Goes(k, pc) => proc' \in [Process -> Proc]
         /\ Ends(k) => proc' \in [Process -> Proc]
         /\ \A T \in SUBSET Plan : NextToShip(k, T) =>
              proc' \in [Process -> Proc]
         /\ \A T \in SUBSET Plan : T # {} /\ Archives(T) =>
              proc' \in [Process -> Proc]
<1>1. Off \in Proc
  BY DEF Off, Proc, Pc, Shas
<1>2. \A pc \in Pc, r \in Proc : [r EXCEPT !.pc = pc] \in Proc
  BY DEF Proc
<1>3. ASSUME NEW T \in SUBSET Plan, NextToShip(k, T)
      PROVE  proc' \in [Process -> Proc]
  <2>1. CASE T = {}
    BY <1>1, <1>3, <2>1 DEF NextToShip, Ends, TypeOK
  <2>2. CASE T # {}
    <3> DEFINE r == [Off EXCEPT !.pc = IF proc[k].how = "direct" THEN "merge" ELSE "open_pr",
                                !.how = proc[k].how, !.plan = Min(T), !.todo = T \ {Min(T)}]
    <3>1. Min(T) \in Plan /\ T \ {Min(T)} \in SUBSET Plan
      BY <2>2, LeastElement
    <3>2. r \in Proc
      BY <1>1, <3>1 DEF TypeOK, Proc, Pc
    <3>3. proc' = [proc EXCEPT ![k] = r]
      BY <1>3, <2>2 DEF NextToShip
    <3> QED BY <3>2, <3>3 DEF TypeOK
  <2> QED BY <2>1, <2>2
<1>4. ASSUME NEW T \in SUBSET Plan, T # {}, Archives(T)
      PROVE  proc' \in [Process -> Proc]
  <2> DEFINE r == [Off EXCEPT !.pc = "look", !.how = "auto", !.plan = Min(T),
                              !.todo = T \ {Min(T)}, !.shas = {<<Min(T), git[Min(T)].tip>>}]
  <2>1. Min(T) \in Plan /\ T \ {Min(T)} \in SUBSET Plan
    BY <1>4, LeastElement
  <2>2. git[Min(T)].tip \in Tip
    BY <2>1 DEF TypeOK, GitState
  <2>3. {<<Min(T), git[Min(T)].tip>>} \in Shas
    BY <2>1, <2>2 DEF Shas
  <2>4. r \in Proc
    BY <1>1, <2>1, <2>3 DEF Proc, Pc
  <2>5. proc' = [proc EXCEPT !["tick"] = r]
    BY <1>4 DEF Archives
  <2> QED BY <2>4, <2>5 DEF TypeOK
<1>5. \A pc \in Pc : Goes(k, pc) => proc' \in [Process -> Proc]
  BY <1>2 DEF Goes, TypeOK
<1>6. Ends(k) => proc' \in [Process -> Proc]
  BY <1>1 DEF Ends, TypeOK
<1> QED BY <1>1, <1>3, <1>4, <1>5, <1>6

\* A process that begins a command is a process.
LEMMA BeginsType ==
  ASSUME TypeOK, NEW k \in Process, NEW p \in Plan, NEW pc \in Pc,
         NEW how \in {"complete", "init", "manual", "gc", "gc_branch"}, Begins(k, pc, how, p)
  PROVE  proc' \in [Process -> Proc]
<1>1. [Off EXCEPT !.pc = pc, !.how = how, !.plan = p] \in Proc
  BY ProcessType DEF Proc
<1> QED BY <1>1 DEF Begins, TypeOK

\* Commands and faults are counted up to their bound.
LEMMA CountsType ==
  ASSUME TypeOK,
         \/ Commands \/ UNCHANGED used \/ \E kind : Faults(kind) \/ \E k : CallFails(k)
  PROVE  used' \in 0..MaxEvents
BY BoundsAssumption DEF Commands, Faults, CallFails, TypeOK

\* What may become of a plan's row and of its branch.
LEMMA RowType ==
  ASSUME NEW r \in PlanRow
  PROVE  /\ \A s \in {"none", "running", "paused", "halted", "done"} :
              [r EXCEPT !.status = s] \in PlanRow
         /\ \A b \in BOOLEAN : /\ [r EXCEPT !.claim = b] \in PlanRow
                               /\ [r EXCEPT !.logged = b] \in PlanRow
                               /\ [r EXCEPT !.worktree = b] \in PlanRow
                               /\ [r EXCEPT !.ship_pending = b] \in PlanRow
                               /\ [r EXCEPT !.claim = FALSE, !.logged = b] \in PlanRow
         /\ \A T \in SUBSET Plan : [r EXCEPT !.in_conflict_with = T] \in PlanRow
         /\ \A T \in Shas : [r EXCEPT !.gate = T] \in PlanRow
         /\ \A t \in Tip : [r EXCEPT !.announced = t] \in PlanRow
BY DEF PlanRow

\* The rows of clu init are rows.
LEMMA CreatedType ==
  NoRow \in PlanRow /\ \A b \in BOOLEAN : Created(b) \in PlanRow
<1>1. NoRow \in PlanRow
  BY DEF NoRow, PlanRow, Shas
<1> QED BY <1>1 DEF Created, PlanRow

\* What commits, merges, pushes and removals make of a branch.
LEMMA GitType ==
  ASSUME NEW g \in GitState
  PROVE  /\ \A t \in Tip : /\ [g EXCEPT !.tip = t] \in GitState
                           /\ [g EXCEPT !.main = t] \in GitState
                           /\ [g EXCEPT !.origin = t] \in GitState
                           /\ [g EXCEPT !.pr = "open", !.pushed = t] \in GitState
                           /\ [g EXCEPT !.pr = "closed", !.pushed = 0, !.origin = t] \in GitState
         /\ [g EXCEPT !.dir = TRUE] \in GitState /\ [g EXCEPT !.dir = FALSE] \in GitState
         /\ \A b \in BOOLEAN : [g EXCEPT !.branch = b] \in GitState
         /\ [g EXCEPT !.branch = TRUE, !.dir = TRUE, !.tip = g.main] \in GitState
         /\ [g EXCEPT !.pushed = 0, !.pr = IF @ = "open" THEN "closed" ELSE @] \in GitState
         /\ [Fresh EXCEPT !.tip = g.main, !.main = g.main, !.origin = g.origin] \in GitState
<1>1. 0 \in Tip
  BY Bounds
<1>2. Fresh \in GitState /\ NoGit \in GitState
  BY <1>1 DEF Fresh, NoGit, GitState
<1> QED BY <1>1, <1>2 DEF GitState

-----------------------------------------------------------------------------
(* Every step keeps the types                                               *)

\* What a plan's life does,
LEMMA LifeType ==
  ASSUME TypeOK, NEW p \in Plan,
         \/ Dispatches(p) \/ DeclaresDone(p) \/ CommitsWork(p) \/ WorkerCompletes(p) \/ Halts(p)
         \/ Pauses(p) \/ ResumesOrRetries(p) \/ PrEnds(p) \/ ReattachesWorktree(p)
         \/ AttachesWorktree(p)
  PROVE  TypeOK'
<1>1. plan[p] \in PlanRow /\ git[p] \in GitState
  BY DEF TypeOK
<1>2. plan' \in [Plan -> PlanRow]
  <2>1. \/ UNCHANGED plan
        \/ \E s \in {"running", "paused", "halted", "done"} :
             plan' = [plan EXCEPT ![p] = [plan[p] EXCEPT !.status = s]]
        \/ plan' = [plan EXCEPT ![p] = [plan[p] EXCEPT !.claim = TRUE]]
        \/ plan' = [plan EXCEPT ![p] = [plan[p] EXCEPT !.claim = FALSE, !.logged = TRUE]]
        \/ plan' = [plan EXCEPT ![p] = [plan[p] EXCEPT !.worktree = TRUE]]
    BY DEF Dispatches, DeclaresDone, CommitsWork, WorkerCompletes, Halts, Pauses,
           ResumesOrRetries, PrEnds, ReattachesWorktree, AttachesWorktree
  <2>2. /\ \A s \in {"running", "paused", "halted", "done"} :
             [plan[p] EXCEPT !.status = s] \in PlanRow
        /\ [plan[p] EXCEPT !.claim = TRUE] \in PlanRow
        /\ [plan[p] EXCEPT !.claim = FALSE, !.logged = TRUE] \in PlanRow
        /\ [plan[p] EXCEPT !.worktree = TRUE] \in PlanRow
    BY <1>1, RowType
  <2> QED BY <2>1, <2>2 DEF TypeOK
<1>3. git' \in [Plan -> GitState]
  <2>1. CASE CommitsWork(p)
    <3>1. git[p].tip + 1 \in Tip
      BY <1>1, <2>1, Bounds DEF CommitsWork, GitState, Tip
    <3>2. git' = [git EXCEPT ![p] = [git[p] EXCEPT !.tip = git[p].tip + 1]]
      BY <2>1 DEF CommitsWork
    <3> QED BY <1>1, <3>1, <3>2, GitType DEF TypeOK
  <2>2. CASE PrEnds(p)
    <3>1. git[p].origin \in Tip /\ git[p].pushed \in Tip /\ Tip \subseteq Int
      BY <1>1, Bounds DEF GitState
    <3>2. Max({git[p].origin, git[p].pushed}) \in Tip
      BY <3>1, LargerOfTwo
    <3>3. PICK o \in Tip : git' = [git EXCEPT ![p] =
                                     [git[p] EXCEPT !.pr = "closed", !.pushed = 0, !.origin = o]]
      BY <2>2, <3>1, <3>2 DEF PrEnds
    <3>4. [git[p] EXCEPT !.pr = "closed", !.pushed = 0, !.origin = o] \in GitState
      BY <1>1, GitType
    <3> QED BY <3>3, <3>4 DEF TypeOK
  <2>3. CASE ReattachesWorktree(p)
    <3>1. git' = [git EXCEPT ![p] = [git[p] EXCEPT !.dir = TRUE]]
      BY <2>3 DEF ReattachesWorktree
    <3> QED BY <1>1, <3>1, GitType DEF TypeOK
  <2>4. CASE AttachesWorktree(p)
    <3>1. \/ git' = [git EXCEPT ![p] = [git[p] EXCEPT !.dir = TRUE]]
          \/ git' = [git EXCEPT ![p] =
                       [git[p] EXCEPT !.branch = TRUE, !.dir = TRUE, !.tip = git[p].main]]
      BY <2>4 DEF AttachesWorktree
    <3> QED BY <1>1, <3>1, GitType DEF TypeOK
  <2>5. CASE UNCHANGED git
    BY <2>5 DEF TypeOK
  <2> QED BY <2>1, <2>2, <2>3, <2>4, <2>5
          DEF Dispatches, DeclaresDone, WorkerCompletes, Halts, Pauses, ResumesOrRetries
<1>4. proc' \in [Process -> Proc]
  <2>1. "worker" \in Process /\ "look" \in Pc
    BY DEF Process, Pc
  <2>2. UNCHANGED proc \/ Begins("worker", "look", "complete", p)
    BY DEF Dispatches, DeclaresDone, CommitsWork, WorkerCompletes, Halts, Pauses,
           ResumesOrRetries, PrEnds, ReattachesWorktree, AttachesWorktree
  <2> QED BY <2>1, <2>2, BeginsType DEF TypeOK
<1>5. used' \in 0..MaxEvents
  BY CountsType
     DEF Dispatches, DeclaresDone, CommitsWork, WorkerCompletes, Halts, Pauses,
         ResumesOrRetries, PrEnds, ReattachesWorktree, AttachesWorktree
<1>6. UNCHANGED <<md, registered>>
  BY DEF Dispatches, DeclaresDone, CommitsWork, WorkerCompletes, Halts, Pauses,
         ResumesOrRetries, PrEnds, ReattachesWorktree, AttachesWorktree
<1> QED BY <1>2, <1>3, <1>4, <1>5, <1>6 DEF TypeOK

\* what clu init does,
LEMMA InitCommandType ==
  ASSUME TypeOK, NEW k \in Process, ProcessOK(k), NEW p \in Plan,
         SetsUpWorktree(p) \/ InitCreates(k)
  PROVE  TypeOK'
<1>1. git[p] \in GitState /\ "operator" \in Process /\ "create" \in Pc
  BY DEF TypeOK, Process, Pc
<1>2. CASE SetsUpWorktree(p)
  <2>1. git' \in [Plan -> GitState]
    <3>1. [Fresh EXCEPT !.tip = git[p].main, !.main = git[p].main, !.origin = git[p].origin]
            \in GitState
      BY <1>1, GitType
    <3> QED BY <1>2, <3>1 DEF SetsUpWorktree, TypeOK
  <2>2. proc' \in [Process -> Proc]
    BY <1>1, <1>2, BeginsType DEF SetsUpWorktree
  <2>3. used' \in 0..MaxEvents
    BY <1>2, CountsType DEF SetsUpWorktree
  <2> QED BY <1>2, <2>1, <2>2, <2>3 DEF SetsUpWorktree, TypeOK
<1>3. CASE InitCreates(k)
  <2> DEFINE q == proc[k].plan
  <2>1. q \in Plan
    BY <1>3 DEF InitCreates, ProcessOK
  <2>2. plan' \in [Plan -> PlanRow]
    BY <1>3, CreatedType DEF InitCreates, TypeOK
  <2>3. registered' \in SUBSET Plan
    BY <1>3, <2>1 DEF InitCreates, TypeOK
  <2>4. proc' \in [Process -> Proc]
    <3>1. "remove" \in Pc
      BY DEF Pc
    <3> QED BY <1>3, <3>1, ProcessType DEF InitCreates
  <2>5. used' \in 0..MaxEvents
    BY <1>3, CountsType DEF InitCreates
  <2> QED BY <1>3, <2>2, <2>3, <2>4, <2>5 DEF InitCreates, TypeOK
<1> QED BY <1>2, <1>3

\* what the rules of a tick do,
LEMMA RuleType ==
  ASSUME TypeOK, ProcessOK("tick"), RunsRules \/ \E p \in Plan : AppliesRule(p)
  PROVE  TypeOK'
<1> DEFINE k == "tick"
<1>1. k \in Process /\ proc[k] \in Proc
  BY DEF Process, TypeOK
<1>2. CASE RunsRules
  <2>1. \A p \in Plan : git[p].tip \in Tip
    BY DEF TypeOK, GitState
  <2>2. /\ StaleConflicts \in SUBSET Plan /\ Clash \in SUBSET Plan /\ Group \in SUBSET Plan
        /\ Ready \in SUBSET Plan /\ Archivable \in SUBSET Plan
    BY DEF TypeOK, StaleConflicts, Clash, Group, Ready, Archivable
  <2>3. /\ GroupShas \in Shas /\ {<<p, git[p].tip>> : p \in Ready} \in Shas
        /\ Clash \X {0} \in Shas
    <3>1. \A T \in SUBSET Plan : {<<p, git[p].tip>> : p \in T} \in Shas
      BY <2>1 DEF Shas
    <3>2. \A T \in SUBSET Plan : T \X {0} \in Shas
      BY Bounds DEF Shas
    <3> QED BY <2>2, <3>1, <3>2 DEF GroupShas
  <2>4. ASSUME NEW how \in {"conflict", "gate", "announce"}, NEW T \in SUBSET Plan,
               NEW shas \in Shas, Decision(how, T, shas)
        PROVE  proc' \in [Process -> Proc]
    <3>1. [Off EXCEPT !.pc = "apply", !.how = how, !.todo = T, !.shas = shas] \in Proc
      BY <1>1, ProcessType DEF Proc, Pc
    <3> QED BY <2>4, <3>1 DEF Decision, TypeOK
  <2>5. \/ Decision("conflict", StaleConflicts, Clash \X {0})
        \/ Decision("gate", Group, GroupShas)
        \/ Decision("announce", Ready, {<<p, git[p].tip>> : p \in Ready})
        \/ Archivable # {} /\ Archives(Archivable)
    BY <1>2 DEF RunsRules
  <2>6. proc' \in [Process -> Proc]
    BY <1>1, <2>2, <2>3, <2>4, <2>5, ProcessType
  <2> QED BY <1>2, <2>6 DEF RunsRules, TypeOK
<1>3. ASSUME NEW p \in Plan, AppliesRule(p)
      PROVE  TypeOK'
  <2>1. plan[p] \in PlanRow /\ proc[k].pc = "apply" /\ p \in proc[k].todo
    BY <1>3 DEF TypeOK, AppliesRule
  <2>2. plan' \in [Plan -> PlanRow]
    <3>1. plan' = Stamped(p, proc[k].how, proc[k].shas)
      BY <1>3 DEF AppliesRule
    <3>2. CASE proc[k].how = "conflict"
      <4>1. ConflictsIn(proc[k].shas, p) \in SUBSET Plan
        BY DEF ConflictsIn
      <4>2. plan' = [plan EXCEPT ![p].in_conflict_with = ConflictsIn(proc[k].shas, p)]
        BY <3>1, <3>2 DEF Stamped
      <4> QED BY <2>1, <4>1, <4>2, RowType DEF TypeOK
    <3>3. CASE proc[k].how = "gate"
      <4>1. plan' = [plan EXCEPT ![p].gate = proc[k].shas] /\ proc[k].shas \in Shas
        BY <1>1, <3>1, <3>3 DEF Stamped, Proc
      <4> QED BY <2>1, <4>1, RowType DEF TypeOK
    <3>4. CASE proc[k].how = "announce"
      <4> DEFINE t == CHOOSE u \in Tip : <<p, u>> \in proc[k].shas
      <4>1. t \in Tip
        BY <2>1, <3>4 DEF ProcessOK
      <4>2. plan' = [plan EXCEPT ![p].announced = t]
        BY <3>1, <3>4 DEF Stamped
      <4> HIDE DEF t
      <4> QED BY <2>1, <4>1, <4>2, RowType DEF TypeOK
    <3> QED BY <2>1, <3>2, <3>3, <3>4 DEF ProcessOK
  <2>3. proc' \in [Process -> Proc]
    <3>1. [proc[k] EXCEPT !.todo = @ \ {p}] \in Proc
      BY <1>1 DEF Proc
    <3> QED BY <1>3, <3>1, ProcessType DEF AppliesRule, TypeOK
  <2> QED BY <1>3, <2>2, <2>3 DEF AppliesRule, TypeOK
<1> QED BY <1>2, <1>3

\* an archive that raises,
LEMMA FailsType ==
  ASSUME TypeOK, NEW k \in Process, Fails(k)
  PROVE  proc' \in [Process -> Proc]
<1>1. {p \in proc[k].todo : Merged(p)} \in SUBSET Plan
  BY DEF TypeOK, Proc
<1> QED BY <1>1, ProcessType DEF Fails

\* a call of git on the way,
LEMMA CalledType ==
  ASSUME TypeOK, NEW k \in Process, proc[k].plan \in Plan,
         proc[k].pc \in {"remove", "branch", "remote"}
  PROVE  /\ Called(k) \in [Plan -> GitState]
         /\ \A q \in Plan : /\ Called(k)[q].tip = git[q].tip /\ Called(k)[q].main = git[q].main
                            /\ Called(k)[q].origin = git[q].origin
                            /\ q # proc[k].plan => Called(k)[q] = git[q]
<1> DEFINE p == proc[k].plan
           x == [git[p] EXCEPT !.dir = FALSE]
           y == [git[p] EXCEPT !.branch = git[p].branch /\ git[p].dir]
           z == [git[p] EXCEPT !.pushed = 0, !.pr = IF @ = "open" THEN "closed" ELSE @]
<1>1. git \in [Plan -> GitState] /\ git[p] \in GitState
  BY DEF TypeOK
<1>2. x \in GitState /\ z \in GitState
  BY <1>1, GitType
<1>3. y \in GitState
  <2>1. (git[p].branch /\ git[p].dir) \in BOOLEAN
    OBVIOUS
  <2> QED BY <1>1, <2>1, GitType
<1>4. \A g \in {x, y, z} :
        g.tip = git[p].tip /\ g.main = git[p].main /\ g.origin = git[p].origin
  BY <1>1 DEF GitState
<1>5. PICK g \in {x, y, z} : Called(k) = [git EXCEPT ![p] = g]
  <2>1. CASE proc[k].pc = "remove"
    BY <2>1 DEF Called
  <2>2. CASE proc[k].pc = "branch"
    BY <2>2 DEF Called
  <2>3. CASE proc[k].pc = "remote"
    BY <2>3 DEF Called
  <2> QED BY <2>1, <2>2, <2>3
<1> HIDE DEF x, y, z
<1> QED BY <1>1, <1>2, <1>3, <1>4, <1>5

\* and what comes after it,
LEMMA AfterCallType ==
  ASSUME TypeOK, NEW k \in Process, AfterCall(k)
  PROVE  proc' \in [Process -> Proc]
<1>1. proc[k] \in Proc /\ {"branch", "remote", "persist", "move"} \subseteq Pc /\ {} \in Shas
  BY DEF TypeOK, Pc, Shas
<1>2. Ends(k) \/ Goes(k, "branch") \/ Goes(k, "remote") => proc' \in [Process -> Proc]
  BY <1>1, ProcessType
<1>3. ASSUME NEW pc \in {"persist", "move"}, NEW S \in {proc[k].shas, {}},
             proc' = [proc EXCEPT ![k] = [proc[k] EXCEPT !.cleaned = TRUE, !.shas = S, !.pc = pc]]
      PROVE  proc' \in [Process -> Proc]
  <2>1. [proc[k] EXCEPT !.cleaned = TRUE, !.shas = S, !.pc = pc] \in Proc
    BY <1>1 DEF Proc
  <2> QED BY <1>3, <2>1 DEF TypeOK
<1>4. \/ Ends(k) \/ Goes(k, "branch") \/ Goes(k, "remote")
      \/ \E pc \in {"persist", "move"}, S \in {proc[k].shas, {}} :
           proc' = [proc EXCEPT ![k] = [proc[k] EXCEPT !.cleaned = TRUE, !.shas = S, !.pc = pc]]
  BY DEF AfterCall
<1> QED BY <1>2, <1>3, <1>4

\* one that goes on,
LEMMA ArchivingType ==
  ASSUME TypeOK, NEW k \in Process, ProcessOK(k), Archiving(k)
  PROVE  TypeOK'
<1> DEFINE p == proc[k].plan
<1>1. p \in Plan /\ proc[k] \in Proc
  BY DEF Archiving, LooksAtTree, RemovesTree, MovesPlanFile, Persists, ArchivesEvents, CommitsMove,
         Unregisters, ProcessOK, TypeOK
<1>2. plan[p] \in PlanRow /\ git[p] \in GitState
  BY <1>1 DEF TypeOK
<1>3. {<<p, git[p].tip>>} \in Shas /\ {} \in Shas
  BY <1>1, <1>2 DEF Shas, GitState
<1>4. \A pc \in Pc : [proc[k] EXCEPT !.pc = pc] \in Proc
  BY <1>1 DEF Proc
<1> HIDE DEF p
<1>5. CASE LooksAtTree(k)
  <2>1. \A pc \in Pc, S \in Shas : [proc[k] EXCEPT !.pc = pc, !.shas = S] \in Proc
    BY <1>1 DEF Proc
  <2>2. proc[k].shas \in Shas /\ "remove" \in Pc /\ "move" \in Pc
    BY <1>1 DEF Proc, Pc
  <2>3. \/ Ends(k)
        \/ \E pc \in {"remove", "move"}, S \in {proc[k].shas, {<<p, git[p].tip>>}} :
             proc' = [proc EXCEPT ![k] = [proc[k] EXCEPT !.pc = pc, !.shas = S]]
    BY <1>5 DEF LooksAtTree, p
  <2>4. proc' \in [Process -> Proc]
    <3>1. CASE Ends(k)
      BY <3>1, ProcessType
    <3>2. ASSUME NEW pc \in {"remove", "move"}, NEW S \in {proc[k].shas, {<<p, git[p].tip>>}},
                 proc' = [proc EXCEPT ![k] = [proc[k] EXCEPT !.pc = pc, !.shas = S]]
          PROVE  proc' \in [Process -> Proc]
      <4>1. [proc[k] EXCEPT !.pc = pc, !.shas = S] \in Proc
        BY <1>3, <2>1, <2>2
      <4> QED BY <3>2, <4>1 DEF TypeOK
    <3> QED BY <2>3, <3>1, <3>2
  <2> QED BY <1>5, <2>4 DEF LooksAtTree, TypeOK
<1>6. CASE RemovesTree(k)
  <2>1. proc' \in [Process -> Proc]
    BY <1>6, AfterCallType, FailsType DEF RemovesTree
  <2>2. git' \in [Plan -> GitState]
    <3>1. git' \in {git, Called(k)} /\ proc[k].pc \in {"remove", "branch", "remote"}
      BY <1>6 DEF RemovesTree
    <3>2. Called(k) \in [Plan -> GitState]
      BY <1>1, <3>1, CalledType DEF p
    <3> QED BY <3>1, <3>2 DEF TypeOK
  <2>3. used' \in 0..MaxEvents
    BY <1>6, CountsType DEF RemovesTree
  <2> QED BY <1>6, <2>1, <2>2, <2>3 DEF RemovesTree, TypeOK
<1>7. CASE MovesPlanFile(k)
  <2>1. /\ [proc[k] EXCEPT !.pc = "persist", !.moved = md[p] = "here"] \in Proc
        /\ [proc[k] EXCEPT !.pc = "persist", !.failed = TRUE] \in Proc
    <3>1. (md[p] = "here") \in BOOLEAN /\ "persist" \in Pc
      BY DEF Pc
    <3>2. \A b \in BOOLEAN, pc \in Pc : /\ [proc[k] EXCEPT !.pc = pc, !.moved = b] \in Proc
                                        /\ [proc[k] EXCEPT !.pc = pc, !.failed = TRUE] \in Proc
      BY <1>1 DEF Proc
    <3> QED BY <3>1, <3>2
  <2>2. \/ proc' = [proc EXCEPT ![k] = [proc[k] EXCEPT !.pc = "persist", !.moved = md[p] = "here"]]
        \/ proc' = [proc EXCEPT ![k] = [proc[k] EXCEPT !.pc = "persist", !.failed = TRUE]]
    BY <1>7 DEF MovesPlanFile, p
  <2>3. proc' \in [Process -> Proc]
    BY <2>1, <2>2 DEF TypeOK
  <2>4. md' \in [Plan -> File]
    BY <1>7 DEF MovesPlanFile, TypeOK, File
  <2>5. used' \in 0..MaxEvents
    BY <1>7, CountsType DEF MovesPlanFile
  <2> QED BY <1>7, <2>3, <2>4, <2>5 DEF MovesPlanFile, TypeOK
<1>8. CASE Persists(k)
  <2>1. \A a, b \in BOOLEAN, t \in Tip \cup {NoTip} :
          [plan[p] EXCEPT !.worktree = a, !.ship_pending = b, !.announced = t] \in PlanRow
    BY <1>2 DEF PlanRow
  <2>2. PICK a \in BOOLEAN, b \in BOOLEAN, t \in Tip \cup {NoTip} :
          plan' = [plan EXCEPT ![p] =
                     [plan[p] EXCEPT !.worktree = a, !.ship_pending = b, !.announced = t]]
    <3> DEFINE x == plan[p].worktree /\ ~proc[k].cleaned
               y == plan[p].ship_pending /\ ~(proc[k].how # "complete")
               z == IF proc[k].how # "complete" THEN NoTip ELSE plan[p].announced
    <3>1. x \in BOOLEAN /\ y \in BOOLEAN
      OBVIOUS
    <3>2. z \in Tip \cup {NoTip}
      BY <1>2 DEF PlanRow
    <3>3. plan' = [plan EXCEPT ![p] =
                     [plan[p] EXCEPT !.worktree = x, !.ship_pending = y, !.announced = z]]
      BY <1>8 DEF Persists, p
    <3> HIDE DEF x, y, z
    <3> QED BY <3>1, <3>2, <3>3
  <2>3. plan' \in [Plan -> PlanRow]
    <3>1. [plan[p] EXCEPT !.worktree = a, !.ship_pending = b, !.announced = t] \in PlanRow
      BY <2>1
    <3> QED BY <2>2, <3>1 DEF TypeOK
  <2>4. proc' \in [Process -> Proc]
    <3>1. "events" \in Pc
      BY DEF Pc
    <3> QED BY <1>8, <3>1, ProcessType DEF Persists
  <2> QED BY <1>8, <2>3, <2>4 DEF Persists, TypeOK
<1>9. CASE ArchivesEvents(k)
  <2>1. plan' \in [Plan -> PlanRow]
    <3>1. plan' = [plan EXCEPT ![p] = [plan[p] EXCEPT !.logged = FALSE]]
      BY <1>9 DEF ArchivesEvents, p
    <3> QED BY <1>2, <3>1, RowType DEF TypeOK
  <2>2. proc' \in [Process -> Proc]
    <3>1. "commit" \in Pc /\ "unregister" \in Pc
      BY DEF Pc
    <3> QED BY <1>9, <3>1, ProcessType, FailsType DEF ArchivesEvents
  <2> QED BY <1>9, <2>1, <2>2 DEF ArchivesEvents, TypeOK
<1>10. CASE CommitsMove(k)
  <2>1. md' \in [Plan -> File]
    BY <1>10 DEF CommitsMove, TypeOK, File
  <2>2. proc' \in [Process -> Proc]
    <3>1. "unregister" \in Pc
      BY DEF Pc
    <3> QED BY <1>10, <3>1, ProcessType, FailsType DEF CommitsMove
  <2>3. used' \in 0..MaxEvents
    BY <1>10, CountsType DEF CommitsMove
  <2> QED BY <1>10, <2>1, <2>2, <2>3 DEF CommitsMove, TypeOK
<1>11. CASE Unregisters(k)
  BY <1>11, ProcessType DEF Unregisters, TypeOK
<1> QED BY <1>5, <1>6, <1>7, <1>8, <1>9, <1>10, <1>11 DEF Archiving

\* what the looks of commands, clu worktree gc and crashes do,
LEMMA CollectType ==
  ASSUME TypeOK, NEW k \in Process, ProcessOK(k), NEW p \in Plan,
         \/ LooksToArchive(p) \/ LooksToCollect(p) \/ CollectRechecks(k)
         \/ UnregistersArchived \/ Crashes(k)
  PROVE  TypeOK'
<1>1. "operator" \in Process /\ "look" \in Pc /\ "recheck" \in Pc /\ proc[k] \in Proc
  BY DEF Process, Pc, TypeOK
<1>2. used' \in 0..MaxEvents
  BY CountsType
     DEF LooksToArchive, LooksToCollect, CollectRechecks, UnregistersArchived, Crashes
<1>3. CASE LooksToArchive(p) \/ LooksToCollect(p)
  <2>1. \E pc \in {"look", "recheck"}, how \in {"manual", "gc", "gc_branch"} :
          Begins("operator", pc, how, p)
    BY <1>3 DEF LooksToArchive, LooksToCollect
  <2>2. proc' \in [Process -> Proc]
    BY <1>1, <2>1, BeginsType
  <2> QED BY <1>2, <1>3, <2>2 DEF LooksToArchive, LooksToCollect, TypeOK
<1>4. CASE CollectRechecks(k)
  <2> DEFINE q == proc[k].plan
  <2>1. q \in Plan
    BY <1>4 DEF CollectRechecks, ProcessOK
  <2>2. {<<q, git[q].tip>>} \in Shas
    BY <2>1 DEF TypeOK, GitState, Shas
  <2>3. [proc[k] EXCEPT !.pc = "remove", !.shas = {<<q, git[q].tip>>}] \in Proc
    BY <1>1, <2>2 DEF Proc, Pc
  <2>4. \/ Ends(k)
        \/ proc' = [proc EXCEPT ![k] =
                      [proc[k] EXCEPT !.pc = "remove", !.shas = {<<q, git[q].tip>>}]]
    BY <1>4 DEF CollectRechecks
  <2>5. proc' \in [Process -> Proc]
    BY <2>3, <2>4, ProcessType DEF TypeOK
  <2> QED BY <1>4, <2>5 DEF CollectRechecks, TypeOK
<1>5. CASE UnregistersArchived
  BY <1>2, <1>5 DEF UnregistersArchived, TypeOK
<1>6. CASE Crashes(k)
  BY <1>2, <1>6, ProcessType DEF Crashes, TypeOK
<1> QED BY <1>3, <1>4, <1>5, <1>6

\* and what clu ship does.
LEMMA ShipType ==
  ASSUME TypeOK, ProcessOK("operator"),
         \/ \E T \in SUBSET Plan : LooksToShipDirect(T) \/ LooksToShipAsPr(T)
         \/ ShipMerges("operator") \/ ShipPushes("operator") \/ OpensPr("operator")
         \/ StampsPending("operator")
  PROVE  TypeOK'
<1> DEFINE k == "operator"
           p == proc[k].plan
<1>1. k \in Process /\ proc[k] \in Proc /\ proc[k].todo \in SUBSET Plan
  BY DEF Process, TypeOK, Proc
<1>2. \A q \in Plan : /\ git[q] \in GitState /\ git[q].main \in Tip /\ git[q].origin \in Tip
                      /\ git[q].tip \in Tip /\ git[q].main \in Int /\ git[q].origin \in Int
                      /\ git[q].tip \in Int
  <2>1. \A g \in GitState : g.main \in Tip /\ g.origin \in Tip /\ g.tip \in Tip
    BY DEF GitState
  <2>2. \A q \in Plan : git[q] \in GitState
    BY DEF TypeOK
  <2>3. \A t \in Tip : t \in Int
    BY Bounds
  <2> QED BY <2>1, <2>2, <2>3
<1>3. used' \in 0..MaxEvents
  BY CountsType
     DEF LooksToShipDirect, LooksToShipAsPr, LooksToShip, ShipMerges, ShipPushes, OpensPr,
         StampsPending
<1>4. ASSUME NEW T \in SUBSET Plan, LooksToShipDirect(T) \/ LooksToShipAsPr(T)
      PROVE  TypeOK'
  <2>1. proc' \in [Process -> Proc]
    <3>1. PICK how \in {"direct", "as_pr"}, pc \in {"merge", "open_pr"} :
            LooksToShip(T, how, pc)
      BY <1>4 DEF LooksToShipDirect, LooksToShipAsPr
    <3>2. Min(T) \in Plan /\ T \ {Min(T)} \in SUBSET Plan
      BY <3>1, LeastElement DEF LooksToShip
    <3>3. [Off EXCEPT !.pc = pc, !.how = how, !.plan = Min(T), !.todo = T \ {Min(T)}] \in Proc
      BY <1>1, <3>2, ProcessType DEF Proc, Pc
    <3> QED BY <3>1, <3>3 DEF LooksToShip, TypeOK
  <2>2. git' \in [Plan -> GitState]
    <3>1. CASE UNCHANGED git
      BY <3>1 DEF TypeOK
    <3>2. CASE git' = [q \in Plan |-> [git[q] EXCEPT !.main = Max({@, git[q].origin})]]
      <4>1. \A q \in Plan : Max({git[q].main, git[q].origin}) \in Tip
        BY <1>2, LargerOfTwo
      <4>2. \A q \in Plan : [git[q] EXCEPT !.main = Max({git[q].main, git[q].origin})] \in GitState
        BY <1>2, <4>1, GitType
      <4> QED BY <3>2, <4>2
    <3> QED BY <1>4, <3>1, <3>2 DEF LooksToShipDirect, LooksToShipAsPr
  <2> QED BY <1>3, <1>4, <2>1, <2>2 DEF LooksToShipDirect, LooksToShipAsPr, LooksToShip, TypeOK
<1>5. CASE ShipMerges(k)
  <2>1. p \in Plan
    BY <1>5 DEF ShipMerges, ProcessOK
  <2>2. Max({git[p].main, git[p].tip}) \in Tip
    BY <1>2, <2>1, LargerOfTwo
  <2>3. \/ UNCHANGED git
        \/ git' = [git EXCEPT ![p] = [git[p] EXCEPT !.main = Max({git[p].main, git[p].tip})]]
    BY <1>5 DEF ShipMerges
  <2>4. git' \in [Plan -> GitState]
    <3>1. [git[p] EXCEPT !.main = Max({git[p].main, git[p].tip})] \in GitState
      BY <1>2, <2>1, <2>2, GitType
    <3> QED BY <2>3, <3>1 DEF TypeOK
  <2>5. proc' \in [Process -> Proc]
    <3>1. "push" \in Pc
      BY DEF Pc
    <3> QED BY <1>1, <1>5, <3>1, ProcessType DEF ShipMerges
  <2> QED BY <1>5, <2>4, <2>5 DEF ShipMerges, TypeOK
<1>6. CASE ShipPushes(k)
  <2>1. \A q \in Plan : [git[q] EXCEPT !.origin = git[q].main] \in GitState
    BY <1>2, GitType
  <2>2. UNCHANGED git \/ git' = [q \in Plan |-> [git[q] EXCEPT !.origin = git[q].main]]
    BY <1>6 DEF ShipPushes
  <2>3. git' \in [Plan -> GitState]
    BY <2>1, <2>2 DEF TypeOK
  <2>4. proc' \in [Process -> Proc]
    BY <1>1, <1>6, ProcessType DEF ShipPushes
  <2> QED BY <1>3, <1>6, <2>3, <2>4 DEF ShipPushes, TypeOK
<1>7. CASE OpensPr(k)
  <2>1. p \in Plan
    BY <1>7 DEF OpensPr, ProcessOK
  <2>2. \/ UNCHANGED git
        \/ git' = [git EXCEPT ![p] = [git[p] EXCEPT !.pr = "open", !.pushed = git[p].tip]]
    BY <1>7 DEF OpensPr
  <2>3. git' \in [Plan -> GitState]
    <3>1. [git[p] EXCEPT !.pr = "open", !.pushed = git[p].tip] \in GitState
      BY <1>2, <2>1, GitType
    <3> QED BY <2>2, <3>1 DEF TypeOK
  <2>4. proc' \in [Process -> Proc]
    <3>1. "stamp" \in Pc
      BY DEF Pc
    <3> QED BY <1>1, <1>7, <3>1, ProcessType DEF OpensPr
  <2> QED BY <1>3, <1>7, <2>3, <2>4 DEF OpensPr, TypeOK
<1>8. CASE StampsPending(k)
  <2>1. p \in Plan /\ plan[p] \in PlanRow
    BY <1>8 DEF StampsPending, ProcessOK, TypeOK
  <2>2. plan' = [plan EXCEPT ![p] = [plan[p] EXCEPT !.ship_pending = TRUE]]
    BY <1>8 DEF StampsPending
  <2>3. plan' \in [Plan -> PlanRow]
    BY <2>1, <2>2, RowType DEF TypeOK
  <2>4. proc' \in [Process -> Proc]
    BY <1>1, <1>8, ProcessType DEF StampsPending
  <2> QED BY <1>8, <2>3, <2>4 DEF StampsPending, TypeOK
<1> QED BY <1>4, <1>5, <1>6, <1>7, <1>8

-----------------------------------------------------------------------------
(* Every step keeps the invariant                                           *)

\* Origin only grows, and while clu init makes a row nobody else works there.
LEMMA Frame ==
  ASSUME IInv, TypeOK', NoneUnclaimed',
         \A p \in Plan : git[p].origin <= git'[p].origin,
         \A k \in Process : proc'[k] = proc[k] \/ ProcessOK(k)',
         Making("operator") /\ proc'["operator"] = proc["operator"] =>
           \A p \in Plan : plan[p].status = "none" => /\ plan'[p].status = "none"
                                                      /\ git'[p].tip = git[p].tip
                                                      /\ git'[p].main = git[p].main
  PROVE  IInv'
<1>1. ASSUME NEW k \in Process, proc'[k] = proc[k]
      PROVE  ProcessOK(k)'
  <2> DEFINE r == proc[k]
  <2>1. ProcessOK(k)
    BY DEF IInv
  <2>2. r.plan \in Plan /\ OnOrigin(k) => OnOrigin(k)'
    <3>1. \A p \in Plan : git[p].origin \in Int /\ git'[p].origin \in Int
      <4>1. \A p \in Plan : git[p].origin \in Tip /\ git'[p].origin \in Tip
        BY DEF IInv, TypeOK, GitState
      <4>2. \A t \in Tip : t \in Int
        BY Bounds
      <4> QED BY <4>1, <4>2
    <3> QED BY <1>1, <3>1 DEF OnOrigin
  <2>3. Making(k) => /\ plan'[r.plan].status = "none"
                     /\ git'[r.plan].tip = git'[r.plan].main
    <3>1. Making(k) => r.plan \in Plan /\ k = "operator"
      BY <2>1 DEF ProcessOK, Making
    <3> QED BY <1>1, <2>1, <3>1 DEF ProcessOK
  <2>4. Making(k)' <=> Making(k)
    BY <1>1 DEF Making
  <2> QED BY <1>1, <2>1, <2>2, <2>3, <2>4 DEF ProcessOK
<1> QED BY <1>1 DEF IInv

\* No step of the operator's is under way.
LEMMA FrameElsewhere ==
  ASSUME IInv, TypeOK', NoneUnclaimed',
         \A p \in Plan : git[p].origin <= git'[p].origin,
         \A k \in Process : proc'[k] = proc[k] \/ ProcessOK(k)',
         \A p \in Plan : plan[p].status = "none" => /\ plan'[p].status = "none"
                                                    /\ git'[p].tip = git[p].tip
                                                    /\ git'[p].main = git[p].main
  PROVE  IInv'
BY Frame

\* A process that ends carries nothing.
LEMMA EndsOK ==
  ASSUME TypeOK, NEW k \in Process, Ends(k)
  PROVE  /\ \A j \in Process : proc'[j] = proc[j] \/ ProcessOK(j)'
         /\ proc'[k].pc = "off"
<1>1. \A j \in Process : proc'[j] = IF j = k THEN Off ELSE proc[j]
  BY DEF Ends, TypeOK
<1>2. \A j \in Process : proc'[j] = Off => ProcessOK(j)'
  BY DEF ProcessOK, Making, Off
<1> QED BY <1>1, <1>2 DEF Off

\* One that begins has seen nothing yet.
LEMMA BeginsOK ==
  ASSUME TypeOK, NEW k \in Process, NEW p \in Plan,
         NEW pc \in {"look", "recheck"}, NEW how \in {"complete", "manual", "gc", "gc_branch"},
         Begins(k, pc, how, p)
  PROVE  \A j \in Process : proc'[j] = proc[j] \/ ProcessOK(j)'
<1>1. \A j \in Process : proc'[j] = IF j = k THEN [Off EXCEPT !.pc = pc, !.how = how, !.plan = p]
                                    ELSE proc[j]
  BY DEF Begins, TypeOK
<1>2. proc'[k].pc = pc /\ proc'[k].how = how /\ proc'[k].plan = p
  BY <1>1 DEF Off
<1>3. ProcessOK(k)'
  BY <1>2 DEF ProcessOK, Making
<1> QED BY <1>1, <1>3

\* One that goes on to a step without a look carries what it carried.
LEMMA GoesOK ==
  ASSUME TypeOK, NEW k \in Process, ProcessOK(k), proc[k].pc \notin {"off", "apply"},
         NEW pc \in {"move", "persist", "events", "commit", "push", "stamp"} \cup
                      (IF proc[k].how = "auto" THEN {"unregister"} ELSE {}),
         \A p \in Plan : git'[p].origin = git[p].origin,
         \A j \in Process \ {k} : proc'[j] = proc[j],
         proc'[k].pc = pc, proc'[k].how = proc[k].how, proc'[k].plan = proc[k].plan,
         proc[k].how = "auto" => proc'[k].shas = proc[k].shas
  PROVE  \A j \in Process : proc'[j] = proc[j] \/ ProcessOK(j)'
<1>1. proc[k].plan \in Plan
  BY DEF ProcessOK
<1>2. proc[k].how = "auto" => k = "tick" /\ OnOrigin(k)'
  BY <1>1 DEF ProcessOK, OnOrigin
<1>3. ProcessOK(k)'
  BY <1>1, <1>2 DEF ProcessOK, Making
<1> QED BY <1>3

\* One that goes on to its next call of git carries it, or what it made.
LEMMA NextCallOK ==
  ASSUME TypeOK, NEW k \in Process, ProcessOK(k),
         proc[k].pc = "create" \/ proc[k].pc \in {"remove", "branch"},
         NEW pc \in {"remove", "branch", "remote"}, pc = "remote" => proc[k].how # "init",
         \A p \in Plan : /\ git'[p].tip = git[p].tip /\ git'[p].main = git[p].main
                         /\ git'[p].origin = git[p].origin /\ plan'[p].status = plan[p].status,
         Goes(k, pc)
  PROVE  \A j \in Process : proc'[j] = proc[j] \/ ProcessOK(j)'
<1> DEFINE s == [proc[k] EXCEPT !.pc = pc]
<1>1. proc[k] \in Proc /\ proc[k].plan \in Plan
  BY DEF TypeOK, ProcessOK
<1>2. /\ s.pc = pc /\ s.how = proc[k].how /\ s.plan = proc[k].plan /\ s.shas = proc[k].shas
  BY <1>1 DEF Proc
<1>3. proc'[k] = s /\ \A j \in Process \ {k} : proc'[j] = proc[j]
  BY DEF Goes, TypeOK
<1> HIDE DEF s
<1>4. CASE Making(k)
  <2>1. Making(k)' /\ proc'[k].how = "init" /\ k = "operator"
    BY <1>2, <1>3, <1>4 DEF Making, ProcessOK
  <2>2. plan'[proc'[k].plan].status = "none" /\ git'[proc'[k].plan].tip = git'[proc'[k].plan].main
    BY <1>1, <1>2, <1>3, <1>4 DEF ProcessOK
  <2>3. ProcessOK(k)'
    BY <1>1, <1>2, <1>3, <2>1, <2>2 DEF ProcessOK
  <2> QED BY <1>3, <2>3
<1>5. CASE ~Making(k)
  <2>1. OnOrigin(k)'
    BY <1>1, <1>2, <1>3, <1>5 DEF ProcessOK, Making, OnOrigin
  <2>2. ~Making(k)' /\ (proc[k].how = "auto" => k = "tick")
    BY <1>2, <1>3, <1>5 DEF ProcessOK, Making
  <2>3. ProcessOK(k)'
    BY <1>1, <1>2, <1>3, <2>1, <2>2 DEF ProcessOK
  <2> QED BY <1>3, <2>3
<1> QED BY <1>4, <1>5

\* The archive rule begins with what is on origin.
LEMMA ArchivesOK ==
  ASSUME TypeOK, \A p \in Plan : git'[p].origin = git[p].origin,
         NEW T \in SUBSET Plan, T # {}, \A p \in T : Merged(p), Archives(T)
  PROVE  \A j \in Process : proc'[j] = proc[j] \/ ProcessOK(j)'
<1> DEFINE m == Min(T)
           r == [Off EXCEPT !.pc = "look", !.how = "auto", !.plan = m,
                            !.todo = T \ {m}, !.shas = {<<m, git[m].tip>>}]
<1>1. m \in T /\ m \in Plan
  BY LeastElement
<1> HIDE DEF m
<1>2. \A j \in Process : proc'[j] = IF j = "tick" THEN r ELSE proc[j]
  BY DEF Archives, TypeOK, m
<1>3. /\ r.pc = "look" /\ r.how = "auto" /\ r.plan = m /\ r.shas = {<<m, git[m].tip>>}
  BY DEF Off
<1>4. git[m].tip \in 0..git[m].origin
  BY <1>1, Bounds DEF TypeOK, GitState, Tip, Merged
<1> HIDE DEF r
<1>5. ASSUME NEW j \in Process, j = "tick"
      PROVE  ProcessOK(j)'
  <2>1. proc'[j] = r
    BY <1>2, <1>5
  <2>2. OnOrigin(j)'
    BY <1>1, <1>3, <1>4, <2>1 DEF OnOrigin
  <2> QED BY <1>1, <1>3, <1>5, <2>1, <2>2 DEF ProcessOK, Making
<1> QED BY <1>2, <1>5

\* The next plan of a batch begins anew.
LEMMA NextToShipOK ==
  ASSUME TypeOK, ProcessOK("operator"), NEW T \in SUBSET Plan, NextToShip("operator", T)
  PROVE  \A j \in Process : proc'[j] = proc[j] \/ ProcessOK(j)'
<1> DEFINE k == "operator"
<1>1. k \in Process
  BY DEF Process
<1>2. CASE T = {}
  BY <1>1, <1>2, EndsOK DEF NextToShip
<1>3. CASE T # {}
  <2> DEFINE r == [Off EXCEPT !.pc = IF proc[k].how = "direct" THEN "merge" ELSE "open_pr",
                              !.how = proc[k].how, !.plan = Min(T), !.todo = T \ {Min(T)}]
  <2>1. Min(T) \in Plan
    BY <1>3, LeastElement
  <2>2. \A j \in Process : proc'[j] = IF j = k THEN r ELSE proc[j]
    BY <1>3 DEF NextToShip, TypeOK
  <2>3. /\ r.pc \in {"merge", "open_pr"} /\ r.how = proc[k].how
        /\ r.plan = Min(T)
    BY DEF Off
  <2>4. proc[k].how # "auto"
    BY DEF ProcessOK
  <2> HIDE DEF r
  <2>5. proc'[k] = r
    BY <1>1, <2>2
  <2>6. ProcessOK(k)'
    BY <2>1, <2>3, <2>4, <2>5 DEF ProcessOK, Making
  <2> QED BY <2>2, <2>6
<1> QED BY <1>2, <1>3

\* Nobody works in a plan without a row, and a merged pull request only adds to
\* origin.
LEMMA LifeKeeps ==
  ASSUME IInv, NEW p \in Plan,
         \/ Dispatches(p) \/ DeclaresDone(p) \/ CommitsWork(p) \/ WorkerCompletes(p) \/ Halts(p)
         \/ Pauses(p) \/ ResumesOrRetries(p) \/ PrEnds(p) \/ ReattachesWorktree(p)
         \/ AttachesWorktree(p)
  PROVE  IInv'
<1>1. TypeOK' /\ TypeOK
  BY LifeType DEF IInv
<1> DEFINE RowsStay ==
             \A q \in Plan :
               /\ plan[q].status = "none" => plan'[q].status = "none"
               /\ plan'[q].status = "none" =>
                    plan[q].status = "none" /\ (plan'[q].claim => plan[q].claim)
<1>2. RowsStay
  <2>1. \/ UNCHANGED plan
        \/ /\ plan[p].status # "none"
           /\ \E s \in {"running", "paused", "halted", "done"} :
                plan' = [plan EXCEPT ![p] = [plan[p] EXCEPT !.status = s]]
        \/ /\ plan[p].status # "none"
           /\ plan' = [plan EXCEPT ![p] = [plan[p] EXCEPT !.claim = TRUE]]
        \/ plan' = [plan EXCEPT ![p] = [plan[p] EXCEPT !.claim = FALSE, !.logged = TRUE]]
        \/ plan' = [plan EXCEPT ![p] = [plan[p] EXCEPT !.worktree = TRUE]]
    BY DEF Dispatches, DeclaresDone, CommitsWork, WorkerCompletes, Halts, Pauses, Ticked,
           ResumesOrRetries, PrEnds, ReattachesWorktree, AttachesWorktree
  <2>2. plan[p] \in PlanRow
    BY <1>1 DEF TypeOK
  <2>3. \A x, y \in BOOLEAN :
          /\ [plan[p] EXCEPT !.claim = x].status = plan[p].status
          /\ [plan[p] EXCEPT !.claim = x, !.logged = y].status = plan[p].status
          /\ [plan[p] EXCEPT !.claim = FALSE, !.logged = y].claim = FALSE
          /\ [plan[p] EXCEPT !.worktree = x].status = plan[p].status
          /\ [plan[p] EXCEPT !.worktree = x].claim = plan[p].claim
    BY <2>2 DEF PlanRow
  <2>4. \A s \in {"running", "paused", "halted", "done"} :
          [plan[p] EXCEPT !.status = s].status = s
    BY <2>2 DEF PlanRow
  <2>5. plan \in [Plan -> PlanRow]
    BY <1>1 DEF TypeOK
  <2>6. ASSUME plan[p].status # "none",
               NEW s \in {"running", "paused", "halted", "done"},
               plan' = [plan EXCEPT ![p] = [plan[p] EXCEPT !.status = s]]
        PROVE  RowsStay
    BY <2>4, <2>5, <2>6
  <2>7. ASSUME plan[p].status # "none",
               plan' = [plan EXCEPT ![p] = [plan[p] EXCEPT !.claim = TRUE]]
        PROVE  RowsStay
    BY <2>3, <2>5, <2>7
  <2>8. ASSUME plan' = [plan EXCEPT ![p] = [plan[p] EXCEPT !.claim = FALSE, !.logged = TRUE]]
        PROVE  RowsStay
    BY <2>3, <2>5, <2>8
  <2>9. ASSUME plan' = [plan EXCEPT ![p] = [plan[p] EXCEPT !.worktree = TRUE]]
        PROVE  RowsStay
    BY <2>3, <2>5, <2>9
  <2> QED BY <2>1, <2>6, <2>7, <2>8, <2>9
<1>3. NoneUnclaimed'
  BY <1>2 DEF NoneUnclaimed, IInv
<1>4. \A q \in Plan : git[q].origin <= git'[q].origin
  <2>2. \A q \in Plan : git[q].origin \in Int /\ git[q].pushed \in Int
    BY <1>1, GitNumbers DEF TypeOK
  <2>3. CASE PrEnds(p)
    <3>1. PICK o \in {git[p].origin, Max({git[p].origin, git[p].pushed})} :
            git' = [git EXCEPT ![p] =
                      [git[p] EXCEPT !.pr = "closed", !.pushed = 0, !.origin = o]]
      BY <2>3 DEF PrEnds
    <3>2. o >= git[p].origin
      BY <2>2, LargerOfTwo
    <3>3. \A q \in Plan : git'[q].origin = IF q = p THEN o ELSE git[q].origin
      BY <1>1, <3>1 DEF TypeOK, GitState
    <3>4. o \in Int
      BY <2>2, LargerOfTwo
    <3> QED BY <2>2, <3>2, <3>3, <3>4
  <2>4. CASE ~PrEnds(p)
    <3>1. \A q \in Plan : git'[q].origin = git[q].origin
      BY <1>1, <2>4 DEF Dispatches, DeclaresDone, CommitsWork, WorkerCompletes, Halts, Pauses,
           ResumesOrRetries, ReattachesWorktree, AttachesWorktree, TypeOK, GitState
    <3> QED BY <2>2, <3>1
  <2> QED BY <2>3, <2>4
<1>5. \A k \in Process : proc'[k] = proc[k] \/ ProcessOK(k)'
  <2>1. "worker" \in Process
    BY DEF Process
  <2>2. UNCHANGED proc \/ Begins("worker", "look", "complete", p)
    BY DEF Dispatches, DeclaresDone, CommitsWork, WorkerCompletes, Halts, Pauses,
           ResumesOrRetries, PrEnds, ReattachesWorktree, AttachesWorktree
  <2> QED BY <1>1, <2>1, <2>2, BeginsOK
<1>6. CASE AttachesWorktree(p)
  <2>1. ~Making("operator")
    BY <1>6 DEF AttachesWorktree, Commands, Making
  <2> QED BY <1>1, <1>3, <1>4, <1>5, <2>1, Frame
<1>7. CASE ~AttachesWorktree(p)
  <2>1. \A q \in Plan : plan[q].status = "none" =>
          git'[q].tip = git[q].tip /\ git'[q].main = git[q].main
    <3>1. CASE CommitsWork(p)
      <4>1. plan[p].status # "none"
        BY <3>1 DEF CommitsWork, IInv, NoneUnclaimed
      <4>2. git' = [git EXCEPT ![p] = [git[p] EXCEPT !.tip = git[p].tip + 1]]
        BY <3>1 DEF CommitsWork
      <4> QED BY <1>1, <4>1, <4>2 DEF TypeOK
    <3>2. CASE ~CommitsWork(p)
      BY <1>1, <1>7, <3>2
         DEF Dispatches, DeclaresDone, WorkerCompletes, Halts, Pauses, ResumesOrRetries, PrEnds,
             ReattachesWorktree, TypeOK, GitState
    <3> QED BY <3>1, <3>2
  <2> QED BY <1>1, <1>2, <1>3, <1>4, <1>5, <2>1, FrameElsewhere
<1> QED BY <1>6, <1>7

\* While nothing but processes moves, the rest of the invariant follows.
LEMMA ProcessStep ==
  ASSUME IInv, TypeOK', \A k \in Process : proc'[k] = proc[k] \/ ProcessOK(k)',
         \A p \in Plan : /\ plan'[p].status = plan[p].status /\ plan'[p].claim = plan[p].claim
                         /\ git'[p].tip = git[p].tip /\ git'[p].main = git[p].main
                         /\ git'[p].origin = git[p].origin
  PROVE  IInv'
<1>1. NoneUnclaimed'
  BY DEF IInv, NoneUnclaimed
<1>2. \A p \in Plan : git[p].origin <= git'[p].origin
  <2>1. \A p \in Plan : git[p].origin \in Int
    BY GitNumbers DEF IInv, TypeOK
  <2> QED BY <2>1
<1> QED BY <1>1, <1>2, FrameElsewhere

\* The branch of clu init is cut from local main.
LEMMA InitCommandKeeps ==
  ASSUME IInv, NEW p \in Plan, SetsUpWorktree(p) \/ InitCreates("operator")
  PROVE  IInv'
<1> DEFINE k == "operator"
<1>1. k \in Process
  BY DEF Process
<1>2. TypeOK /\ ProcessOK(k) /\ TypeOK'
  BY <1>1, InitCommandType DEF IInv
<1>3. \A q \in Plan : git[q].origin \in Int
  BY <1>2, GitNumbers DEF TypeOK
<1>4. CASE SetsUpWorktree(p)
  <2> DEFINE g == [Fresh EXCEPT !.tip = git[p].main, !.main = git[p].main,
                                !.origin = git[p].origin]
             r == [Off EXCEPT !.pc = "create", !.how = "init", !.plan = p]
  <2>1. \A q \in Plan : git'[q] = IF q = p THEN g ELSE git[q]
    BY <1>2, <1>4 DEF SetsUpWorktree, TypeOK
  <2>2. g.tip = git[p].main /\ g.main = git[p].main /\ g.origin = git[p].origin
    BY DEF Fresh, NoGit
  <2>3. \A j \in Process : proc'[j] = IF j = k THEN r ELSE proc[j]
    BY <1>2, <1>4 DEF SetsUpWorktree, Begins, TypeOK
  <2>4. r.pc = "create" /\ r.how = "init" /\ r.plan = p
    BY DEF Off
  <2> HIDE DEF g, r
  <2>5. NoneUnclaimed'
    BY <1>4 DEF SetsUpWorktree, IInv, NoneUnclaimed
  <2>6. \A q \in Plan : git[q].origin <= git'[q].origin
    BY <1>3, <2>1, <2>2
  <2>7. proc'[k] = r
    BY <1>1, <2>3
  <2>8. ProcessOK(k)'
    <3>1. plan'[p].status = "none"
      BY <1>4 DEF SetsUpWorktree
    <3> QED BY <2>1, <2>2, <2>4, <2>7, <3>1 DEF ProcessOK, Making
  <2>9. ~Making(k)
    BY <1>4 DEF SetsUpWorktree, Commands, Making
  <2> QED BY <1>2, <2>3, <2>5, <2>6, <2>8, <2>9, Frame
<1>5. CASE InitCreates(k)
  <2> DEFINE q == proc[k].plan
  <2>1. q \in Plan
    BY <1>2, <1>5 DEF InitCreates, ProcessOK
  <2>2. NoneUnclaimed'
    <3>1. Created(TRUE).status = "running"
      BY DEF Created, NoRow
    <3>2. UNCHANGED plan \/ plan' = [plan EXCEPT ![q] = Created(TRUE)]
      BY <1>5 DEF InitCreates
    <3> QED BY <1>2, <2>1, <3>1, <3>2 DEF IInv, NoneUnclaimed, TypeOK
  <2>3. UNCHANGED git /\ \A a \in Plan : git[a].origin <= git'[a].origin
    BY <1>3, <1>5 DEF InitCreates
  <2>4. CASE Ends(k)
    <3>1. /\ \A j \in Process : proc'[j] = proc[j] \/ ProcessOK(j)'
          /\ proc'[k].pc = "off"
      BY <1>1, <1>2, <2>4, EndsOK
    <3>2. proc'[k] # proc[k]
      BY <1>5, <3>1 DEF InitCreates
    <3> QED BY <1>2, <2>2, <2>3, <3>1, <3>2, Frame
  <2>5. CASE Goes(k, "remove") /\ UNCHANGED plan
    <3>1. proc[k].pc = "create" /\ (proc[k].pc = "create" => proc[k].how = "init")
      BY <1>2, <1>5 DEF InitCreates, ProcessOK, Making
    <3>2. \A j \in Process : proc'[j] = proc[j] \/ ProcessOK(j)'
      BY <1>1, <1>2, <2>3, <2>5, <3>1, NextCallOK
    <3> QED BY <1>2, <2>2, <2>3, <2>5, <3>2, Frame
  <2> QED BY <1>5, <2>4, <2>5 DEF InitCreates
<1> QED BY <1>4, <1>5

\* A rule carries the tips it read.
LEMMA RuleKeeps ==
  ASSUME IInv, RunsRules \/ \E p \in Plan : AppliesRule(p)
  PROVE  IInv'
<1> DEFINE k == "tick"
<1>1. TypeOK /\ k \in Process /\ ProcessOK(k) /\ TypeOK'
  BY RuleType DEF IInv, Process
<1>2. CASE RunsRules
  <2>1. ASSUME NEW how \in {"conflict", "gate", "announce"}, NEW T, NEW shas,
               Decision(how, T, shas),
               how = "announce" => \A p \in T : \E t \in Tip : <<p, t>> \in shas
        PROVE  \A j \in Process : proc'[j] = proc[j] \/ ProcessOK(j)'
    <3> DEFINE r == [Off EXCEPT !.pc = "apply", !.how = how, !.todo = T, !.shas = shas]
    <3>1. \A j \in Process : proc'[j] = IF j = k THEN r ELSE proc[j]
      BY <1>1, <2>1 DEF Decision, TypeOK
    <3>2. r.pc = "apply" /\ r.how = how /\ r.todo = T /\ r.shas = shas
      BY DEF Off
    <3> HIDE DEF r
    <3>3. proc'[k] = r
      BY <1>1, <3>1
    <3>4. ProcessOK(k)'
      BY <2>1, <3>2, <3>3 DEF ProcessOK, Making
    <3> QED BY <3>1, <3>4
  <2>2. \A p \in Ready : \E t \in Tip : <<p, t>> \in {<<q, git[q].tip>> : q \in Ready}
    BY <1>1 DEF TypeOK, GitState, Ready
  <2>3. ASSUME Archivable # {}, Archives(Archivable)
        PROVE  \A j \in Process : proc'[j] = proc[j] \/ ProcessOK(j)'
    <3>1. Archivable \in SUBSET Plan /\ \A p \in Archivable : Merged(p)
      BY DEF Archivable
    <3>2. UNCHANGED git
      BY <1>2 DEF RunsRules
    <3> QED BY <1>1, <2>3, <3>1, <3>2, ArchivesOK
  <2>4. \/ Decision("conflict", StaleConflicts, Clash \X {0})
        \/ Decision("gate", Group, GroupShas)
        \/ Decision("announce", Ready, {<<p, git[p].tip>> : p \in Ready})
        \/ Archivable # {} /\ Archives(Archivable)
    BY <1>2 DEF RunsRules
  <2>5. \A j \in Process : proc'[j] = proc[j] \/ ProcessOK(j)'
    BY <2>1, <2>2, <2>3, <2>4
  <2> QED BY <1>1, <1>2, <2>5, ProcessStep DEF RunsRules
<1>3. ASSUME NEW p \in Plan, AppliesRule(p)
      PROVE  IInv'
  <2> DEFINE r == proc[k]
  <2>1. /\ r \in Proc /\ r.pc = "apply" /\ p \in r.todo /\ UNCHANGED git
        /\ r.how \in {"conflict", "gate", "announce"}
    BY <1>1, <1>3 DEF AppliesRule, ProcessOK, TypeOK
  <2>2. \A q \in Plan : plan'[q].status = plan[q].status /\ plan'[q].claim = plan[q].claim
    <3>1. plan[p] \in PlanRow /\ plan \in [Plan -> PlanRow]
      BY <1>1 DEF TypeOK
    <3>2. PICK x, y, z : \/ plan' = [plan EXCEPT ![p] = [plan[p] EXCEPT !.in_conflict_with = x]]
                         \/ plan' = [plan EXCEPT ![p] = [plan[p] EXCEPT !.gate = y]]
                         \/ plan' = [plan EXCEPT ![p] = [plan[p] EXCEPT !.announced = z]]
      BY <1>3, <2>1 DEF AppliesRule, Stamped
    <3> DEFINE a == [plan[p] EXCEPT !.in_conflict_with = x]
               b == [plan[p] EXCEPT !.gate = y]
               c == [plan[p] EXCEPT !.announced = z]
    <3>3. \A s \in {a, b, c} : s.status = plan[p].status /\ s.claim = plan[p].claim
      BY <3>1 DEF PlanRow
    <3>4. PICK s \in {a, b, c} : plan' = [plan EXCEPT ![p] = s]
      BY <3>2
    <3> HIDE DEF a, b, c
    <3> QED BY <3>1, <3>3, <3>4
  <2>3. \A j \in Process : proc'[j] = proc[j] \/ ProcessOK(j)'
    <3> DEFINE r2 == [r EXCEPT !.todo = @ \ {p}]
    <3>1. \A j \in Process : \/ proc'[j] = proc[j]
                             \/ proc'[j] = Off
                             \/ j = k /\ proc'[j] = r2
      BY <1>1, <1>3 DEF AppliesRule, TypeOK
    <3>2. r2.pc = "apply" /\ r2.how = r.how /\ r2.todo \subseteq r.todo /\ r2.shas = r.shas
      BY <2>1 DEF Proc
    <3> HIDE DEF r2
    <3>3. proc'[k] = r2 => ProcessOK(k)'
      BY <1>1, <2>1, <3>2 DEF ProcessOK, Making
    <3>4. \A j \in Process : proc'[j] = Off => ProcessOK(j)'
      BY DEF ProcessOK, Making, Off
    <3> QED BY <3>1, <3>3, <3>4
  <2> QED BY <1>1, <2>1, <2>2, <2>3, ProcessStep
<1> QED BY <1>2, <1>3

\* A raised archive leaves the rule its other plans, if they are on origin now.
LEMMA FailsOK ==
  ASSUME TypeOK, NEW k \in Process, \A p \in Plan : git'[p].origin = git[p].origin, Fails(k)
  PROVE  \A j \in Process : proc'[j] = proc[j] \/ ProcessOK(j)'
<1> DEFINE later == {p \in proc[k].todo : Merged(p)}
<1>1. later \in SUBSET Plan /\ \A p \in later : Merged(p)
  BY DEF TypeOK, Proc
<1>2. (later # {} /\ Archives(later)) \/ Ends(k)
  BY DEF Fails
<1> HIDE DEF later
<1> QED BY <1>1, <1>2, ArchivesOK, EndsOK

\* From the look to the registry, an archive carries the tip that it saw.
LEMMA ArchivingKeeps ==
  ASSUME IInv, NEW k \in Process, Archiving(k)
  PROVE  IInv'
<1> DEFINE r == proc[k]
           p == proc[k].plan
<1>1. TypeOK /\ ProcessOK(k) /\ TypeOK'
  BY ArchivingType DEF IInv
<1>2. /\ r.pc \in {"look", "remove", "branch", "remote", "move", "persist", "events", "commit",
                  "unregister"}
      /\ p \in Plan /\ r \in Proc
  BY <1>1 DEF Archiving, LooksAtTree, RemovesTree, MovesPlanFile, Persists, ArchivesEvents,
              CommitsMove, Unregisters, ProcessOK, TypeOK
<1>3. plan[p] \in PlanRow /\ git[p] \in GitState
      /\ plan \in [Plan -> PlanRow] /\ git \in [Plan -> GitState] /\ proc \in [Process -> Proc]
  BY <1>1, <1>2 DEF TypeOK
\* No archive touches a status or a claim, or what a branch, main or origin has.
<1>4. \A q \in Plan : plan'[q].status = plan[q].status /\ plan'[q].claim = plan[q].claim
  <2> DEFINE archives == r.how # "complete"
             a == [plan[p] EXCEPT !.worktree = @ /\ ~r.cleaned,
                                  !.ship_pending = @ /\ ~archives,
                                  !.announced = IF archives THEN NoTip ELSE @]
             b == [plan[p] EXCEPT !.logged = FALSE]
  <2>1. \A s \in {a, b} : s.status = plan[p].status /\ s.claim = plan[p].claim
    BY <1>3 DEF PlanRow
  <2>2. UNCHANGED plan \/ \E s \in {a, b} : plan' = [plan EXCEPT ![p] = s]
    BY DEF Archiving, LooksAtTree, RemovesTree, MovesPlanFile, Persists, ArchivesEvents,
           CommitsMove, Unregisters
  <2> HIDE DEF a, b
  <2> QED BY <1>3, <2>1, <2>2
<1>5. \A q \in Plan : /\ git'[q].tip = git[q].tip /\ git'[q].main = git[q].main
                      /\ git'[q].origin = git[q].origin
  <2>1. UNCHANGED git \/ (git' = Called(k) /\ r.pc \in {"remove", "branch", "remote"})
    BY DEF Archiving, LooksAtTree, RemovesTree, MovesPlanFile, Persists, ArchivesEvents,
           CommitsMove, Unregisters
  <2> QED BY <1>1, <1>2, <2>1, CalledType
<1>6. \A j \in Process : proc'[j] = proc[j] \/ ProcessOK(j)'
  <2>1. ASSUME NEW pc \in {"move", "persist", "events", "commit"} \cup
                            (IF r.how = "auto" THEN {"unregister"} ELSE {}),
               \A j \in Process \ {k} : proc'[j] = proc[j],
               proc'[k].pc = pc, proc'[k].how = r.how, proc'[k].plan = p,
               r.how = "auto" => proc'[k].shas = r.shas
        PROVE  \A j \in Process : proc'[j] = proc[j] \/ ProcessOK(j)'
    BY <1>1, <1>2, <1>5, <2>1, GoesOK
  <2>2. ASSUME Ends(k)
        PROVE  \A j \in Process : proc'[j] = proc[j] \/ ProcessOK(j)'
    BY <1>1, <2>2, EndsOK
  <2>3. ASSUME NEW pc \in {"move", "persist", "events", "commit"} \cup
                            (IF r.how = "auto" THEN {"unregister"} ELSE {}),
               Goes(k, pc)
        PROVE  \A j \in Process : proc'[j] = proc[j] \/ ProcessOK(j)'
    <3>1. proc' = [proc EXCEPT ![k] = [r EXCEPT !.pc = pc]]
      BY <2>3 DEF Goes
    <3>2. /\ [r EXCEPT !.pc = pc].pc = pc /\ [r EXCEPT !.pc = pc].how = r.how
          /\ [r EXCEPT !.pc = pc].plan = p /\ [r EXCEPT !.pc = pc].shas = r.shas
      BY <1>2 DEF Proc
    <3> QED BY <1>3, <2>1, <3>1, <3>2
  <2>4. CASE LooksAtTree(k)
    <3> DEFINE tip == {<<p, git[p].tip>>}
               a == [r EXCEPT !.pc = "remove", !.shas = tip]
               b == [r EXCEPT !.pc = "move", !.shas = @]
    <3>1. \/ Ends(k)
          \/ proc' = [proc EXCEPT ![k] = b]
          \/ Reachable(p) /\ proc' = [proc EXCEPT ![k] = a]
      BY <2>4 DEF LooksAtTree
    <3>2. /\ a.pc = "remove" /\ a.how = r.how /\ a.plan = p /\ a.shas = tip
          /\ b.pc = "move" /\ b.how = r.how /\ b.plan = p /\ b.shas = r.shas
      BY <1>2 DEF Proc
    <3> HIDE DEF a, b
    <3>3. ASSUME proc' = [proc EXCEPT ![k] = b]
          PROVE  \A j \in Process : proc'[j] = proc[j] \/ ProcessOK(j)'
      BY <1>3, <2>1, <3>2, <3>3
    <3>4. ASSUME Reachable(p), proc' = [proc EXCEPT ![k] = a]
          PROVE  \A j \in Process : proc'[j] = proc[j] \/ ProcessOK(j)'
      <4>1. proc'[k] = a /\ \A j \in Process \ {k} : proc'[j] = proc[j]
        BY <1>3, <3>4
      <4>2. ASSUME DefaultKnown
            PROVE  git[p].tip \in 0..git'[p].origin
        <5>1. git[p].tip \in Tip /\ git[p].tip <= git[p].origin
          BY <1>3, <3>4, <4>2 DEF Reachable, GitState
        <5>2. git[p].origin \in Int /\ git'[p].origin = git[p].origin
          BY <1>2, <1>3, <1>5, GitNumbers
        <5> QED BY <5>1, <5>2 DEF Tip
      <4>3. OnOrigin(k)'
        BY <3>2, <4>1, <4>2 DEF OnOrigin
      <4>4. ProcessOK(k)'
        BY <1>1, <1>2, <2>4, <3>2, <4>1, <4>3 DEF ProcessOK, Making, LooksAtTree
      <4> QED BY <4>1, <4>4
    <3> QED BY <2>2, <3>1, <3>3, <3>4
  <2>5. CASE RemovesTree(k)
    <3> DEFINE a == [r EXCEPT !.cleaned = TRUE, !.shas = IF r.how = "auto" THEN @ ELSE {},
                              !.pc = IF r.how = "complete" THEN "persist" ELSE "move"]
    <3>1. \/ Fails(k)
          \/ Ends(k)
          \/ r.pc = "remove" /\ Goes(k, "branch")
          \/ r.pc = "branch" /\ r.how # "init" /\ Goes(k, "remote")
          \/ proc' = [proc EXCEPT ![k] = a]
      BY <2>5 DEF RemovesTree, AfterCall, LastCall
    <3>2. /\ a.pc \in {"move", "persist"} /\ a.how = r.how /\ a.plan = p
          /\ r.how = "auto" => a.shas = r.shas
      BY <1>2 DEF Proc
    <3> HIDE DEF a
    <3>3. CASE Fails(k)
      BY <1>1, <1>5, <3>3, FailsOK
    <3>4. CASE r.pc = "remove" /\ Goes(k, "branch")
      BY <1>1, <1>4, <1>5, <3>4, NextCallOK
    <3>5. CASE r.pc = "branch" /\ r.how # "init" /\ Goes(k, "remote")
      BY <1>1, <1>4, <1>5, <3>5, NextCallOK
    <3>6. CASE proc' = [proc EXCEPT ![k] = a]
      BY <1>3, <2>1, <3>2, <3>6
    <3> QED BY <2>2, <3>1, <3>3, <3>4, <3>5, <3>6
  <2>6. CASE MovesPlanFile(k)
    <3>1. PICK x \in BOOLEAN :
            \/ proc' = [proc EXCEPT ![k] = [r EXCEPT !.pc = "persist", !.moved = x]]
            \/ proc' = [proc EXCEPT ![k] = [r EXCEPT !.pc = "persist", !.failed = TRUE]]
      BY <2>6 DEF MovesPlanFile
    <3>2. \A s \in {[r EXCEPT !.pc = "persist", !.moved = x],
                    [r EXCEPT !.pc = "persist", !.failed = TRUE]} :
            s.pc = "persist" /\ s.how = r.how /\ s.plan = p /\ s.shas = r.shas
      BY <1>2 DEF Proc
    <3>3. PICK s : /\ proc' = [proc EXCEPT ![k] = s]
                   /\ s.pc = "persist" /\ s.how = r.how /\ s.plan = p /\ s.shas = r.shas
      BY <3>1, <3>2
    <3> QED BY <1>3, <2>1, <3>3
  <2>7. CASE Persists(k)
    BY <2>2, <2>3, <2>7 DEF Persists
  <2>8. CASE ArchivesEvents(k)
    <3>1. \/ Fails(k) \/ Goes(k, "commit") \/ Ends(k)
          \/ r.how = "auto" /\ Goes(k, "unregister")
      BY <2>8 DEF ArchivesEvents
    <3> QED BY <1>1, <1>5, <2>2, <2>3, <3>1, FailsOK
  <2>9. CASE CommitsMove(k)
    <3>1. Fails(k) \/ Ends(k) \/ (r.how = "auto" /\ Goes(k, "unregister"))
      BY <2>9 DEF CommitsMove
    <3> QED BY <1>1, <1>5, <2>2, <2>3, <3>1, FailsOK
  <2>10. CASE Unregisters(k)
    BY <2>2, <2>10 DEF Unregisters
  <2> QED BY <2>4, <2>5, <2>6, <2>7, <2>8, <2>9, <2>10 DEF Archiving
<1> QED BY <1>1, <1>4, <1>5, <1>6, ProcessStep

\* clu worktree gc looks again before it removes.
LEMMA CollectKeeps ==
  ASSUME IInv, NEW k \in Process, NEW p \in Plan,
         \/ LooksToArchive(p) \/ LooksToCollect(p) \/ CollectRechecks(k)
         \/ UnregistersArchived \/ Crashes(k)
  PROVE  IInv'
<1> DEFINE r == proc[k]
           q == proc[k].plan
<1>1. TypeOK /\ ProcessOK(k) /\ TypeOK'
  BY CollectType DEF IInv
<1>2. UNCHANGED <<plan, git>>
  BY DEF LooksToArchive, LooksToCollect, CollectRechecks, UnregistersArchived, Crashes
<1>3. \A j \in Process : proc'[j] = proc[j] \/ ProcessOK(j)'
  <2>1. "operator" \in Process
    BY DEF Process
  <2>2. CASE LooksToArchive(p) \/ LooksToCollect(p)
    <3>1. PICK pc \in {"look", "recheck"}, how \in {"manual", "gc", "gc_branch"} :
            Begins("operator", pc, how, p)
      BY <2>2 DEF LooksToArchive, LooksToCollect
    <3> QED BY <1>1, <2>1, <3>1, BeginsOK
  <2>3. CASE CollectRechecks(k)
    <3> DEFINE a == [r EXCEPT !.pc = "remove", !.shas = {<<q, git[q].tip>>}]
    <3>1. q \in Plan /\ r \in Proc
      BY <1>1, <2>3 DEF CollectRechecks, ProcessOK, TypeOK
    <3>2. Ends(k) \/ (Reachable(q) /\ proc' = [proc EXCEPT ![k] = a])
      BY <2>3 DEF CollectRechecks
    <3>3. /\ a.pc = "remove" /\ a.how = r.how /\ a.plan = q /\ a.shas = {<<q, git[q].tip>>}
      BY <3>1 DEF Proc
    <3> HIDE DEF a
    <3>4. r.how # "init"
      BY <1>1, <2>3, <3>1 DEF ProcessOK, CollectRechecks
    <3>5. ASSUME Reachable(q), proc' = [proc EXCEPT ![k] = a]
          PROVE  \A j \in Process : proc'[j] = proc[j] \/ ProcessOK(j)'
      <4>1. proc'[k] = a /\ \A j \in Process \ {k} : proc'[j] = proc[j]
        BY <1>1, <3>5 DEF TypeOK
      <4>2. ASSUME DefaultKnown
            PROVE  git[q].tip \in 0..git'[q].origin
        <5>1. git[q].tip \in Tip /\ git[q].tip <= git[q].origin
          BY <1>1, <3>1, <3>5, <4>2 DEF Reachable, GitState, TypeOK
        <5>2. git[q].origin \in Int /\ git'[q].origin = git[q].origin
          BY <1>1, <1>2, <3>1, GitNumbers DEF TypeOK
        <5> QED BY <5>1, <5>2 DEF Tip
      <4>3. OnOrigin(k)'
        BY <3>3, <4>1, <4>2 DEF OnOrigin
      <4>4. ProcessOK(k)'
        BY <1>1, <2>3, <3>1, <3>3, <3>4, <4>1, <4>3 DEF ProcessOK, Making
      <4> QED BY <4>1, <4>4
    <3> QED BY <1>1, <3>2, <3>5, EndsOK
  <2>4. CASE Crashes(k)
    BY <1>1, <2>4, EndsOK DEF Crashes
  <2>5. CASE UnregistersArchived
    BY <2>5 DEF UnregistersArchived
  <2> QED BY <2>2, <2>3, <2>4, <2>5
<1> QED BY <1>1, <1>2, <1>3, ProcessStep

\* Ships move main and origin, and both only forward.
LEMMA ShipKeeps ==
  ASSUME IInv,
         \/ \E T \in SUBSET Plan : LooksToShipDirect(T) \/ LooksToShipAsPr(T)
         \/ ShipMerges("operator") \/ ShipPushes("operator") \/ OpensPr("operator")
         \/ StampsPending("operator")
  PROVE  IInv'
<1> DEFINE k == "operator"
           r == proc[k]
           p == proc[k].plan
<1>1. k \in Process
  BY DEF Process
<1>2. TypeOK /\ ProcessOK(k) /\ TypeOK'
  BY <1>1, ShipType DEF IInv
<1>3. r \in Proc /\ r.todo \in SUBSET Plan /\ ~Making(k)
  BY <1>1, <1>2 DEF TypeOK, Proc, LooksToShipDirect, LooksToShipAsPr, LooksToShip, Commands,
                    ShipMerges, ShipPushes, OpensPr, StampsPending, Making
<1>4. NoneUnclaimed'
  <2>1. CASE StampsPending(k)
    <3>1. p \in Plan /\ plan[p] \in PlanRow /\ plan \in [Plan -> PlanRow]
      BY <1>2, <2>1 DEF StampsPending, ProcessOK, TypeOK
    <3>2. plan' = [plan EXCEPT ![p] = [plan[p] EXCEPT !.ship_pending = TRUE]]
      BY <2>1 DEF StampsPending
    <3>3. /\ [plan[p] EXCEPT !.ship_pending = TRUE].status = plan[p].status
          /\ [plan[p] EXCEPT !.ship_pending = TRUE].claim = plan[p].claim
      BY <3>1 DEF PlanRow
    <3> QED BY <3>1, <3>2, <3>3 DEF IInv, NoneUnclaimed
  <2>2. CASE ~StampsPending(k)
    BY <2>2 DEF LooksToShipDirect, LooksToShipAsPr, LooksToShip, ShipMerges, ShipPushes, OpensPr,
                IInv, NoneUnclaimed
  <2> QED BY <2>1, <2>2
\* Only a push moves origin, and it is refused when origin has what main has not.
<1>5. \A q \in Plan : git[q].origin <= git'[q].origin
  <2>1. \A q \in Plan : git[q] \in GitState /\ git[q].origin \in Int /\ git[q].main \in Int
    BY <1>2, GitNumbers DEF TypeOK
  <2>2. CASE ShipPushes(k)
    <3>1. CASE UNCHANGED git
      BY <2>1, <3>1
    <3>2. CASE /\ \A q \in Plan : ~(git[q].origin > git[q].main)
               /\ git' = [q \in Plan |-> [git[q] EXCEPT !.origin = git[q].main]]
      <4>1. \A q \in Plan : git'[q].origin = git[q].main
        BY <2>1, <3>2 DEF GitState
      <4> QED BY <2>1, <3>2, <4>1
    <3> QED BY <2>2, <3>1, <3>2 DEF ShipPushes
  <2>3. CASE ~ShipPushes(k)
    <3> DEFINE y == [git[p] EXCEPT !.main = Max({@, git[p].tip})]
               z == [git[p] EXCEPT !.pr = "open", !.pushed = git[p].tip]
    <3>1. \/ UNCHANGED git
          \/ p \in Plan /\ \E g \in {y, z} : git' = [git EXCEPT ![p] = g]
          \/ git' = [q \in Plan |-> [git[q] EXCEPT !.main = Max({@, git[q].origin})]]
      BY <1>2, <2>3
         DEF LooksToShipDirect, LooksToShipAsPr, LooksToShip, ShipMerges, OpensPr, StampsPending,
             ProcessOK
    <3>2. \A q \in Plan : git'[q].origin = git[q].origin
      <4>1. ASSUME p \in Plan, \E g \in {y, z} : git' = [git EXCEPT ![p] = g]
            PROVE  \A a \in Plan : git'[a].origin = git[a].origin
        <5>1. \A g \in {y, z} : g.origin = git[p].origin
          BY <2>1, <4>1 DEF GitState
        <5> HIDE DEF y, z
        <5> QED BY <1>2, <4>1, <5>1 DEF TypeOK
      <4>2. ASSUME git' = [q \in Plan |-> [git[q] EXCEPT !.main = Max({@, git[q].origin})]]
            PROVE  \A a \in Plan : git'[a].origin = git[a].origin
        BY <2>1, <4>2 DEF GitState
      <4> QED BY <3>1, <4>1, <4>2
    <3> QED BY <2>1, <3>2
  <2> QED BY <2>2, <2>3
<1>6. \A j \in Process : proc'[j] = proc[j] \/ ProcessOK(j)'
  <2>1. ASSUME NEW s, proc' = [proc EXCEPT ![k] = s],
               s.pc \in {"merge", "open_pr", "push", "stamp"}, s.plan \in Plan, s.how # "auto"
        PROVE  \A j \in Process : proc'[j] = proc[j] \/ ProcessOK(j)'
    <3>1. proc'[k] = s /\ \A j \in Process \ {k} : proc'[j] = proc[j]
      BY <1>1, <1>2, <2>1 DEF TypeOK
    <3>2. ProcessOK(k)'
      BY <2>1, <3>1 DEF ProcessOK, Making
    <3> QED BY <3>1, <3>2
  <2>2. ASSUME NEW T \in SUBSET Plan, LooksToShipDirect(T) \/ LooksToShipAsPr(T)
        PROVE  \A j \in Process : proc'[j] = proc[j] \/ ProcessOK(j)'
    <3>1. PICK how \in {"direct", "as_pr"}, pc \in {"merge", "open_pr"} : LooksToShip(T, how, pc)
      BY <2>2 DEF LooksToShipDirect, LooksToShipAsPr
    <3> DEFINE s == [Off EXCEPT !.pc = pc, !.how = how, !.plan = Min(T), !.todo = T \ {Min(T)}]
    <3>2. proc' = [proc EXCEPT ![k] = s] /\ T # {}
      BY <3>1 DEF LooksToShip
    <3>3. s.pc = pc /\ s.how = how /\ s.plan = Min(T)
      BY DEF Off
    <3>4. Min(T) \in Plan
      BY <3>2, LeastElement
    <3> HIDE DEF s
    <3> QED BY <2>1, <3>2, <3>3, <3>4
  <2>3. ASSUME NEW pc \in {"push", "stamp"}, Goes(k, pc), p \in Plan
        PROVE  \A j \in Process : proc'[j] = proc[j] \/ ProcessOK(j)'
    <3> DEFINE s == [r EXCEPT !.pc = pc]
    <3>1. s.pc = pc /\ s.how = r.how /\ s.plan = p
      BY <1>3 DEF Proc
    <3>2. r.how # "auto"
      BY <1>2 DEF ProcessOK
    <3>3. proc' = [proc EXCEPT ![k] = s]
      BY <2>3 DEF Goes
    <3> HIDE DEF s
    <3> QED BY <2>1, <2>3, <3>1, <3>2, <3>3
  <2>4. ASSUME ShipMerges(k) \/ ShipPushes(k) \/ OpensPr(k) \/ StampsPending(k)
        PROVE  \A j \in Process : proc'[j] = proc[j] \/ ProcessOK(j)'
    <3>1. p \in Plan
      BY <1>2, <2>4 DEF ShipMerges, ShipPushes, OpensPr, StampsPending, ProcessOK
    <3>2. Goes(k, "push") \/ Goes(k, "stamp") \/ NextToShip(k, r.todo)
      BY <2>4 DEF ShipMerges, ShipPushes, OpensPr, StampsPending
    <3> QED BY <1>2, <1>3, <2>3, <3>1, <3>2, NextToShipOK
  <2> QED BY <2>2, <2>4
<1> QED BY <1>2, <1>3, <1>4, <1>5, <1>6, Frame

\* At the start nothing runs.
LEMMA InitOK == Init => IInv
<1> SUFFICES ASSUME Init PROVE IInv
  OBVIOUS
<1>1. TypeOK
  <2>1. Off \in Proc
    BY DEF Off, Proc, Pc, Shas
  <2>2. NoGit \in GitState /\ Fresh \in GitState
    BY Bounds DEF NoGit, Fresh, GitState
  <2>3. \A b \in BOOLEAN : Created(b) \in PlanRow
    BY CreatedType
  <2>4. NoRow \in PlanRow
    BY CreatedType
  <2>5. PICK W \in {registered, {}} :
          /\ plan = [p \in Plan |-> IF p \in registered THEN Created(p \in W) ELSE NoRow]
          /\ git = [p \in Plan |-> IF p \in W THEN Fresh ELSE NoGit]
    BY DEF Init
  <2>6. plan \in [Plan -> PlanRow]
    <3>1. \A p \in Plan : (p \in W) \in BOOLEAN
      OBVIOUS
    <3>2. \A p \in Plan : Created(p \in W) \in PlanRow
      BY <2>3, <3>1
    <3> QED BY <2>4, <2>5, <3>2
  <2>7. git \in [Plan -> GitState]
    BY <2>2, <2>5
  <2> QED BY <2>1, <2>6, <2>7, BoundsAssumption DEF Init, TypeOK, File
<1>2. NoneUnclaimed
  <2>1. \A b : Created(b).claim = FALSE
    BY DEF Created, NoRow
  <2>2. NoRow.claim = FALSE
    BY DEF NoRow
  <2> QED BY <2>1, <2>2 DEF Init, NoneUnclaimed
<1>3. \A k \in Process : ProcessOK(k)
  BY DEF Init, ProcessOK, Making, Off
<1> QED BY <1>1, <1>2, <1>3 DEF IInv

\* What every process carries stays true of git and of the plans, whoever moves
\* branches, ships or crashes meanwhile (cmd_archive, cmd_ship, cmd_worktree_gc).
THEOREM Inductive == Spec => []IInv
<1>1. ASSUME IInv, [Next]_vars
      PROVE  IInv'
  <2>1. CASE UNCHANGED vars
    <3>1. TypeOK' /\ NoneUnclaimed'
      BY <1>1, <2>1 DEF vars, IInv, TypeOK, NoneUnclaimed
    <3>2. \A k \in Process : (OnOrigin(k)' <=> OnOrigin(k)) /\ (Making(k)' <=> Making(k))
      BY <2>1 DEF vars, OnOrigin, Making
    <3>3. \A k \in Process : ProcessOK(k)'
      BY <1>1, <2>1, <3>2 DEF vars, IInv, ProcessOK
    <3> QED BY <3>1, <3>3 DEF IInv
  <2>2. Operated \subseteq Plan /\ Operated \in SUBSET Plan /\ 1 \in Plan /\ "operator" \in Process
    BY BoundsAssumption DEF Plan, Process
  <2>3. ASSUME NEW p \in Plan,
               \/ Dispatches(p) \/ DeclaresDone(p) \/ CommitsWork(p) \/ WorkerCompletes(p)
               \/ Halts(p) \/ PrEnds(p) \/ Pauses(p) \/ ResumesOrRetries(p)
               \/ AttachesWorktree(p) \/ ReattachesWorktree(p)
        PROVE  IInv'
    BY <1>1, <2>3, LifeKeeps
  <2>4. ASSUME NEW p \in Plan, SetsUpWorktree(p) \/ InitCreates("operator")
        PROVE  IInv'
    BY <1>1, <2>4, InitCommandKeeps
  <2>5. ASSUME NEW p \in Plan, NEW k \in Process,
               \/ LooksToArchive(p) \/ LooksToCollect(p) \/ CollectRechecks(k)
               \/ UnregistersArchived \/ Crashes(k)
        PROVE  IInv'
    BY <1>1, <2>5, CollectKeeps
  <2>6. CASE RunsRules \/ \E p \in Plan : AppliesRule(p)
    BY <1>1, <2>6, RuleKeeps
  <2>7. ASSUME NEW k \in Process, Archiving(k)
        PROVE  IInv'
    BY <1>1, <2>7, ArchivingKeeps
  <2>8. ASSUME \/ \E T \in SUBSET Plan : LooksToShipDirect(T) \/ LooksToShipAsPr(T)
               \/ ShipMerges("operator") \/ ShipPushes("operator") \/ OpensPr("operator")
               \/ StampsPending("operator")
        PROVE  IInv'
    BY <1>1, <2>8, ShipKeeps
  <2>9. CASE \E p \in Plan : \/ Dispatches(p) \/ DeclaresDone(p) \/ CommitsWork(p)
                             \/ WorkerCompletes(p) \/ Halts(p) \/ AppliesRule(p) \/ PrEnds(p)
    BY <2>3, <2>6, <2>9
  <2>10. CASE \E p \in Operated : \/ Pauses(p) \/ ResumesOrRetries(p) \/ SetsUpWorktree(p)
                                  \/ AttachesWorktree(p) \/ ReattachesWorktree(p)
                                  \/ LooksToArchive(p) \/ LooksToCollect(p)
    BY <2>2, <2>3, <2>4, <2>5, <2>10
  <2>11. CASE \E k \in Process : Archiving(k) \/ Crashes(k)
    BY <2>2, <2>5, <2>7, <2>11
  <2>12. CASE InitCreates("operator") \/ CollectRechecks("operator") \/ UnregistersArchived
    BY <2>2, <2>4, <2>5, <2>12
  <2>13. CASE \/ ShipMerges("operator") \/ ShipPushes("operator") \/ OpensPr("operator")
              \/ StampsPending("operator")
              \/ (\E T \in {Operated, Plan} : LooksToShipDirect(T))
              \/ LooksToShipAsPr(Operated)
    BY <2>2, <2>8, <2>13
  <2> QED BY <1>1, <2>1, <2>6, <2>9, <2>10, <2>11, <2>12, <2>13 DEF Next
<1> QED BY <1>1, InitOK, PTL DEF Spec

\* The steps that take a branch away.
LEMMA WhoDeletes ==
  ASSUME IInv, Next, NEW p \in Plan, git[p].branch, ~git'[p].branch
  PROVE  \E k \in Process : proc[k].pc \in {"remove", "branch", "remote"} /\ proc[k].plan = p
<1>1. /\ git \in [Plan -> GitState] /\ "operator" \in Process
      /\ Operated \subseteq Plan
  BY BoundsAssumption DEF IInv, TypeOK, Process, Plan
<1>2. \A q \in Plan : git[q] \in GitState
  BY <1>1
<1>3. ASSUME NEW k \in Process, RemovesTree(k)
      PROVE  proc[k].pc \in {"remove", "branch", "remote"} /\ proc[k].plan = p
  <2>1. proc[k].pc \in {"remove", "branch", "remote"} /\ git' \in {git, Called(k)}
    BY <1>3 DEF RemovesTree
  <2>2. TypeOK /\ proc[k].plan \in Plan
    BY <2>1 DEF IInv, ProcessOK
  <2>3. p # proc[k].plan => git'[p] = git[p]
    BY <2>1, <2>2, CalledType
  <2> QED BY <2>1, <2>3
<1>4. ASSUME NEW q \in Plan, NEW g, git' = [git EXCEPT ![q] = g], git[q].branch => g.branch
      PROVE  FALSE
  BY <1>1, <1>4
<1>5. ASSUME NEW q \in Plan,
             \/ CommitsWork(q) \/ PrEnds(q) \/ SetsUpWorktree(q) \/ AttachesWorktree(q)
             \/ ReattachesWorktree(q)
      PROVE  FALSE
  <2>1. CASE SetsUpWorktree(q)
    BY <1>4, <2>1 DEF SetsUpWorktree
  <2>2. CASE CommitsWork(q)
    <3>1. [git[q] EXCEPT !.tip = @ + 1].branch = git[q].branch
      BY <1>2 DEF GitState
    <3> QED BY <1>4, <2>2, <3>1 DEF CommitsWork
  <2>3. CASE PrEnds(q)
    <3>1. PICK o : git' = [git EXCEPT ![q] =
                             [git[q] EXCEPT !.pr = "closed", !.pushed = 0, !.origin = o]]
      BY <2>3 DEF PrEnds
    <3>2. [git[q] EXCEPT !.pr = "closed", !.pushed = 0, !.origin = o].branch = git[q].branch
      BY <1>2 DEF GitState
    <3> QED BY <1>4, <3>1, <3>2
  <2>4. CASE AttachesWorktree(q) \/ ReattachesWorktree(q)
    <3> DEFINE a == [git[q] EXCEPT !.dir = TRUE]
               b == [git[q] EXCEPT !.branch = TRUE, !.dir = TRUE, !.tip = git[q].main]
    <3>1. a.branch = git[q].branch /\ b.branch
      BY <1>2 DEF GitState
    <3>2. git' = [git EXCEPT ![q] = a] \/ git' = [git EXCEPT ![q] = b]
      BY <2>4 DEF AttachesWorktree, ReattachesWorktree
    <3> HIDE DEF a, b
    <3> QED BY <1>4, <3>1, <3>2
  <2> QED BY <1>5, <2>1, <2>2, <2>3, <2>4
<1>6. ASSUME \/ \E T \in SUBSET Plan : LooksToShipDirect(T) \/ LooksToShipAsPr(T)
             \/ ShipMerges("operator") \/ ShipPushes("operator") \/ OpensPr("operator")
             \/ StampsPending("operator")
      PROVE  FALSE
  <2> DEFINE q == proc["operator"].plan
             a == [git[q] EXCEPT !.main = Max({@, git[q].tip})]
             b == [git[q] EXCEPT !.pr = "open", !.pushed = git[q].tip]
  <2>1. \/ UNCHANGED git
        \/ q \in Plan /\ \E g \in {a, b} : git' = [git EXCEPT ![q] = g]
        \/ git' = [r \in Plan |-> [git[r] EXCEPT !.main = Max({@, git[r].origin})]]
        \/ git' = [r \in Plan |-> [git[r] EXCEPT !.origin = git[r].main]]
    <3>1. CASE \E T \in SUBSET Plan : LooksToShipDirect(T) \/ LooksToShipAsPr(T)
      BY <3>1 DEF LooksToShipDirect, LooksToShipAsPr
    <3>2. CASE ShipMerges("operator") \/ OpensPr("operator")
      <4>1. q \in Plan
        BY <1>1, <3>2 DEF ShipMerges, OpensPr, IInv, ProcessOK
      <4>2. UNCHANGED git \/ git' = [git EXCEPT ![q] = a] \/ git' = [git EXCEPT ![q] = b]
        BY <3>2 DEF ShipMerges, OpensPr
      <4> HIDE DEF q, a, b
      <4> QED BY <4>1, <4>2
    <3>3. CASE ShipPushes("operator") \/ StampsPending("operator")
      BY <3>3 DEF ShipPushes, StampsPending
    <3> QED BY <1>6, <3>1, <3>2, <3>3
  <2>2. ASSUME q \in Plan, \E g \in {a, b} : git' = [git EXCEPT ![q] = g]
        PROVE  FALSE
    <3>1. a.branch = git[q].branch /\ b.branch = git[q].branch
      BY <1>2, <2>2 DEF GitState
    <3> HIDE DEF a, b
    <3> QED BY <1>4, <2>2, <3>1
  <2>3. ASSUME \/ git' = [r \in Plan |-> [git[r] EXCEPT !.main = Max({@, git[r].origin})]]
               \/ git' = [r \in Plan |-> [git[r] EXCEPT !.origin = git[r].main]]
        PROVE  FALSE
    <3> DEFINE x == [git[p] EXCEPT !.main = Max({@, git[p].origin})]
               y == [git[p] EXCEPT !.origin = git[p].main]
    <3>1. x.branch = git[p].branch /\ y.branch = git[p].branch
      BY <1>2 DEF GitState
    <3>2. git'[p] = x \/ git'[p] = y
      BY <2>3
    <3> HIDE DEF x, y
    <3> QED BY <3>1, <3>2
  <2> QED BY <2>1, <2>2, <2>3
<1>7. \/ UNCHANGED git
      \/ \E k \in Process : RemovesTree(k)
      \/ \E q \in Plan : \/ CommitsWork(q) \/ PrEnds(q) \/ SetsUpWorktree(q)
                         \/ AttachesWorktree(q) \/ ReattachesWorktree(q)
      \/ \E T \in SUBSET Plan : LooksToShipDirect(T) \/ LooksToShipAsPr(T)
      \/ ShipMerges("operator") \/ ShipPushes("operator") \/ OpensPr("operator")
      \/ StampsPending("operator")
  <2>1. CASE \E q \in Plan : \/ Dispatches(q) \/ DeclaresDone(q) \/ CommitsWork(q)
                            \/ WorkerCompletes(q) \/ Halts(q) \/ AppliesRule(q) \/ PrEnds(q)
    BY <2>1 DEF Dispatches, DeclaresDone, WorkerCompletes, Halts, AppliesRule
  <2>2. CASE \E q \in Operated : \/ Pauses(q) \/ ResumesOrRetries(q) \/ SetsUpWorktree(q)
                                \/ AttachesWorktree(q) \/ ReattachesWorktree(q)
                                \/ LooksToArchive(q) \/ LooksToCollect(q)
    BY <1>1, <2>2 DEF Pauses, ResumesOrRetries, LooksToArchive, LooksToCollect
  <2>3. CASE \E k \in Process : Archiving(k) \/ Crashes(k)
    BY <2>3 DEF Archiving, LooksAtTree, MovesPlanFile, Persists, ArchivesEvents, CommitsMove,
                Unregisters, Crashes
  <2>4. CASE \/ CollectRechecks("operator") \/ RunsRules \/ UnregistersArchived
             \/ InitCreates("operator")
             \/ (\E T \in {Operated, Plan} : LooksToShipDirect(T)) \/ LooksToShipAsPr(Operated)
    BY <1>1, <2>4 DEF CollectRechecks, RunsRules, UnregistersArchived, InitCreates
  <2> QED BY <2>1, <2>2, <2>3, <2>4 DEF Next
<1> QED BY <1>1, <1>3, <1>5, <1>6, <1>7

\* Where origin's default branch is known, what the branch of a plan is deleted by
\* had seen its tip on origin, or has made it itself: cmd_archive and its rule,
\* cmd_worktree_gc, cmd_init.
THEOREM DeletedWasOnOrigin == DefaultKnown => (Spec => DeletedIsOnOrigin)
<1> SUFFICES ASSUME DefaultKnown PROVE Spec => DeletedIsOnOrigin
  OBVIOUS
<1> DEFINE Seen(p) ==
             \E k \in Process : /\ proc[k].plan = p
                                /\ \/ proc[k].how = "init" /\ git[p].tip = git[p].main
                                   \/ \E t \in 0..git[p].origin : proc[k].shas = {<<p, t>>}
           Deletion == \A p \in Plan : (git[p].branch /\ ~git'[p].branch) => Seen(p)
<1>1. ASSUME IInv, Next, NEW p \in Plan, git[p].branch, ~git'[p].branch
      PROVE  Seen(p)
  <2>1. \A k \in Process : ProcessOK(k)
    BY <1>1 DEF IInv
  <2>2. PICK k \in Process : proc[k].pc \in {"remove", "branch", "remote"} /\ proc[k].plan = p
    BY <1>1, WhoDeletes
  <2>3. CASE Making(k)
    BY <2>1, <2>2, <2>3 DEF ProcessOK
  <2>4. CASE ~Making(k)
    BY <2>1, <2>2, <2>4 DEF ProcessOK, OnOrigin
  <2> QED BY <2>3, <2>4
<1>2. IInv /\ [Next]_vars => [Deletion]_vars
  BY <1>1
<1> QED BY <1>2, Inductive, PTL DEF Spec, DeletedIsOnOrigin

\* The archive rule's registry write comes after what it saw was on origin, where
\* the default branch is known, and origin never loses a commit.
THEOREM UnregisteredWasShipped == DefaultKnown => (Spec => UnregisteredIsShipped)
<1> SUFFICES ASSUME DefaultKnown PROVE Spec => UnregisteredIsShipped
  OBVIOUS
<1> DEFINE Shipped ==
             \A p \in registered \ registered' :
               (proc["tick"].pc = "unregister" /\ proc["tick"].plan = p /\ proc'["tick"] = Off) =>
                 \A s \in proc["tick"].shas : s[1] = p /\ s[2] <= git[p].origin
<1>1. ASSUME IInv, proc["tick"].pc = "unregister"
      PROVE  \A s \in proc["tick"].shas : s[1] = proc["tick"].plan
                                          /\ s[2] <= git[proc["tick"].plan].origin
  <2>1. "tick" \in Process
    BY DEF Process
  <2>2. OnOrigin("tick")
    BY <1>1, <2>1 DEF IInv, ProcessOK
  <2>3. git[proc["tick"].plan].origin \in Int
    BY <1>1, <2>1, GitNumbers DEF IInv, ProcessOK, TypeOK
  <2> QED BY <2>2, <2>3 DEF OnOrigin
<1>2. IInv /\ [Next]_vars => [Shipped]_vars
  BY <1>1
<1> QED BY <1>2, Inductive, PTL DEF Spec, UnregisteredIsShipped
=============================================================================
