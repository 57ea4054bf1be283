--------------------------- MODULE PlanQueue_proofs ---------------------------
(***************************************************************************)
(* The safety theorems of PlanQueue, for every set of plans, any number of  *)
(* ticks that push and sweep at a time, and any number of claims, rows,     *)
(* commands and faults.                                                     *)
(*                                                                          *)
(* The queue's head is the row with the smallest id, and ids run below zero *)
(* when the operator pushes in front: that there is a smallest one needs    *)
(* the queue to stay finite.  What the sweep halts was a zombie at the look; that   *)
(* it is one at the write follows because a token is never claimed twice    *)
(* and its worker stays dead.                                               *)
(***************************************************************************)
EXTENDS PlanQueue, Ranks_proofs, SequenceTheorems, TLAPS

\* The rows: as TypeOK says, and no more than were put in.
QueueOK ==
  /\ queue \subseteq [slug : Slug, id : Int]
  /\ \A r, other \in queue : r.slug = other.slug \/ r.id = other.id => r = other
  /\ \A r \in queue : r.id <= lastId
  /\ lastId \in Nat
  /\ IsFiniteSet(Ids(queue))
  /\ history \in [Slug -> SUBSET Outcome]

\* The plans: as TypeOK says, and only plans there are are claimed, with tokens
\* that were minted.
PlansOK ==
  /\ plans \in [Slug -> Plan]
  /\ minted \in 0..MaxClaims
  /\ dead \subseteq 1..minted
  /\ \A s \in Slug : plans[s].claim \in 0..minted /\ (Claimed(s) => Exists(s))

\* A sweep that is about to write saw no claim, or a dead worker's.
SawZombie(k) == At(k, "swept") => proc[k].token = 0 \/ proc[k].token \in dead

TicksOK ==
  /\ proc \in [Ticker -> Proc]
  /\ \A k \in Ticker : SawZombie(k)

OperatorOK ==
  /\ registry \subseteq Slug /\ files \subseteq Slug
  /\ op \in Op /\ op.token \in 0..minted
  /\ adding \subseteq Adding
  /\ left \in [adds : 0..MaxAdds, commands : 0..MaxCommands, faults : 0..MaxFaults]

IInv == QueueOK /\ PlansOK /\ TicksOK /\ OperatorOK /\ PoppedPlansExist

-----------------------------------------------------------------------------
(* The queue's rows                                                          *)

LEMMA IdsAre ==
  ASSUME NEW rows
  PROVE  /\ \A r \in rows : r.id \in Ids(rows)
         /\ \A x \in Ids(rows) : \E r \in rows : r.id = x
BY DEF Ids

\* A queue that is not empty has a head.
LEMMA HeadIsLeast ==
  ASSUME QueueOK, queue # {}
  PROVE  /\ HeadRow \in queue /\ HeadRow.slug \in Slug /\ HeadRow.id \in Int
         /\ \A r \in queue : HeadRow.id <= r.id
<1> DEFINE S == Ids(queue)
           n == Cardinality(S)
<1>1. S \subseteq Int /\ S # {} /\ IsFiniteSet(S)
  BY IdsAre DEF QueueOK
<1>2. n \in Nat /\ n # 0
  BY <1>1, FS_CardinalityType, FS_EmptySet
<1> HIDE DEF S
<1>3. Ascends(InOrder(S), n, S)
  BY <1>1, SortedRead
<1> DEFINE m == InOrder(S)[1]
<1>4. m \in S /\ \A x \in S : m <= x
  <2>1. 1 \in 1..n
    BY <1>2
  <2>2. ASSUME NEW x \in S PROVE m <= x
    <3>1. PICK i \in 1..n : InOrder(S)[i] = x
      BY <1>3 DEF Ascends
    <3>2. i = 1 \/ 1 < i
      OBVIOUS
    <3>3. m \in Int /\ x \in Int
      BY <1>1, <1>3, <2>1 DEF Ascends
    <3> QED BY <1>3, <2>1, <3>1, <3>2, <3>3 DEF Ascends
  <2> QED BY <1>3, <2>1, <2>2 DEF Ascends
<1> HIDE DEF m
<1>5. PICK r \in queue : r.id = m
  BY <1>4, IdsAre DEF S
<1>6. \A other \in queue : r.id <= other.id
  BY <1>4, <1>5, IdsAre DEF S
<1>7. HeadRow \in queue /\ \A other \in queue : HeadRow.id <= other.id
  BY <1>6 DEF HeadRow
<1> QED BY <1>7 DEF QueueOK

LEMMA InsertKeeps ==
  ASSUME QueueOK, NEW s \in Slug, NEW front \in BOOLEAN, Insert(s, front)
  PROVE  QueueOK' /\ history' = history
<1> DEFINE id == IF ~front THEN lastId + 1 ELSE IF queue = {} THEN 1 ELSE HeadRow.id - 1
           row == [slug |-> s, id |-> id]
<1>1. id \in Int /\ (id > lastId => id \in Nat) /\ \A r \in queue : r.id # id
  <2>1. CASE ~front
    BY <2>1 DEF QueueOK
  <2>2. CASE front /\ queue = {}
    BY <2>2
  <2>3. CASE front /\ queue # {}
    <3>1. HeadRow.id \in Int /\ HeadRow.id <= lastId /\ \A r \in queue : HeadRow.id <= r.id
      BY <2>3, HeadIsLeast DEF QueueOK
    <3> HIDE DEF HeadRow
    <3>2. id = HeadRow.id - 1
      BY <2>3
    <3>3. \A r \in queue : r.id \in Int
      BY DEF QueueOK
    <3>4. lastId \in Nat
      BY DEF QueueOK
    <3> QED BY <3>1, <3>2, <3>3, <3>4
  <2> QED BY <2>1, <2>2, <2>3
<1>2. /\ queue' = queue \cup {row} /\ lastId' = (IF id > lastId THEN id ELSE lastId)
      /\ history' = history
  BY DEF Insert
<1>3. \A r \in queue : r.slug # s
  BY DEF Insert, Queued
<1> HIDE DEF id
<1>4. row \in [slug : Slug, id : Int] /\ row.slug = s /\ row.id = id
  BY <1>1
<1> HIDE DEF row
<1>5. queue' \subseteq [slug : Slug, id : Int]
  BY <1>2, <1>4 DEF QueueOK
<1>6. \A r, other \in queue' : r.slug = other.slug \/ r.id = other.id => r = other
  BY <1>1, <1>2, <1>3, <1>4 DEF QueueOK
<1>7. lastId' \in Nat /\ \A r \in queue' : r.id <= lastId'
  <2>1. lastId \in Nat /\ \A r \in queue : r.id \in Int /\ r.id <= lastId
    BY DEF QueueOK
  <2>2. lastId' \in Nat /\ lastId <= lastId' /\ id <= lastId'
    BY <1>1, <1>2, <2>1
  <2>3. \A r \in queue : r.id <= lastId'
    BY <2>1, <2>2
  <2> QED BY <1>2, <1>4, <2>2, <2>3
<1>8. IsFiniteSet(Ids(queue'))
  <2>1. Ids(queue') = Ids(queue) \cup {id}
    BY <1>2, <1>4 DEF Ids
  <2> QED BY <2>1, FS_AddElement DEF QueueOK
<1> QED BY <1>2, <1>5, <1>6, <1>7, <1>8 DEF QueueOK

LEMMA LeaveKeeps ==
  ASSUME QueueOK, NEW r \in queue, NEW outcome \in Outcome, Leave(r, outcome)
  PROVE  /\ QueueOK' /\ r.slug \in Slug
         /\ \A s \in Slug : history'[s] \subseteq history[s] \cup {outcome}
         /\ \A s \in Slug : s # r.slug => history'[s] = history[s]
<1>1. r.slug \in Slug
  BY DEF QueueOK
<1>2. queue' \subseteq queue /\ lastId' = lastId /\ IsFiniteSet(Ids(queue'))
  <2>1. queue' \subseteq queue /\ lastId' = lastId
    BY DEF Leave
  <2>2. Ids(queue') \in SUBSET Ids(queue)
    BY <2>1 DEF Ids
  <2> QED BY <2>1, <2>2, FS_Subset DEF QueueOK
<1>3. history' \in [Slug -> SUBSET Outcome]
  <2>1. history[r.slug] \cup {outcome} \in SUBSET Outcome
    BY <1>1 DEF QueueOK
  <2> QED BY <2>1 DEF Leave, QueueOK
<1>4. \A s \in Slug : /\ history'[s] \subseteq history[s] \cup {outcome}
                      /\ s # r.slug => history'[s] = history[s]
  BY DEF Leave, QueueOK
<1> QED BY <1>1, <1>2, <1>3, <1>4 DEF QueueOK

LEMMA PopKeeps ==
  ASSUME QueueOK, NEW s, NEW outcome \in Outcome, PopHead(s, outcome)
  PROVE  /\ QueueOK' /\ s \in Slug
         /\ \A u \in Slug : history'[u] \subseteq history[u] \cup {outcome}
         /\ \A u \in Slug : u # s => history'[u] = history[u]
<1>1. HeadRow \in queue /\ HeadRow.slug = s /\ Leave(HeadRow, outcome)
  BY HeadIsLeast DEF PopHead, Heads
<1> HIDE DEF HeadRow
<1> QED BY <1>1, LeaveKeeps

LEMMA QueueSame ==
  ASSUME QueueOK, UNCHANGED queueVars
  PROVE  QueueOK' /\ \A s \in Slug : history'[s] = history[s]
BY DEF QueueOK, queueVars

-----------------------------------------------------------------------------
(* The plans                                                                 *)

\* One plan is written: the types hold and the others stay as they are.
LEMMA SetPlanKeeps ==
  ASSUME PlansOK, NEW s \in Slug, NEW st \in Status, NEW c \in 0..minted', SetPlan(s, st, c),
         minted' \in 0..MaxClaims, minted <= minted', UNCHANGED dead
  PROVE  /\ PlansOK'
         /\ plans'[s] = [status |-> st, claim |-> c]
         /\ \A u \in Slug : u # s => plans'[u] = plans[u]
         /\ \A u \in Slug : Exists(u) => Exists(u)'
         /\ Exists(s)'
<1> DEFINE row == [status |-> st, claim |-> c]
<1>1. row \in Plan /\ row.status = st /\ row.claim = c /\ st # "none"
  BY BoundsAssumption DEF Plan, Status
<1>2. plans' = [plans EXCEPT ![s] = row]
  BY DEF SetPlan
<1> HIDE DEF row
<1>3. /\ plans' \in [Slug -> Plan] /\ plans'[s] = row
      /\ \A u \in Slug : u # s => plans'[u] = plans[u]
  BY <1>1, <1>2 DEF PlansOK
<1>4. \A u \in Slug : plans'[u].claim \in 0..minted'
  <2>1. minted \in Nat /\ minted' \in Nat
    BY BoundsAssumption DEF PlansOK
  <2>2. \A u \in Slug : plans[u].claim \in 0..minted
    BY DEF PlansOK
  <2> QED BY <1>1, <1>3, <2>1, <2>2
<1>5. dead' \subseteq 1..minted'
  BY DEF PlansOK
<1>6. PlansOK'
  BY <1>1, <1>3, <1>4, <1>5 DEF PlansOK, Claimed, Exists
<1>7. \A u \in Slug : Exists(u) => Exists(u)'
  BY <1>1, <1>3 DEF Exists
<1> QED BY <1>1, <1>3, <1>6, <1>7 DEF Exists, row

LEMMA PlansSame ==
  ASSUME PlansOK, UNCHANGED planVars
  PROVE  PlansOK' /\ \A u \in Slug : Exists(u) => Exists(u)'
BY DEF PlansOK, planVars, Exists, Claimed

\* A tick of a plan mints at most one token and never undoes a plan.
LEMMA PlanStepKeeps ==
  ASSUME PlansOK, NEW s \in Slug, PlanStep(s)
  PROVE  /\ PlansOK' /\ minted <= minted' /\ dead' = dead
         /\ \A u \in Slug : Exists(u) => Exists(u)'
<1>1. minted \in Nat /\ minted <= MaxClaims /\ MaxClaims \in Nat
  BY BoundsAssumption DEF PlansOK
<1>2. CASE minted < MaxClaims /\ SetPlan(s, "running", minted + 1) /\ minted' = minted + 1
  <2>1. minted' \in 0..MaxClaims /\ minted + 1 \in 0..minted' /\ minted <= minted'
    BY <1>1, <1>2
  <2> QED BY <1>2, <2>1, SetPlanKeeps DEF PlanStep, Status
<1>3. CASE UNCHANGED minted /\ \E st \in Status : SetPlan(s, st, 0)
  <2>1. minted' \in 0..MaxClaims /\ 0 \in 0..minted' /\ minted <= minted'
    BY <1>1, <1>3
  <2> QED BY <1>3, <2>1, SetPlanKeeps DEF PlanStep
<1> QED BY <1>2, <1>3 DEF PlanStep, Status

-----------------------------------------------------------------------------
(* The ticks                                                                 *)

LEMMA IdleType == Idle \in Proc /\ Idle.pc = "idle"
BY BootstrapAssumption, BoundsAssumption DEF Idle, Proc, PC

\* What is left of a step: the tick that moved carries what it may, and dead
\* workers stay dead.
LEMMA TickMoves ==
  ASSUME TicksOK, NEW k \in Ticker, NEW q \in Proc, proc' = [proc EXCEPT ![k] = q],
         q.pc = "swept" => q.token = 0 \/ q.token \in dead', dead \subseteq dead'
  PROVE  TicksOK'
<1>1. /\ proc' \in [Ticker -> Proc] /\ proc'[k] = q
      /\ \A j \in Ticker : j # k => proc'[j] = proc[j]
  BY DEF TicksOK
<1> QED BY <1>1 DEF TicksOK, SawZombie, At

LEMMA TicksSame ==
  ASSUME TicksOK, UNCHANGED proc, dead \subseteq dead'
  PROVE  TicksOK'
BY DEF TicksOK, SawZombie, At

LEMMA GotoKeeps ==
  ASSUME TicksOK, NEW k \in Ticker, NEW pc \in PC, pc # "swept", Goto(k, pc), dead \subseteq dead'
  PROVE  TicksOK'
<1> DEFINE q == [proc[k] EXCEPT !.pc = pc]
<1>1. q \in Proc /\ q.pc = pc
  BY DEF TicksOK, Proc
<1>2. proc' = [proc EXCEPT ![k] = q]
  BY DEF Goto
<1> HIDE DEF q
<1> QED BY <1>1, <1>2, TickMoves

LEMMA EndsKeeps ==
  ASSUME TicksOK, NEW k \in Ticker, Ends(k), dead \subseteq dead'
  PROVE  TicksOK'
BY IdleType, TickMoves DEF Ends

\* A tick that begins or goes on with its sweep.
LEMMA SweepingKeeps ==
  ASSUME TicksOK, NEW k \in Ticker, NEW T \in SUBSET Slug,
         proc' = [proc EXCEPT ![k] = [Idle EXCEPT !.pc = "sweep", !.todo = T]],
         dead \subseteq dead'
  PROVE  TicksOK'
<1> DEFINE q == [Idle EXCEPT !.pc = "sweep", !.todo = T]
<1>1. q \in Proc /\ q.pc = "sweep"
  BY IdleType DEF Idle, Proc, PC
<1> HIDE DEF q
<1> QED BY <1>1, TickMoves DEF q

LEMMA AfterRulesKeeps ==
  ASSUME TicksOK, NEW k \in Ticker, AfterRules(k), dead \subseteq dead'
  PROVE  TicksOK'
<1>1. CASE Ends(k)
  BY <1>1, EndsKeeps
<1>2. CASE proc' = [proc EXCEPT ![k] = [Idle EXCEPT !.pc = "sweep",
                     !.todo = {s \in Slug : Exists(s)} \ proc[k].visited]]
  <2> DEFINE T == {s \in Slug : Exists(s)} \ proc[k].visited
  <2>1. T \in SUBSET Slug
    OBVIOUS
  <2>2. proc' = [proc EXCEPT ![k] = [Idle EXCEPT !.pc = "sweep", !.todo = T]]
    BY <1>2
  <2> HIDE DEF T
  <2> QED BY <2>1, <2>2, SweepingKeeps
<1> QED BY <1>1, <1>2 DEF AfterRules

LEMMA ProcFields ==
  ASSUME TicksOK, NEW k \in Ticker
  PROVE  /\ proc[k] \in Proc /\ proc[k].slug \in Slug /\ proc[k].token \in 0..MaxClaims
         /\ proc[k].todo \subseteq Slug /\ proc[k].project \subseteq Slug
BY DEF TicksOK, Proc

LEMMA OperatorSame ==
  ASSUME OperatorOK, registry' \subseteq Slug, files' \subseteq Slug, UNCHANGED <<op, adding>>,
         minted \in Nat, minted' \in Nat, minted <= minted',
         left' \in [adds : 0..MaxAdds, commands : 0..MaxCommands, faults : 0..MaxFaults]
  PROVE  OperatorOK'
BY DEF OperatorOK

\* No step but a pop leaves a slug as popped, and no step undoes a plan.
LEMMA PoppedKeeps ==
  ASSUME PoppedPlansExist, \A s \in Slug : Exists(s) => Exists(s)',
         \A s \in Slug : "popped" \in history'[s] => "popped" \in history[s] \/ Exists(s)'
  PROVE  PoppedPlansExist'
BY DEF PoppedPlansExist

-----------------------------------------------------------------------------
(* Steps of a tick                                                           *)

Numbers == minted \in Nat /\ MaxClaims \in Nat /\ minted <= MaxClaims

LEMMA NumbersOK == PlansOK => Numbers
BY BoundsAssumption DEF PlansOK, Numbers

\* What the steps of a tick leave alone.
LEMMA TickOnlyKeeps ==
  ASSUME IInv, TickOnly, registry' \subseteq Slug, files' \subseteq Slug, UNCHANGED minted
  PROVE  OperatorOK'
BY NumbersOK, OperatorSame DEF IInv, OperatorOK, TickOnly, Numbers

\* A step of a tick that writes neither the queue nor a plan.
LEMMA InvReads ==
  ASSUME IInv, UNCHANGED <<queueVars, planVars>>, TicksOK', OperatorOK'
  PROVE  IInv'
<1>1. QueueOK' /\ \A s \in Slug : history'[s] = history[s]
  BY QueueSame DEF IInv
<1>2. PlansOK' /\ \A u \in Slug : Exists(u) => Exists(u)'
  BY PlansSame DEF IInv
<1> QED BY <1>1, <1>2, PoppedKeeps DEF IInv

LEMMA FaultyFalls ==
  ASSUME OperatorOK, Faulty
  PROVE  left' \in [adds : 0..MaxAdds, commands : 0..MaxCommands, faults : 0..MaxFaults]
BY BoundsAssumption DEF Faulty, OperatorOK

LEMMA FaultyKeeps ==
  ASSUME IInv, Faulty, UNCHANGED <<planVars, registry, files, op, adding>>
  PROVE  OperatorOK'
BY FaultyFalls DEF IInv, OperatorOK, planVars

LEMMA InvLooks ==
  ASSUME IInv, NEW k \in Ticker,
         \/ PostLoop(k) \/ LoadPlans(k) \/ ReadHead(k) \/ MisreadsPlans(k) \/ MisreadsHead(k)
         \/ LosesHead(k) \/ SweepLooks(k) \/ SweepEnds(k)
  PROVE  IInv'
<1>1. UNCHANGED <<queueVars, planVars, registry, files>>
      /\ (TickOnly \/ (Faulty /\ UNCHANGED <<op, adding>>))
  BY DEF PostLoop, LoadPlans, ReadHead, MisreadsPlans, MisreadsHead, LosesHead, SweepLooks, SweepEnds
<1>2. OperatorOK'
  BY <1>1, TickOnlyKeeps, FaultyKeeps DEF IInv, OperatorOK, planVars
<1>3. dead' = dead /\ proc[k] \in Proc /\ TicksOK
  BY <1>1, ProcFields DEF planVars, IInv
<1>4. CASE PostLoop(k)
  <2> DEFINE q == [proc[k] EXCEPT !.pc = "load", !.visited = registry]
  <2>1. q \in Proc /\ q.pc = "load"
    BY <1>3 DEF IInv, OperatorOK, Proc, PC
  <2>2. proc' = [proc EXCEPT ![k] = q]
    BY <1>4 DEF PostLoop
  <2> HIDE DEF q
  <2> QED BY <1>1, <1>2, <1>3, <2>1, <2>2, TickMoves, InvReads
<1>5. CASE LoadPlans(k) \/ MisreadsPlans(k)
  <2>1. PICK project : project \subseteq Slug /\ Loads(k, project)
    BY <1>5 DEF LoadPlans, MisreadsPlans, IInv, OperatorOK
  <2> DEFINE busy == \E s \in project : Claimed(s)
             q == [proc[k] EXCEPT !.project = project, !.pc = IF busy THEN "archive" ELSE "head"]
  <2>2. proc' = [proc EXCEPT ![k] = q]
    BY <2>1 DEF Loads
  <2> HIDE DEF busy
  <2>3. q \in Proc /\ q.pc # "swept"
    BY <1>3, <2>1 DEF Proc, PC
  <2> HIDE DEF q
  <2> QED BY <1>1, <1>2, <1>3, <2>2, <2>3, TickMoves, InvReads
<1>6. CASE ReadHead(k) \/ MisreadsHead(k)
  <2>1. CASE Goto(k, "archive")
    BY <1>1, <1>2, <1>3, <2>1, GotoKeeps, InvReads DEF PC
  <2>2. ASSUME queue # {}, NEW pc \in {"archive", "absorb", "abandon", "pop"},
               proc' = [proc EXCEPT ![k].pc = pc, ![k].slug = HeadRow.slug]
        PROVE  IInv'
    <3> DEFINE head == HeadRow.slug
               q == [proc[k] EXCEPT !.pc = pc, !.slug = head]
    <3>1. head \in Slug
      BY <2>2, HeadIsLeast DEF IInv
    <3>2. proc' = [proc EXCEPT ![k] = q]
      BY <2>2
    <3> HIDE DEF head
    <3>3. q \in Proc /\ q.pc # "swept"
      BY <1>3, <3>1 DEF Proc, PC
    <3> HIDE DEF q
    <3> QED BY <1>1, <1>2, <1>3, <3>2, <3>3, TickMoves, InvReads
  <2>3. \A s, status : Branch(k, s, status) \in {"archive", "absorb", "abandon", "pop"}
    BY DEF Branch
  <2> QED BY <1>6, <2>1, <2>2, <2>3 DEF ReadHead, MisreadsHead, Judges
<1>7. CASE LosesHead(k)
  BY <1>1, <1>2, <1>3, <1>7, GotoKeeps, InvReads DEF LosesHead, PC
<1>8. CASE SweepLooks(k)
  <2>1. PICK s \in proc[k].todo :
          LET rest == [proc EXCEPT ![k].todo = @ \ {s}] IN
          \/ proc' = rest
          \/ /\ Zombie(s)
             /\ proc' = [rest EXCEPT ![k].pc = "swept", ![k].slug = s, ![k].token = plans[s].claim]
    BY <1>8 DEF SweepLooks
  <2>2. s \in Slug /\ plans[s].claim \in 0..MaxClaims
    BY ProcFields DEF IInv, PlansOK, Plan
  <2> DEFINE left1 == [proc[k] EXCEPT !.todo = @ \ {s}]
             c == plans[s].claim
             q == [proc[k] EXCEPT !.todo = @ \ {s}, !.pc = "swept", !.slug = s, !.token = c]
  <2>3. CASE proc' = [proc EXCEPT ![k].todo = @ \ {s}]
    <3>1. left1 \in Proc /\ left1.pc = proc[k].pc
      BY <1>3 DEF Proc
    <3>2. proc' = [proc EXCEPT ![k] = left1]
      BY <2>3
    <3>3. proc[k].pc = "sweep"
      BY <1>8 DEF SweepLooks, At
    <3> HIDE DEF left1
    <3> QED BY <1>1, <1>2, <1>3, <3>1, <3>2, <3>3, TickMoves, InvReads
  <2>4. CASE Zombie(s) /\ proc' = [proc EXCEPT ![k] = q]
    <3>1. c \in 0..MaxClaims /\ (c = 0 \/ c \in dead)
      BY <2>2, <2>4 DEF Zombie, Claimed
    <3> HIDE DEF c
    <3>2. q \in Proc /\ q.token = c
      BY <1>3, <2>2, <3>1 DEF Proc, PC
    <3> HIDE DEF q
    <3> QED BY <1>1, <1>2, <1>3, <2>4, <3>1, <3>2, TickMoves, InvReads
  <2>5. proc \in [Ticker -> Proc]
    BY DEF IInv, TicksOK
  <2>6. CASE Zombie(s) /\ proc' = [[proc EXCEPT ![k].todo = @ \ {s}] EXCEPT
                            ![k].pc = "swept", ![k].slug = s, ![k].token = plans[s].claim]
    <3>1. proc' = [proc EXCEPT ![k] = q]
      BY <2>5, <2>6
    <3> QED BY <2>4, <2>6, <3>1
  <2> QED BY <2>1, <2>3, <2>6
<1>9. CASE SweepEnds(k)
  BY <1>1, <1>2, <1>3, <1>9, EndsKeeps, InvReads DEF SweepEnds
<1> QED BY <1>4, <1>5, <1>6, <1>7, <1>8, <1>9

LEMMA InvPassesOver ==
  ASSUME IInv, NEW k \in Ticker, NEW pc, NEW outcome \in {"absorbed", "abandoned"},
         PassesOver(k, pc, outcome)
  PROVE  IInv'
<1>1. QueueOK' /\ \A u \in Slug : history'[u] \subseteq history[u] \cup {outcome}
  BY PopKeeps DEF PassesOver, IInv, Outcome
<1>2. PlansOK' /\ \A u \in Slug : Exists(u) => Exists(u)'
  BY PlansSame DEF PassesOver, IInv
<1>3. TicksOK'
  BY AfterRulesKeeps DEF PassesOver, IInv, planVars
<1>4. OperatorOK'
  BY TickOnlyKeeps DEF PassesOver, IInv, OperatorOK, planVars
<1>5. \A u \in Slug : "popped" \in history'[u] => "popped" \in history[u]
  BY <1>1
<1> QED BY <1>1, <1>2, <1>3, <1>4, <1>5, PoppedKeeps DEF IInv

\* The pop: the row and the plan in one transaction.
LEMMA InvPops ==
  ASSUME IInv, NEW k \in Ticker, Pops(k)
  PROVE  IInv'
<1>1. PICK s \in Slug : s = proc[k].slug
  BY ProcFields DEF IInv
<1>2. /\ QueueOK'
      /\ \A u \in Slug : u # s => history'[u] = history[u]
  BY <1>1, PopKeeps DEF Pops, IInv, Outcome
<1>3. /\ PlansOK' /\ Exists(s)'
      /\ \A u \in Slug : Exists(u) => Exists(u)'
  <2>1. CASE Exists(s)
    <3>1. UNCHANGED planVars
      BY <1>1, <2>1 DEF Pops, planVars
    <3> QED BY <2>1, <3>1, PlansSame DEF IInv
  <2>2. CASE ~Exists(s)
    <3>1. SetPlan(s, "running", 0) /\ minted' = minted /\ dead' = dead
      BY <1>1, <2>2 DEF Pops
    <3>2. minted' \in 0..MaxClaims /\ 0 \in 0..minted' /\ minted <= minted'
      BY <3>1, NumbersOK DEF IInv, Numbers
    <3> QED BY <3>1, <3>2, SetPlanKeeps DEF IInv, Status
  <2> QED BY <2>1, <2>2
<1>4. TicksOK'
  BY GotoKeeps DEF Pops, IInv, PC
<1>5. OperatorOK'
  BY TickOnlyKeeps DEF Pops, IInv, OperatorOK
<1>6. \A u \in Slug : "popped" \in history'[u] => "popped" \in history[u] \/ Exists(u)'
  BY <1>2, <1>3
<1> QED BY <1>2, <1>3, <1>4, <1>5, <1>6, PoppedKeeps DEF IInv

LEMMA InvRegistersPopped ==
  ASSUME IInv, NEW k \in Ticker, RegistersPopped(k)
  PROVE  IInv'
<1>1. registry' \subseteq Slug /\ files' \subseteq Slug
  BY ProcFields DEF RegistersPopped, IInv, OperatorOK
<1>2. TicksOK' /\ OperatorOK'
  BY <1>1, GotoKeeps, TickOnlyKeeps DEF RegistersPopped, IInv, PC, planVars
<1> QED BY <1>2, InvReads DEF RegistersPopped

LEMMA InvArchives ==
  ASSUME IInv, NEW k \in Ticker, Archives(k)
  PROVE  IInv'
<1>1. registry' \subseteq Slug /\ files' \subseteq Slug
  BY DEF Archives, IInv, OperatorOK
<1>2. TicksOK' /\ OperatorOK'
  BY <1>1, AfterRulesKeeps, TickOnlyKeeps DEF Archives, IInv, planVars
<1> QED BY <1>2, InvReads DEF Archives

\* A step that writes plans and not the queue.
LEMMA InvWrites ==
  ASSUME IInv, UNCHANGED queueVars, PlansOK', TicksOK', OperatorOK',
         \A u \in Slug : Exists(u) => Exists(u)'
  PROVE  IInv'
<1>1. QueueOK' /\ \A s \in Slug : history'[s] = history[s]
  BY QueueSame DEF IInv
<1> QED BY <1>1, PoppedKeeps DEF IInv

LEMMA OperatorMints ==
  ASSUME IInv, PlansOK', minted <= minted', registry' \subseteq Slug, files' \subseteq Slug,
         UNCHANGED <<op, adding, left>>
  PROVE  OperatorOK'
<1>1. minted \in Nat /\ minted' \in Nat
  BY BoundsAssumption DEF IInv, PlansOK
<1> QED BY <1>1, OperatorSame DEF IInv, OperatorOK

LEMMA InvTicksPlan ==
  ASSUME IInv, NEW s \in Slug, TicksPlan(s)
  PROVE  IInv'
<1>1. /\ PlansOK' /\ minted <= minted' /\ dead' = dead
      /\ \A u \in Slug : Exists(u) => Exists(u)'
  BY PlanStepKeeps DEF TicksPlan, IInv
<1>2. TicksOK' /\ OperatorOK'
  BY <1>1, TicksSame, OperatorMints DEF TicksPlan, IInv, OperatorOK
<1> QED BY <1>1, <1>2, InvWrites DEF TicksPlan

LEMMA InvTicksPopped ==
  ASSUME IInv, NEW k \in Ticker, TicksPopped(k)
  PROVE  IInv'
<1>1. /\ PlansOK' /\ minted <= minted' /\ dead' = dead
      /\ \A u \in Slug : Exists(u) => Exists(u)'
  <2>1. CASE PlanStep(proc[k].slug)
    BY <2>1, ProcFields, PlanStepKeeps DEF IInv
  <2>2. CASE UNCHANGED planVars
    BY <2>2, PlansSame, NumbersOK DEF IInv, planVars, Numbers
  <2> QED BY <2>1, <2>2 DEF TicksPopped
<1>2. TicksOK' /\ OperatorOK'
  BY <1>1, AfterRulesKeeps, OperatorMints DEF TicksPopped, IInv, OperatorOK, TickOnly
<1> QED BY <1>1, <1>2, InvWrites DEF TicksPopped

LEMMA InvSweepWrites ==
  ASSUME IInv, NEW k \in Ticker, SweepWrites(k)
  PROVE  IInv'
<1>1. proc[k].slug \in Slug /\ proc[k].todo \in SUBSET Slug
  BY ProcFields DEF IInv
<1>2. PlansOK' /\ \A u \in Slug : Exists(u) => Exists(u)'
  <2>1. CASE UNCHANGED plans
    BY <2>1, PlansSame DEF SweepWrites, IInv, planVars
  <2>2. CASE SetPlan(proc[k].slug, "halted", 0)
    <3>1. minted' \in 0..MaxClaims /\ 0 \in 0..minted' /\ minted <= minted' /\ dead' = dead
      BY NumbersOK DEF SweepWrites, IInv, Numbers
    <3> QED BY <1>1, <2>2, <3>1, SetPlanKeeps DEF IInv, Status
  <2> QED BY <2>1, <2>2 DEF SweepWrites
<1>3. TicksOK'
  BY <1>1, SweepingKeeps DEF SweepWrites, IInv
<1>4. OperatorOK'
  BY TickOnlyKeeps DEF SweepWrites, IInv, OperatorOK
<1> QED BY <1>2, <1>3, <1>4, InvWrites DEF SweepWrites

LEMMA InvTickFails ==
  ASSUME IInv, NEW k \in Ticker, TickFails(k)
  PROVE  IInv'
<1>1. left' \in [adds : 0..MaxAdds, commands : 0..MaxCommands, faults : 0..MaxFaults]
  BY FaultyFalls DEF TickFails, IInv
<1>2. TicksOK' /\ OperatorOK'
  BY <1>1, EndsKeeps, OperatorSame, NumbersOK DEF TickFails, IInv, OperatorOK, planVars, Numbers
<1> QED BY <1>2, InvReads DEF TickFails

LEMMA InvTick ==
  ASSUME IInv, NEW k \in Ticker, TickProceeds(k) \/ TickFails(k)
  PROVE  IInv'
BY InvLooks, InvPassesOver, InvPops, InvRegistersPopped, InvArchives, InvTicksPopped,
   InvSweepWrites, InvTickFails DEF TickProceeds, Absorbs, Abandons

-----------------------------------------------------------------------------
(* Workers and the operator                                                  *)

Left == [adds : 0..MaxAdds, commands : 0..MaxCommands, faults : 0..MaxFaults]

LEMMA LeftFalls ==
  ASSUME OperatorOK
  PROVE  /\ left.adds > 0 => [left EXCEPT !.adds = @ - 1] \in Left
         /\ left.commands > 0 => [left EXCEPT !.commands = @ - 1] \in Left
BY BoundsAssumption DEF OperatorOK, Left

\* Everybody but the ticks: they move no tick and forget no death.
LEMMA InvOthers ==
  ASSUME IInv, UNCHANGED proc, dead \subseteq dead',
         QueueOK', PlansOK', OperatorOK',
         \A s \in Slug : Exists(s) => Exists(s)',
         \A s \in Slug : "popped" \in history'[s] => "popped" \in history[s]
  PROVE  IInv'
<1>1. TicksOK'
  BY TicksSame DEF IInv
<1>2. PoppedPlansExist'
  BY PoppedKeeps DEF IInv
<1> QED BY <1>1, <1>2 DEF IInv

LEMMA HistorySame ==
  ASSUME IInv, UNCHANGED queueVars
  PROVE  QueueOK' /\ \A s \in Slug : "popped" \in history'[s] => "popped" \in history[s]
BY QueueSame DEF IInv

LEMMA InvWorkerEndsPhase ==
  ASSUME IInv, NEW s \in Slug, WorkerEndsPhase(s)
  PROVE  IInv'
<1>1. PICK st \in Status : st = plans[s].status
  BY DEF WorkerEndsPhase, Claimed, Exists, IInv, PlansOK, Plan
<1>2. minted' = minted /\ dead' = dead /\ 0 \in 0..minted' /\ minted' \in 0..MaxClaims
      /\ minted <= minted'
  BY NumbersOK DEF WorkerEndsPhase, IInv, Numbers
<1>3. PlansOK' /\ \A u \in Slug : Exists(u) => Exists(u)'
  BY <1>1, <1>2, SetPlanKeeps DEF WorkerEndsPhase, IInv
<1>4. OperatorOK'
  BY <1>2, <1>3, OperatorMints DEF WorkerEndsPhase, IInv, OperatorOK
<1> QED BY <1>2, <1>3, <1>4, HistorySame, InvOthers DEF WorkerEndsPhase

LEMMA InvWorkerDies ==
  ASSUME IInv, NEW t \in Token, WorkerDies(t)
  PROVE  IInv'
<1>1. dead' \subseteq 1..minted
  BY NumbersOK DEF WorkerDies, Token, IInv, PlansOK, Numbers
<1>2. PlansOK' /\ \A u \in Slug : Exists(u) => Exists(u)'
  BY <1>1 DEF WorkerDies, IInv, PlansOK, Exists, Claimed
<1>3. OperatorOK' /\ dead \subseteq dead'
  BY DEF WorkerDies, IInv, OperatorOK
<1> QED BY <1>2, <1>3, HistorySame, InvOthers DEF WorkerDies

\* What the steps of a worker's `clu queue add` do.
LEMMA WorkersAdd ==
  ASSUME OperatorOK, WorkerQueueAdd
  PROVE  /\ UNCHANGED <<planVars, registry, files, proc, op>>
         /\ adding' \subseteq Adding /\ left' \in Left
         /\ UNCHANGED queueVars \/ \E s \in Slug : Insert(s, FALSE)
<1>1. ASSUME NEW s \in Slug, WorkerAddLooks(s) PROVE adding' \subseteq Adding /\ left' \in Left
  <2>1. [slug |-> s, step |-> "file", running |-> FALSE] \in Adding
    BY DEF Adding
  <2> QED BY <1>1, <2>1, LeftFalls DEF WorkerAddLooks, OperatorOK
<1>2. ASSUME NEW a \in adding, WorkerAddSeesFile(a) \/ WorkerAddAsks(a) \/ WorkerAdds(a)
      PROVE  adding' \subseteq Adding /\ left' \in Left /\ a.slug \in Slug
  <2>1. a \in Adding /\ left \in Left
    BY DEF OperatorOK, Left
  <2>2. a.slug \in Slug /\ [a EXCEPT !.step = "ask"] \in Adding
        /\ \A running \in BOOLEAN : [a EXCEPT !.step = "insert", !.running = running] \in Adding
    BY <2>1 DEF Adding
  <2>3. CASE WorkerAddSeesFile(a)
    BY <2>1, <2>2, <2>3 DEF WorkerAddSeesFile, Becomes, OperatorOK
  <2>4. CASE WorkerAddAsks(a)
    <3>1. left' \in Left
      BY <2>1, <2>4, FaultyFalls DEF WorkerAddAsks, Left
    <3>2. PICK running \in BOOLEAN : Becomes(a, {[a EXCEPT !.step = "insert", !.running = running]})
      <4>1. (a.slug \in registry /\ Claimed(a.slug)) \in BOOLEAN
        OBVIOUS
      <4> QED BY <2>4, <4>1 DEF WorkerAddAsks
    <3> QED BY <2>2, <3>1, <3>2 DEF Becomes, OperatorOK
  <2>5. CASE WorkerAdds(a)
    BY <2>1, <2>2, <2>5 DEF WorkerAdds, Becomes, OperatorOK
  <2> QED BY <1>2, <2>2, <2>3, <2>4, <2>5
<1>3. \/ \E s \in Slug : WorkerAddLooks(s)
      \/ \E a \in adding : WorkerAddSeesFile(a) \/ WorkerAddAsks(a) \/ WorkerAdds(a)
  BY DEF WorkerQueueAdd
<1>4. UNCHANGED <<planVars, registry, files, proc, op>>
  BY <1>3 DEF WorkerAddLooks, WorkerAddSeesFile, WorkerAddAsks, WorkerAdds
<1>5. UNCHANGED queueVars \/ \E s \in Slug : Insert(s, FALSE)
  BY <1>2, <1>3 DEF WorkerAddLooks, WorkerAddSeesFile, WorkerAddAsks, WorkerAdds
<1> QED BY <1>1, <1>2, <1>3, <1>4, <1>5

LEMMA InvAdds ==
  ASSUME IInv, NEW s \in Slug, NEW front \in BOOLEAN, Insert(s, front),
         left' \in Left, adding' \subseteq Adding,
         UNCHANGED <<planVars, registry, files, proc, op>>
  PROVE  IInv'
<1>1. QueueOK' /\ history' = history
  BY InsertKeeps DEF IInv
<1>2. PlansOK' /\ \A u \in Slug : Exists(u) => Exists(u)'
  BY PlansSame DEF IInv
<1>3. OperatorOK'
  BY DEF IInv, OperatorOK, Left, planVars
<1> QED BY <1>1, <1>2, <1>3, InvOthers DEF planVars

LEMMA InvWorkerQueueAdd ==
  ASSUME IInv, WorkerQueueAdd
  PROVE  IInv'
<1>1. /\ UNCHANGED <<planVars, registry, files, proc, op>>
      /\ adding' \subseteq Adding /\ left' \in Left
      /\ UNCHANGED queueVars \/ \E s \in Slug : Insert(s, FALSE)
  BY WorkersAdd DEF IInv
<1>2. CASE UNCHANGED queueVars
  <2>1. TicksOK' /\ OperatorOK'
    BY <1>1, TicksSame DEF IInv, OperatorOK, Left, planVars
  <2> QED BY <1>1, <1>2, <2>1, InvReads
<1>3. ASSUME NEW s \in Slug, Insert(s, FALSE) PROVE IInv'
  BY <1>1, <1>3, InvAdds
<1> QED BY <1>1, <1>2, <1>3

LEMMA InvQueueRemove ==
  ASSUME IInv, NEW s \in Slug, QueueRemove(s)
  PROVE  IInv'
<1>1. PICK r \in queue : Leave(r, "removed")
  BY DEF QueueRemove
<1>2. QueueOK' /\ \A u \in Slug : history'[u] \subseteq history[u] \cup {"removed"}
  BY <1>1, LeaveKeeps DEF IInv, Outcome
<1>3. PlansOK' /\ \A u \in Slug : Exists(u) => Exists(u)'
  BY PlansSame DEF IInv, QueueRemove
<1>4. OperatorOK'
  BY LeftFalls DEF IInv, OperatorOK, Left, planVars, QueueRemove, Commands
<1>5. \A u \in Slug : "popped" \in history'[u] => "popped" \in history[u]
  BY <1>2
<1> QED BY <1>2, <1>3, <1>4, <1>5, InvOthers DEF planVars, QueueRemove

\* A command that leaves the queue and the plans alone.
LEMMA InvCommands ==
  ASSUME IInv, UNCHANGED <<queueVars, planVars, files, proc, adding>>, registry' \subseteq Slug,
         op' \in Op, op'.token \in 0..minted, left' \in Left
  PROVE  IInv'
<1>1. PlansOK' /\ \A u \in Slug : Exists(u) => Exists(u)'
  BY PlansSame DEF IInv
<1>2. OperatorOK'
  BY DEF IInv, OperatorOK, Left, planVars
<1> QED BY <1>1, <1>2, HistorySame, InvOthers DEF planVars

LEMMA NoOpType ==
  ASSUME PlansOK
  PROVE  /\ NoOp \in Op /\ NoOp.token \in 0..minted
         /\ \A s \in Slug : LET new == [NoOp EXCEPT !.cmd = "init", !.slug = s]
                            IN new \in Op /\ new.token \in 0..minted
<1>1. 0 \in 0..minted /\ 0 \in 0..MaxClaims
  BY NumbersOK DEF Numbers
<1>2. NoOp \in Op /\ NoOp.token = 0
  BY <1>1, BootstrapAssumption DEF NoOp, Op
<1>3. \A s \in Slug : /\ [NoOp EXCEPT !.cmd = "init", !.slug = s] \in Op
                      /\ [NoOp EXCEPT !.cmd = "init", !.slug = s].token = 0
  BY <1>1 DEF NoOp, Op
<1> QED BY <1>1, <1>2, <1>3

LEMMA OpFields ==
  ASSUME OperatorOK
  PROVE  op.slug \in Slug /\ op.token \in 0..MaxClaims
BY DEF OperatorOK, Op

LEMMA InvRegisters ==
  ASSUME IInv, (\E s \in Slug : Register(s)) \/ InitRegisters \/ UnregisterDrops
  PROVE  IInv'
<1>1. UNCHANGED <<queueVars, planVars, files, proc, adding>>
  BY DEF Register, Commands, InitRegisters, UnregisterDrops
<1>2. registry' \subseteq Slug
  BY OpFields DEF Register, InitRegisters, UnregisterDrops, IInv, OperatorOK
<1>3. op' = NoOp /\ left' \in Left
  BY LeftFalls DEF Register, Commands, InitRegisters, UnregisterDrops, IInv, OperatorOK, Left
<1> QED BY <1>1, <1>2, <1>3, NoOpType, InvCommands DEF IInv

LEMMA InvUnregisterLooks ==
  ASSUME IInv, NEW s \in Slug, UnregisterLooks(s)
  PROVE  IInv'
<1> DEFINE cmd == IF plans[s].status = "running" THEN "unregister" ELSE "drop"
           c == plans[s].claim
           new == [cmd |-> cmd, slug |-> s, token |-> c]
<1>1. op' = new /\ left' \in Left
  BY LeftFalls DEF UnregisterLooks, Commands, IInv
<1>2. cmd \in {"unregister", "drop"} /\ c \in 0..minted /\ c \in 0..MaxClaims
  BY DEF IInv, PlansOK, Plan
<1> HIDE DEF cmd, c
<1>3. new \in Op /\ new.token \in 0..minted
  BY <1>2 DEF Op
<1> HIDE DEF new
<1> QED BY <1>1, <1>3, InvCommands DEF UnregisterLooks, Commands, IInv, OperatorOK

LEMMA InvUnregisterReaps ==
  ASSUME IInv, UnregisterReaps
  PROVE  IInv'
<1>1. dead' \subseteq 1..minted /\ dead \subseteq dead'
  BY NumbersOK DEF UnregisterReaps, IInv, PlansOK, OperatorOK, Numbers
<1>2. PlansOK' /\ \A u \in Slug : Exists(u) => Exists(u)'
  BY <1>1 DEF UnregisterReaps, IInv, PlansOK, Exists, Claimed
<1>3. OperatorOK'
  BY DEF UnregisterReaps, IInv, OperatorOK, Op
<1> QED BY <1>1, <1>2, <1>3, HistorySame, InvOthers DEF UnregisterReaps

\* A command that writes one plan.
LEMMA InvWritesPlan ==
  ASSUME IInv, NEW s \in Slug, NEW st \in Status, NEW c \in 0..minted, SetPlan(s, st, c),
         UNCHANGED <<queueVars, minted, dead, registry, files, proc, adding>>,
         op' \in Op, op'.token \in 0..minted, left' \in Left
  PROVE  IInv'
<1>1. minted' \in 0..MaxClaims /\ minted <= minted' /\ c \in 0..minted'
  BY NumbersOK DEF IInv, Numbers
<1>2. PlansOK' /\ \A u \in Slug : Exists(u) => Exists(u)'
  BY <1>1, SetPlanKeeps DEF IInv
<1>3. OperatorOK'
  BY DEF IInv, OperatorOK, Left
<1> QED BY <1>2, <1>3, HistorySame, InvOthers

LEMMA InvWritingCommands ==
  ASSUME IInv, NEW s \in Slug, Retry(s) \/ InitCreates(s)
  PROVE  IInv'
<1>1. left' \in Left /\ op' \in Op /\ op'.token \in 0..minted
  BY LeftFalls, NoOpType DEF Retry, InitCreates, Commands, IInv
<1>2. plans[s].claim \in 0..minted /\ 0 \in 0..minted
  BY NumbersOK DEF IInv, PlansOK, Numbers
<1> QED BY <1>1, <1>2, InvWritesPlan DEF Retry, InitCreates, Commands, Status

LEMMA InvUnregisterHalts ==
  ASSUME IInv, UnregisterHalts
  PROVE  IInv'
<1>1. op.slug \in Slug /\ plans[op.slug].claim \in 0..minted /\ 0 \in 0..minted
  BY OpFields, NumbersOK DEF IInv, PlansOK, Numbers
<1>2. op' \in Op /\ op'.token \in 0..minted /\ left' \in Left
  BY DEF UnregisterHalts, IInv, OperatorOK, Op, Left
<1>3. CASE UNCHANGED plans
  BY <1>2, <1>3, InvCommands DEF UnregisterHalts, planVars, IInv, OperatorOK
<1>4. CASE \E c \in 0..minted : SetPlan(op.slug, "halted", c)
  BY <1>1, <1>2, <1>4, InvWritesPlan DEF UnregisterHalts, Status
<1> QED BY <1>1, <1>3, <1>4 DEF UnregisterHalts

LEMMA InvOperator ==
  ASSUME IInv, OperatorActs
  PROVE  IInv'
<1>1. ASSUME NEW s \in Slug, NEW front \in BOOLEAN, QueueAdd(s, front) PROVE IInv'
  <2>1. left' \in Left
    BY <1>1, LeftFalls DEF QueueAdd, IInv, OperatorOK
  <2>2. adding' \subseteq Adding
    BY <1>1 DEF QueueAdd, IInv, OperatorOK
  <2> QED BY <1>1, <2>1, <2>2, InvAdds DEF QueueAdd
<1> QED BY <1>1, InvQueueRemove, InvRegisters, InvWritingCommands, InvUnregisterLooks,
           InvUnregisterReaps, InvUnregisterHalts DEF OperatorActs

-----------------------------------------------------------------------------
(* The theorems                                                              *)

LEMMA InitInv == Init => IInv
<1> SUFFICES ASSUME Init PROVE IInv
  OBVIOUS
<1>1. QueueOK
  <2>1. queue = {} /\ lastId = 0 /\ history \in [Slug -> SUBSET Outcome]
    BY DEF Init
  <2>2. Ids({}) = {}
    BY IdsAre
  <2> QED BY <2>1, <2>2, FS_EmptySet DEF QueueOK
<1>2. PlansOK
  <2> DEFINE running == [status |-> "running", claim |-> 0]
  <2>1. running \in Plan /\ NoPlan \in Plan /\ running.claim = 0 /\ NoPlan.claim = 0
    BY BoundsAssumption DEF Plan, NoPlan, Status
  <2>2. \A s \in Slug : plans[s] \in {running, NoPlan} /\ plans \in [Slug -> {running, NoPlan}]
    BY DEF Init
  <2> HIDE DEF running
  <2>3. plans \in [Slug -> Plan]
    BY <2>1, <2>2, BootstrapAssumption
  <2>4. minted \in 0..MaxClaims /\ minted = 0 /\ dead = {}
    BY BoundsAssumption DEF Init
  <2> QED BY <2>1, <2>2, <2>3, <2>4 DEF PlansOK, Claimed
<1>3. TicksOK
  BY IdleType DEF Init, TicksOK, SawZombie, At
<1>4. OperatorOK
  <2>1. op \in Op /\ op.token \in 0..minted
    BY <1>2, NoOpType DEF Init
  <2>2. left \in Left
    BY BoundsAssumption DEF Init, Left
  <2> QED BY <2>1, <2>2, BootstrapAssumption DEF Init, OperatorOK, Left
<1>5. PoppedPlansExist
  BY DEF Init, PoppedPlansExist
<1> QED BY <1>1, <1>2, <1>3, <1>4, <1>5 DEF IInv

LEMMA StepInv == IInv /\ [Next]_vars => IInv'
<1> SUFFICES ASSUME IInv, [Next]_vars PROVE IInv'
  OBVIOUS
<1>1. ASSUME NEW k \in Ticker, TickProceeds(k) \/ TickFails(k) PROVE IInv'
  BY <1>1, InvTick
<1>2. ASSUME NEW s \in Slug, TicksPlan(s) \/ WorkerEndsPhase(s) PROVE IInv'
  BY <1>2, InvTicksPlan, InvWorkerEndsPhase
<1>3. ASSUME NEW t \in Token, WorkerDies(t) PROVE IInv'
  BY <1>3, InvWorkerDies
<1>4. CASE OperatorActs
  BY <1>4, InvOperator
<1>5. CASE UNCHANGED vars
  <2>1. UNCHANGED <<queueVars, planVars>> /\ UNCHANGED <<registry, files, proc, op, adding, left, dead, minted>>
    BY <1>5 DEF vars, queueVars, planVars
  <2>2. TicksOK' /\ OperatorOK'
    BY <2>1, TicksSame DEF IInv, OperatorOK
  <2> QED BY <2>1, <2>2, InvReads
<1> QED BY <1>1, <1>2, <1>3, <1>4, <1>5, InvWorkerQueueAdd DEF Next

\* The invariant all the theorems below rest on holds in every reachable state.
THEOREM Inductive == Spec => []IInv
<1> QED BY InitInv, StepInv, PTL DEF Spec

\* Every variable keeps its type, and neither a slug nor an id is in two rows,
\* whoever adds in front or at the end.
THEOREM TypeCorrect == Spec => []TypeOK
<1>1. IInv => TypeOK
  BY DEF IInv, QueueOK, PlansOK, TicksOK, OperatorOK, TypeOK
<1> QED BY <1>1, Inductive, PTL

\* However many ticks race for the head and wherever they die, a row that counts
\* as popped has left a plan behind (cross_plan_rules' pop transaction).
THEOREM PoppedHavePlans == Spec => []PoppedPlansExist
<1>1. IInv => PoppedPlansExist
  BY DEF IInv
<1> QED BY <1>1, Inductive, PTL

\* No step but a tick's own moves it.
LEMMA OthersStay ==
  ASSUME NEW k \in Ticker, NEW j \in Ticker, j # k, IInv, TickProceeds(j) \/ TickFails(j)
  PROVE  proc'[k] = proc[k]
<1>1. proc \in [Ticker -> Proc]
  BY DEF IInv, TicksOK
<1>2. CASE \/ PostLoop(j) \/ LoadPlans(j) \/ ReadHead(j) \/ MisreadsPlans(j) \/ MisreadsHead(j)
           \/ LosesHead(j) \/ SweepLooks(j) \/ SweepEnds(j)
  BY <1>1, <1>2 DEF PostLoop, LoadPlans, ReadHead, MisreadsPlans, MisreadsHead, LosesHead, SweepLooks,
                    SweepEnds, Goto, Ends, Loads, Judges
<1>3. CASE Absorbs(j) \/ Abandons(j) \/ Pops(j)
  BY <1>1, <1>3 DEF Absorbs, Abandons, PassesOver, Pops, AfterRules, Goto, Ends
<1>4. CASE RegistersPopped(j) \/ TicksPopped(j) \/ Archives(j) \/ SweepWrites(j) \/ TickFails(j)
  BY <1>1, <1>4 DEF RegistersPopped, TicksPopped, Archives, SweepWrites, TickFails, AfterRules,
                    Goto, Ends
<1> QED BY <1>2, <1>3, <1>4 DEF TickProceeds

\* What the sweep halts is a zombie when it halts it (supervisor.sweep_zombie_states):
\* between its look and its write anything may have happened to the plan.
THEOREM SweepsZombies == Spec => SweepTakesOnlyZombies
<1> DEFINE Takes(k) == LET s == proc[k].slug IN
             At(k, "swept") /\ proc'[k] # proc[k] /\ plans'[s] # plans[s] => Zombie(s)
<1>1. IInv /\ [Next]_vars => \A k \in Ticker : Takes(k)
  <2> SUFFICES ASSUME IInv, [Next]_vars, NEW k \in Ticker, At(k, "swept"), proc'[k] # proc[k],
                      plans'[proc[k].slug] # plans[proc[k].slug]
               PROVE  Zombie(proc[k].slug)
    OBVIOUS
  <2>1. proc' # proc
    OBVIOUS
  <2>2. PICK j \in Ticker : TickProceeds(j) \/ TickFails(j)
    BY <2>1 DEF Next, vars, TicksPlan, WorkerEndsPhase, WorkerQueueAdd, WorkerAddLooks, WorkerAddSeesFile,
                WorkerAddAsks, WorkerAdds, WorkerDies, OperatorActs,
                QueueAdd, QueueRemove, Register, Retry, InitCreates, InitRegisters,
                UnregisterLooks, UnregisterReaps, UnregisterHalts, UnregisterDrops
  <2>3. j = k
    BY <2>2, OthersStay
  <2>4. plans' # plans
    OBVIOUS
  <2>5. SweepWrites(k)
    BY <2>2, <2>3, <2>4 DEF TickProceeds, At, PostLoop, LoadPlans, ReadHead, MisreadsPlans,
       MisreadsHead, Absorbs, Abandons,
       PassesOver, Pops, LosesHead, RegistersPopped, TicksPopped, Archives, SweepLooks, SweepEnds,
       TickFails, planVars
  <2>6. SweepHolds(k)
    BY <2>4, <2>5 DEF SweepWrites
  <2>7. proc[k].token = 0 \/ proc[k].token \in dead
    BY DEF IInv, TicksOK, SawZombie
  <2> QED BY <2>6, <2>7 DEF SweepHolds, Zombie, Claimed
<1> QED BY <1>1, Inductive, PTL DEF Spec, SweepTakesOnlyZombies

-----------------------------------------------------------------------------
(* The rows in order                                                         *)

Typed(rows) ==
  /\ rows \subseteq [slug : Slug, id : Int]
  /\ \A r, other \in rows : r.id = other.id => r = other

\* A sequence that runs through all rows with ascending ids.
LinesUp(f, n, rows) ==
  /\ f \in [1..n -> rows]
  /\ \A i, j \in 1..n : i < j => f[i].id < f[j].id
  /\ \A r \in rows : \E i \in 1..n : f[i] = r

LEMMA RowsLineUp ==
  ASSUME NEW rows, Typed(rows), IsFiniteSet(Ids(rows))
  PROVE  /\ Cardinality(Ids(rows)) \in Nat
         /\ LinesUp(RowsInOrder(rows), Cardinality(Ids(rows)), rows)
<1> DEFINE S == Ids(rows)
           n == Cardinality(S)
           f == RowsInOrder(rows)
<1>1. S \subseteq Int /\ n \in Nat
  BY IdsAre, FS_CardinalityType DEF Typed
<1>2. Ascends(InOrder(S), n, S)
  BY <1>1, SortedRead
<1>3. \A i \in 1..n : f[i] \in rows /\ f[i].id = InOrder(S)[i]
  BY <1>2, IdsAre DEF RowsInOrder, Ascends
<1>4. f \in [1..n -> rows]
  BY <1>3 DEF RowsInOrder
<1>5. \A i, j \in 1..n : i < j => f[i].id < f[j].id
  BY <1>2, <1>3 DEF Ascends
<1>6. ASSUME NEW r \in rows PROVE \E i \in 1..n : f[i] = r
  <2>1. PICK i \in 1..n : InOrder(S)[i] = r.id
    BY <1>2, IdsAre DEF Ascends
  <2> QED BY <1>3, <2>1 DEF Typed
<1> QED BY <1>1, <1>4, <1>5, <1>6 DEF LinesUp

LEMMA LineIsUnique ==
  ASSUME NEW rows, Typed(rows), NEW n \in Nat, NEW f, LinesUp(f, n, rows)
  PROVE  Cardinality(Ids(rows)) = n /\ RowsInOrder(rows) = f
<1> DEFINE S == Ids(rows)
           g == [i \in 1..n |-> f[i].id]
<1>1. S \subseteq Int /\ \A i \in 1..n : f[i] \in rows /\ f[i].id \in S
  BY IdsAre DEF Typed, LinesUp
<1>2. Ascends(g, n, S)
  <2>1. ASSUME NEW x \in S PROVE \E i \in 1..n : g[i] = x
    <3>1. PICK r \in rows : r.id = x
      BY IdsAre
    <3> QED BY <3>1 DEF LinesUp
  <2>2. g \in [1..n -> S] /\ \A i, j \in 1..n : i < j => g[i] < g[j]
    BY <1>1 DEF LinesUp
  <2> QED BY <2>1, <2>2 DEF Ascends
<1> HIDE DEF g
<1>3. Cardinality(S) = n /\ InOrder(S) = g
  BY <1>1, <1>2, SortedReadIsUnique
<1>4. ASSUME NEW i \in 1..n PROVE (CHOOSE r \in rows : r.id = g[i]) = f[i]
  BY <1>1 DEF g, Typed
<1>5. RowsInOrder(rows) = [i \in 1..n |-> CHOOSE r \in rows : r.id = g[i]]
  BY <1>3 DEF RowsInOrder
<1>6. f = [i \in 1..n |-> f[i]]
  BY DEF LinesUp
<1> QED BY <1>3, <1>4, <1>5, <1>6

\* A row joins at the end.
LEMMA LineGrowsAtEnd ==
  ASSUME NEW rows, NEW n \in Nat, NEW f, LinesUp(f, n, rows), Typed(rows),
         NEW row \in [slug : Slug, id : Int], \A r \in rows : r.id < row.id
  PROVE  LinesUp([i \in 1..(n + 1) |-> IF i <= n THEN f[i] ELSE row], n + 1, rows \cup {row})
<1> DEFINE g == [i \in 1..(n + 1) |-> IF i <= n THEN f[i] ELSE row]
<1>1. \A i \in 1..n : g[i] = f[i] /\ f[i] \in rows
  BY DEF LinesUp
<1>2. g[n + 1] = row
  OBVIOUS
<1>3. \A i \in 1..(n + 1) : i = n + 1 \/ i \in 1..n
  OBVIOUS
<1>4. g \in [1..(n + 1) -> rows \cup {row}]
  BY <1>1, <1>2, <1>3
<1>5. ASSUME NEW i \in 1..(n + 1), NEW j \in 1..(n + 1), i < j PROVE g[i].id < g[j].id
  <2>1. i \in 1..n
    BY <1>5
  <2> HIDE DEF g
  <2>2. CASE j \in 1..n
    BY <1>1, <1>5, <2>1, <2>2 DEF LinesUp
  <2>3. CASE j = n + 1
    BY <1>1, <1>2, <2>1, <2>3
  <2> QED BY <1>3, <2>2, <2>3
<1>6. ASSUME NEW r \in rows \cup {row} PROVE \E i \in 1..(n + 1) : g[i] = r
  <2> HIDE DEF g
  <2>1. CASE r = row
    BY <1>2, <2>1
  <2>2. CASE r \in rows
    <3>1. PICK i \in 1..n : f[i] = r
      BY <2>2 DEF LinesUp
    <3> QED BY <1>1, <3>1
  <2> QED BY <2>1, <2>2
<1> QED BY <1>4, <1>5, <1>6 DEF LinesUp

\* A row joins in front.
LEMMA LineGrowsInFront ==
  ASSUME NEW rows, NEW n \in Nat, NEW f, LinesUp(f, n, rows), Typed(rows),
         NEW row \in [slug : Slug, id : Int], \A r \in rows : row.id < r.id
  PROVE  LinesUp([i \in 1..(n + 1) |-> IF i = 1 THEN row ELSE f[i - 1]], n + 1, rows \cup {row})
<1> DEFINE g == [i \in 1..(n + 1) |-> IF i = 1 THEN row ELSE f[i - 1]]
<1>1. \A i \in 1..n : i + 1 \in 1..(n + 1) /\ g[i + 1] = f[i] /\ f[i] \in rows
  BY DEF LinesUp
<1>2. 1 \in 1..(n + 1) /\ g[1] = row
  OBVIOUS
<1>3. \A i \in 1..(n + 1) : i = 1 \/ \E k \in 1..n : i = k + 1
  <2>1. \A i \in 1..(n + 1) : i # 1 => i - 1 \in 1..n /\ i = (i - 1) + 1
    OBVIOUS
  <2> QED BY <2>1
<1>4. g \in [1..(n + 1) -> rows \cup {row}]
  <2>1. \A i \in 1..(n + 1) : g[i] \in rows \cup {row}
    BY <1>1, <1>2, <1>3
  <2> QED BY <2>1
<1>5. ASSUME NEW i \in 1..(n + 1), NEW j \in 1..(n + 1), i < j PROVE g[i].id < g[j].id
  <2> HIDE DEF g
  <2>1. PICK k \in 1..n : j = k + 1
    BY <1>3, <1>5
  <2>2. CASE i = 1
    BY <1>1, <1>2, <2>1, <2>2
  <2>3. CASE \E m \in 1..n : i = m + 1
    <3>1. PICK m \in 1..n : i = m + 1
      BY <2>3
    <3>2. m < k
      BY <1>5, <2>1, <3>1
    <3> QED BY <1>1, <2>1, <3>1, <3>2 DEF LinesUp
  <2> QED BY <1>3, <2>2, <2>3
<1>6. ASSUME NEW r \in rows \cup {row} PROVE \E i \in 1..(n + 1) : g[i] = r
  <2> HIDE DEF g
  <2>1. CASE r = row
    BY <1>2, <2>1
  <2>2. CASE r \in rows
    <3>1. PICK i \in 1..n : f[i] = r
      BY <2>2 DEF LinesUp
    <3> QED BY <1>1, <3>1
  <2> QED BY <2>1, <2>2
<1> QED BY <1>4, <1>5, <1>6 DEF LinesUp

\* A row leaves, from wherever it stands.
LEMMA LineCloses ==
  ASSUME NEW rows, NEW n \in Nat, NEW f, LinesUp(f, n, rows), Typed(rows), NEW p \in 1..n
  PROVE  LinesUp([i \in 1..(n - 1) |-> IF i < p THEN f[i] ELSE f[i + 1]], n - 1, rows \ {f[p]})
<1> DEFINE At1(i) == IF i < p THEN i ELSE i + 1
           g == [i \in 1..(n - 1) |-> IF i < p THEN f[i] ELSE f[i + 1]]
<1>1. \A i \in 1..(n - 1) : At1(i) \in 1..n /\ At1(i) # p /\ g[i] = f[At1(i)]
  OBVIOUS
<1>2. \A i, j \in 1..(n - 1) : i < j => At1(i) < At1(j)
  OBVIOUS
<1>3. \A k \in 1..n : k # p => \E i \in 1..(n - 1) : At1(i) = k
  <2> SUFFICES ASSUME NEW k \in 1..n, k # p PROVE \E i \in 1..(n - 1) : At1(i) = k
    OBVIOUS
  <2>1. CASE k < p
    BY <2>1
  <2>2. CASE k > p
    <3>1. k - 1 \in 1..(n - 1) /\ At1(k - 1) = k
      BY <2>2
    <3> QED BY <3>1
  <2> QED BY <2>1, <2>2
<1>4. \A i, j \in 1..n : f[i] = f[j] => i = j
  <2>1. \A i, j \in 1..n : i < j \/ j < i \/ i = j
    OBVIOUS
  <2>2. \A i \in 1..n : f[i].id \in Int
    BY DEF LinesUp, Typed
  <2> QED BY <2>1, <2>2 DEF LinesUp
<1>5. DOMAIN g = 1..(n - 1) /\ g = [i \in 1..(n - 1) |-> g[i]]
  OBVIOUS
<1> HIDE DEF At1, g
<1>6. g \in [1..(n - 1) -> rows \ {f[p]}]
  <2>1. \A i \in 1..(n - 1) : g[i] \in rows \ {f[p]}
    BY <1>1, <1>4 DEF LinesUp
  <2> QED BY <1>5, <2>1
<1>7. \A i, j \in 1..(n - 1) : i < j => g[i].id < g[j].id
  BY <1>1, <1>2 DEF LinesUp
<1>8. ASSUME NEW r \in rows \ {f[p]} PROVE \E i \in 1..(n - 1) : g[i] = r
  <2>1. PICK k \in 1..n : f[k] = r
    BY DEF LinesUp
  <2> QED BY <1>1, <1>3, <2>1
<1>9. LinesUp(g, n - 1, rows \ {f[p]})
  BY <1>6, <1>7, <1>8 DEF LinesUp
<1> QED BY <1>9 DEF g

-----------------------------------------------------------------------------
(* The line                                                                  *)

\* What the queue's transactions do to the sequence of slugs.
LEMMA LineType ==
  ASSUME QueueOK
  PROVE  /\ Typed(queue) /\ Cardinality(Ids(queue)) \in Nat
         /\ LinesUp(RowsInOrder(queue), Cardinality(Ids(queue)), queue)
         /\ SlugsInOrder \in [1..Cardinality(Ids(queue)) -> Slug]
         /\ \A i \in 1..Cardinality(Ids(queue)) : SlugsInOrder[i] = RowsInOrder(queue)[i].slug
<1> DEFINE n == Cardinality(Ids(queue))
           f == RowsInOrder(queue)
<1>1. Typed(queue)
  BY DEF QueueOK, Typed
<1>2. n \in Nat /\ LinesUp(f, n, queue)
  BY <1>1, RowsLineUp DEF QueueOK
<1>3. f \in [1..n -> queue] /\ SlugsInOrder = [i \in DOMAIN f |-> f[i].slug]
  BY <1>2 DEF LinesUp, SlugsInOrder
<1> HIDE DEF n, f
<1>4. \A i \in 1..n : f[i].slug \in Slug
  BY <1>3 DEF QueueOK
<1>5. /\ SlugsInOrder \in [1..n -> Slug]
      /\ \A i \in 1..n : SlugsInOrder[i] = f[i].slug
  BY <1>3, <1>4
<1> QED BY <1>1, <1>2, <1>5 DEF n, f

\* The sequence after a step, from rows that line up.
LEMMA LineAfter ==
  ASSUME NEW n \in Nat, NEW f, Typed(queue)', LinesUp(f, n, queue')
  PROVE  SlugsInOrder' = [i \in 1..n |-> f[i].slug]
<1>1. RowsInOrder(queue') = f
  BY LineIsUnique DEF Typed
<1>2. DOMAIN f = 1..n
  BY DEF LinesUp
<1> QED BY <1>1, <1>2 DEF SlugsInOrder

LEMMA TypedAfter == QueueOK' => Typed(queue)'
BY DEF QueueOK, Typed

LEMMA JoinsAtEnd ==
  ASSUME QueueOK, QueueOK', NEW s \in Slug, Insert(s, FALSE)
  PROVE  SlugsInOrder' = Append(SlugsInOrder, s)
<1> DEFINE n == Cardinality(Ids(queue))
           f == RowsInOrder(queue)
           row == [slug |-> s, id |-> lastId + 1]
           g == [i \in 1..(n + 1) |-> IF i <= n THEN f[i] ELSE row]
           line == SlugsInOrder
<1>1. queue' = queue \cup {row} /\ row.slug = s
  BY DEF Insert
<1>2. row \in [slug : Slug, id : Int] /\ \A r \in queue : r.id < row.id
  BY DEF QueueOK
<1>3. /\ n \in Nat /\ Typed(queue) /\ LinesUp(f, n, queue)
      /\ line \in [1..n -> Slug] /\ \A i \in 1..n : line[i] = f[i].slug
  BY LineType
<1> HIDE DEF n, f, line, row
<1>4. LinesUp(g, n + 1, queue')
  BY <1>1, <1>2, <1>3, LineGrowsAtEnd
<1>5. SlugsInOrder' = [i \in 1..(n + 1) |-> g[i].slug]
  <2>1. n + 1 \in Nat
    BY <1>3
  <2> HIDE DEF g
  <2> QED BY <1>4, <2>1, LineAfter, TypedAfter
<1>6. \A i \in 1..(n + 1) : g[i].slug = IF i <= n THEN line[i] ELSE s
  BY <1>1, <1>3
<1>7. line \in Seq(Slug) /\ Len(line) = n
  BY <1>3
<1>8. Append(line, s) = [i \in 1..(n + 1) |-> IF i <= n THEN line[i] ELSE s]
  <2> DEFINE a == Append(line, s)
  <2>1. a \in Seq(Slug) /\ Len(a) = n + 1 /\ (\A i \in 1..n : a[i] = line[i]) /\ a[n + 1] = s
    BY <1>3, <1>7, AppendProperties
  <2> HIDE DEF a
  <2>2. a = [i \in 1..(n + 1) |-> a[i]]
    BY <2>1
  <2>3. \A i \in 1..(n + 1) : a[i] = IF i <= n THEN line[i] ELSE s
    BY <1>3, <2>1
  <2> QED BY <2>2, <2>3 DEF a
<1> HIDE DEF g
<1> QED BY <1>5, <1>6, <1>8 DEF line

LEMMA JoinsInFront ==
  ASSUME QueueOK, QueueOK', NEW s \in Slug, Insert(s, TRUE)
  PROVE  SlugsInOrder' = <<s>> \o SlugsInOrder
<1> DEFINE n == Cardinality(Ids(queue))
           f == RowsInOrder(queue)
           id == IF queue = {} THEN 1 ELSE HeadRow.id - 1
           row == [slug |-> s, id |-> id]
           g == [i \in 1..(n + 1) |-> IF i = 1 THEN row ELSE f[i - 1]]
           line == SlugsInOrder
<1>1. queue' = queue \cup {row} /\ row.slug = s /\ row.id = id
  BY DEF Insert
<1>2. id \in Int /\ \A r \in queue : id < r.id
  <2>1. CASE queue = {}
    BY <2>1
  <2>2. CASE queue # {}
    <3>1. HeadRow.id \in Int /\ \A r \in queue : r.id \in Int /\ HeadRow.id <= r.id
      BY <2>2, HeadIsLeast DEF QueueOK
    <3> HIDE DEF HeadRow
    <3> QED BY <2>2, <3>1
  <2> QED BY <2>1, <2>2
<1>3. /\ n \in Nat /\ Typed(queue) /\ LinesUp(f, n, queue)
      /\ line \in [1..n -> Slug] /\ \A i \in 1..n : line[i] = f[i].slug
  BY LineType
<1> HIDE DEF n, f, line, id
<1>4. row \in [slug : Slug, id : Int]
  BY <1>2
<1> HIDE DEF row
<1>5. LinesUp(g, n + 1, queue')
  BY <1>1, <1>2, <1>3, <1>4, LineGrowsInFront
<1>6. SlugsInOrder' = [i \in 1..(n + 1) |-> g[i].slug]
  <2>1. n + 1 \in Nat
    BY <1>3
  <2> HIDE DEF g
  <2> QED BY <1>5, <2>1, LineAfter, TypedAfter
<1>7. \A i \in 1..(n + 1) : g[i].slug = IF i = 1 THEN s ELSE line[i - 1]
  BY <1>1, <1>3
<1>8. line \in Seq(Slug) /\ Len(line) = n
  BY <1>3
<1>9. <<s>> \o line = [i \in 1..(n + 1) |-> IF i = 1 THEN s ELSE line[i - 1]]
  BY <1>3, <1>8
<1> HIDE DEF g
<1> QED BY <1>6, <1>7, <1>9 DEF line

\* A sequence without one of its elements.
LEMMA Removed ==
  ASSUME NEW n \in Nat, NEW line \in [1..n -> Slug], NEW p \in 1..n
  PROVE  Line!RemoveAt(line, p) = [i \in 1..(n - 1) |-> IF i < p THEN line[i] ELSE line[i + 1]]
<1>1. line \in Seq(Slug) /\ Len(line) = n
  OBVIOUS
<1>2. Line!RemoveAt(line, p) = SubSeq(line, 1, p - 1) \o SubSeq(line, p + 1, n)
  BY <1>1 DEF Line!RemoveAt
<1>3. SubSeq(line, 1, p - 1) = [i \in 1..(p - 1) |-> line[i]]
  BY <1>1
<1>4. SubSeq(line, p + 1, n) = [i \in 1..(n - p) |-> line[p + i]]
  BY <1>1
<1> DEFINE before == [i \in 1..(p - 1) |-> line[i]]
           after == [i \in 1..(n - p) |-> line[p + i]]
           all == before \o after
<1>5. /\ before \in Seq(Slug) /\ Len(before) = p - 1
      /\ after \in Seq(Slug) /\ Len(after) = n - p
  BY <1>1
<1>6. /\ \A i \in 1..(p - 1) : before[i] = line[i]
      /\ \A i \in 1..(n - p) : after[i] = line[p + i]
  OBVIOUS
<1> HIDE DEF before, after
<1>7. /\ all \in Seq(Slug) /\ Len(all) = n - 1
      /\ \A i \in 1..(n - 1) : all[i] = IF i < p THEN before[i] ELSE after[i - (p - 1)]
  <2>1. /\ all \in Seq(Slug) /\ Len(all) = Len(before) + Len(after)
        /\ \A i \in 1..(Len(before) + Len(after)) :
             all[i] = IF i <= Len(before) THEN before[i] ELSE after[i - Len(before)]
    BY <1>5, ConcatProperties
  <2> HIDE DEF all
  <2>2. Len(before) + Len(after) = n - 1 /\ \A i \in Int : i <= p - 1 <=> i < p
    BY <1>5
  <2> QED BY <1>5, <2>1, <2>2
<1> HIDE DEF all
<1>8. all = [i \in 1..(n - 1) |-> all[i]]
  BY <1>7
<1>9. \A i \in 1..(n - 1) : all[i] = IF i < p THEN line[i] ELSE line[i + 1]
  <2> SUFFICES ASSUME NEW i \in 1..(n - 1) PROVE all[i] = IF i < p THEN line[i] ELSE line[i + 1]
    OBVIOUS
  <2>1. CASE i < p
    BY <1>6, <1>7, <2>1
  <2>2. CASE ~ (i < p)
    <3>1. i - (p - 1) \in 1..(n - p) /\ p + (i - (p - 1)) = i + 1
      BY <2>2
    <3> QED BY <1>6, <1>7, <2>2, <3>1
  <2> QED BY <2>1, <2>2
<1> QED BY <1>2, <1>3, <1>4, <1>8, <1>9 DEF all, before, after

\* A row that leaves closes the line over its place.
LEMMA LeavesLine ==
  ASSUME QueueOK, QueueOK', NEW r \in queue, NEW outcome, Leave(r, outcome)
  PROVE  \E p \in DOMAIN SlugsInOrder :
           /\ SlugsInOrder[p] = r.slug
           /\ SlugsInOrder' = Line!RemoveAt(SlugsInOrder, p)
           /\ (\A other \in queue : r.id <= other.id) => p = 1
<1> DEFINE n == Cardinality(Ids(queue))
           f == RowsInOrder(queue)
           line == SlugsInOrder
<1>1. queue' = queue \ {r}
  BY DEF Leave
<1>2. /\ n \in Nat /\ Typed(queue) /\ LinesUp(f, n, queue)
      /\ line \in [1..n -> Slug] /\ \A i \in 1..n : line[i] = f[i].slug
  BY LineType
<1> HIDE DEF n, f, line
<1>3. PICK p \in 1..n : f[p] = r
  BY <1>2 DEF LinesUp
<1> DEFINE g == [i \in 1..(n - 1) |-> IF i < p THEN f[i] ELSE f[i + 1]]
<1>4. LinesUp(g, n - 1, queue')
  BY <1>1, <1>2, <1>3, LineCloses
<1>5. SlugsInOrder' = [i \in 1..(n - 1) |-> g[i].slug]
  <2>1. n - 1 \in Nat
    BY <1>2
  <2> HIDE DEF g
  <2> QED BY <1>4, <2>1, LineAfter, TypedAfter
<1>6. \A i \in 1..(n - 1) : g[i].slug = IF i < p THEN line[i] ELSE line[i + 1]
  BY <1>2
<1> HIDE DEF g
<1>7. SlugsInOrder' = [i \in 1..(n - 1) |-> IF i < p THEN line[i] ELSE line[i + 1]]
  BY <1>5, <1>6
<1>8. Line!RemoveAt(line, p) = [i \in 1..(n - 1) |-> IF i < p THEN line[i] ELSE line[i + 1]]
  BY <1>2, Removed
<1>9. (\A other \in queue : r.id <= other.id) => p = 1
  <2> SUFFICES ASSUME \A other \in queue : r.id <= other.id, 1 < p PROVE FALSE
    BY <1>2
  <2>1. 1 \in 1..n /\ f[1] \in queue /\ f[1].id < f[p].id
    BY <1>2 DEF LinesUp
  <2>2. f[1].id \in Int /\ r.id \in Int /\ r.id <= f[1].id
    BY <2>1 DEF QueueOK
  <2> QED BY <1>3, <2>1, <2>2
<1>10. p \in DOMAIN line /\ line[p] = r.slug
  BY <1>2, <1>3
<1> QED BY <1>7, <1>8, <1>9, <1>10 DEF line

\* The head leaves: the line loses its first.
LEMMA HeadLeavesLine ==
  ASSUME QueueOK, QueueOK', NEW s, NEW outcome, PopHead(s, outcome)
  PROVE  /\ SlugsInOrder # <<>> /\ Head(SlugsInOrder) = s
         /\ SlugsInOrder' = Tail(SlugsInOrder)
<1> DEFINE n == Cardinality(Ids(queue))
           line == SlugsInOrder
<1>1. /\ HeadRow \in queue /\ HeadRow.slug = s /\ Leave(HeadRow, outcome)
      /\ \A other \in queue : HeadRow.id <= other.id
  BY HeadIsLeast DEF PopHead, Heads
<1>2. 1 \in DOMAIN line /\ line[1] = s /\ line' = Line!RemoveAt(line, 1)
  <2> HIDE DEF HeadRow
  <2> QED BY <1>1, LeavesLine
<1>3. n \in Nat /\ line \in [1..n -> Slug]
  BY LineType
<1> HIDE DEF n
<1>4. SlugsInOrder' = [i \in 1..(n - 1) |-> line[i + 1]]
  <2> HIDE DEF line
  <2>1. 1 \in 1..n
    BY <1>2, <1>3
  <2>2. Line!RemoveAt(line, 1) = [i \in 1..(n - 1) |-> IF i < 1 THEN line[i] ELSE line[i + 1]]
    BY <1>3, <2>1, Removed
  <2>3. [i \in 1..(n - 1) |-> IF i < 1 THEN line[i] ELSE line[i + 1]]
          = [i \in 1..(n - 1) |-> line[i + 1]]
    OBVIOUS
  <2> QED BY <1>2, <2>2, <2>3 DEF line
<1> HIDE DEF line
<1>5. line \in Seq(Slug) /\ Len(line) = n /\ line # <<>>
  BY <1>2, <1>3
<1>6. Head(line) = s /\ Tail(line) = [i \in 1..(n - 1) |-> line[i + 1]]
  <2> DEFINE t == Tail(line)
  <2>1. /\ Head(line) = line[1] /\ t \in Seq(Slug) /\ Len(t) = n - 1
        /\ \A i \in 1..Len(t) : t[i] = line[i + 1]
    BY <1>5, HeadTailProperties
  <2> HIDE DEF t
  <2>2. t = [i \in 1..(n - 1) |-> t[i]]
    BY <2>1
  <2> QED BY <1>2, <2>1, <2>2 DEF t
<1> QED BY <1>4, <1>5, <1>6 DEF line

LEMMA LineStays ==
  ASSUME UNCHANGED queue
  PROVE  UNCHANGED SlugsInOrder
BY DEF SlugsInOrder, RowsInOrder, Ids

LEMMA WaitsIsQueued ==
  ASSUME QueueOK, NEW s
  PROVE  Line!Waits(s) <=> Queued(s)
<1> DEFINE n == Cardinality(Ids(queue))
           f == RowsInOrder(queue)
<1>1. /\ LinesUp(f, n, queue) /\ SlugsInOrder \in [1..n -> Slug]
      /\ \A i \in 1..n : SlugsInOrder[i] = f[i].slug
  BY LineType
<1> HIDE DEF n, f
<1> QED BY <1>1 DEF Line!Waits, Queued, LinesUp

-----------------------------------------------------------------------------
(* The queue implements the line                                             *)

Created == {s \in Slug : Exists(s)}
Missing == Slug \ files

\* A tick that is about to pass a plan over still has the reason it read: no plan
\* is undone and no file comes back.
JudgedWell(k) ==
  /\ At(k, "absorb") => Exists(proc[k].slug)
  /\ At(k, "abandon") => proc[k].slug \notin files

\* The operator unregisters plans that exist.
CommandsWell == op.cmd \in {"unregister", "halt", "drop"} => Exists(op.slug)

LineInv == IInv /\ (\A k \in Ticker : JudgedWell(k)) /\ CommandsWell

LineStep == [Line!Next]_(Line!queueLine)

\* What the actions make of the set of plans.
LEMMA SetPlanCreates ==
  ASSUME PlansOK, NEW s \in Slug, NEW st \in Status, NEW c, SetPlan(s, st, c)
  PROVE  Created' = Created \cup {s}
<1> DEFINE row == [status |-> st, claim |-> c]
<1>1. plans' = [plans EXCEPT ![s] = row] /\ row.status # "none"
  BY DEF SetPlan, Status
<1> HIDE DEF row
<1>2. /\ plans'[s] = row
      /\ \A u \in Slug : u # s => plans'[u] = plans[u]
  BY <1>1 DEF PlansOK
<1> QED BY <1>1, <1>2 DEF Created, Exists

LEMMA SetPlanMoves ==
  ASSUME PlansOK, NEW s \in Slug, Exists(s), NEW st \in Status, NEW c, SetPlan(s, st, c)
  PROVE  Created' = Created
BY SetPlanCreates DEF Created

LEMMA CreatedSame == UNCHANGED plans => UNCHANGED Created
BY DEF Created, Exists

LEMMA PlanStepMoves ==
  ASSUME PlansOK, NEW s \in Slug, PlanStep(s)
  PROVE  Created' = Created
<1>1. Exists(s)
  BY DEF PlanStep, Exists
<1>2. \E st \in Status, c \in Nat : SetPlan(s, st, c)
  BY BoundsAssumption DEF PlanStep, Status, PlansOK
<1> QED BY <1>1, <1>2, SetPlanMoves

\* A step that leaves the queue and the files alone and makes no plan.
LEMMA Unseen ==
  ASSUME UNCHANGED <<queue, files>>, Created' = Created
  PROVE  LineStep
<1>1. UNCHANGED SlugsInOrder
  BY LineStays
<1>2. UNCHANGED <<SlugsInOrder, {s \in Slug : Exists(s)}, Slug \ files>>
  BY <1>1 DEF Created
<1> QED BY <1>2 DEF LineStep, Line!queueLine

LEMMA SeenJoining ==
  ASSUME QueueOK, QueueOK', NEW s \in Slug, NEW front \in BOOLEAN, Insert(s, front),
         UNCHANGED <<plans, files>>
  PROVE  LineStep
<1>1. ~Line!Waits(s)
  BY WaitsIsQueued DEF Insert
<1>2. SlugsInOrder' \in {Append(SlugsInOrder, s), <<s>> \o SlugsInOrder}
  BY JoinsAtEnd, JoinsInFront
<1>3. UNCHANGED <<{u \in Slug : Exists(u)}, Slug \ files>>
  BY DEF Exists
<1>4. Line!Join(s)
  BY <1>1, <1>2, <1>3 DEF Line!Join
<1> QED BY <1>4 DEF LineStep, Line!Next

LEMMA SeenWithdrawing ==
  ASSUME QueueOK, QueueOK', NEW r \in queue, NEW outcome, Leave(r, outcome),
         UNCHANGED <<plans, files>>
  PROVE  LineStep
<1>1. r.slug \in Slug /\ Line!Waits(r.slug)
  BY WaitsIsQueued DEF QueueOK, Queued
<1>2. \E i \in DOMAIN SlugsInOrder : SlugsInOrder[i] = r.slug
                                      /\ SlugsInOrder' = Line!RemoveAt(SlugsInOrder, i)
  BY LeavesLine
<1>3. UNCHANGED <<{u \in Slug : Exists(u)}, Slug \ files>>
  BY DEF Exists
<1>4. Line!Withdraw(r.slug)
  BY <1>1, <1>2, <1>3 DEF Line!Withdraw
<1> QED BY <1>1, <1>4 DEF LineStep, Line!Next

LEMMA SeenPassingOver ==
  ASSUME QueueOK, QueueOK', NEW s \in Slug, NEW outcome, PopHead(s, outcome),
         UNCHANGED <<plans, files>>, Exists(s) \/ s \notin files
  PROVE  LineStep
<1>1. SlugsInOrder # <<>> /\ Head(SlugsInOrder) = s /\ SlugsInOrder' = Tail(SlugsInOrder)
  BY HeadLeavesLine
<1>2. UNCHANGED <<{u \in Slug : Exists(u)}, Slug \ files>>
  BY DEF Exists
<1>3. s \in {u \in Slug : Exists(u)} \cup (Slug \ files)
  OBVIOUS
<1>4. Line!PassOver
  BY <1>1, <1>2, <1>3 DEF Line!PassOver
<1> QED BY <1>4 DEF LineStep, Line!Next

LEMMA SeenPopping ==
  ASSUME QueueOK, QueueOK', NEW s \in Slug, NEW outcome, PopHead(s, outcome), UNCHANGED files,
         Created' = Created \cup {s}
  PROVE  LineStep
<1>1. SlugsInOrder # <<>> /\ Head(SlugsInOrder) = s /\ SlugsInOrder' = Tail(SlugsInOrder)
  BY HeadLeavesLine
<1>2. Line!Pop
  BY <1>1 DEF Line!Pop, Created
<1> QED BY <1>2 DEF LineStep, Line!Next

LEMMA SeenCreating ==
  ASSUME NEW s \in Slug, ~Exists(s), UNCHANGED <<queue, files>>, Created' = Created \cup {s}
  PROVE  LineStep
<1>1. UNCHANGED SlugsInOrder
  BY LineStays
<1>2. Line!CreateApart(s)
  BY <1>1 DEF Line!CreateApart, Created
<1> QED BY <1>2 DEF LineStep, Line!Next

LEMMA SeenArchiving ==
  ASSUME NEW s \in Slug, Exists(s), UNCHANGED <<queue, plans>>, files' = files \ {s},
         files \subseteq Slug
  PROVE  LineStep
<1>1. UNCHANGED SlugsInOrder /\ UNCHANGED Created
  BY LineStays, CreatedSame
<1>2. Slug \ files' = (Slug \ files) \cup {s}
  OBVIOUS
<1>3. Line!Archive(s)
  BY <1>1, <1>2 DEF Line!Archive, Created
<1> QED BY <1>3 DEF LineStep, Line!Next

\* What each step is, seen from outside.
LEMMA SeenTick ==
  ASSUME LineInv, IInv', NEW k \in Ticker, TickProceeds(k) \/ TickFails(k)
  PROVE  LineStep
<1>1. PlansOK /\ QueueOK /\ QueueOK' /\ proc[k].slug \in Slug
  BY ProcFields DEF LineInv, IInv
<1>2. CASE \/ PostLoop(k) \/ LoadPlans(k) \/ ReadHead(k) \/ MisreadsPlans(k) \/ MisreadsHead(k)
           \/ LosesHead(k) \/ SweepLooks(k) \/ SweepEnds(k) \/ RegistersPopped(k) \/ TickFails(k)
  <2>1. UNCHANGED <<queue, files, plans>>
    BY <1>2 DEF PostLoop, LoadPlans, ReadHead, MisreadsPlans, MisreadsHead, LosesHead, SweepLooks,
                SweepEnds, RegistersPopped, TickFails, queueVars, planVars
  <2> QED BY <2>1, CreatedSame, Unseen
<1>3. CASE Absorbs(k) \/ Abandons(k)
  <2>1. PICK outcome : PopHead(proc[k].slug, outcome)
    BY <1>3 DEF Absorbs, Abandons, PassesOver
  <2>2. UNCHANGED <<plans, files>>
    BY <1>3 DEF Absorbs, Abandons, PassesOver, planVars
  <2>3. Exists(proc[k].slug) \/ proc[k].slug \notin files
    BY <1>3 DEF Absorbs, Abandons, PassesOver, LineInv, JudgedWell
  <2> QED BY <1>1, <2>1, <2>2, <2>3, SeenPassingOver
<1>4. CASE Pops(k)
  <2>1. PICK s \in Slug : s = proc[k].slug
    BY <1>1
  <2>2. PopHead(s, "popped") /\ UNCHANGED files
    BY <1>4, <2>1 DEF Pops
  <2>3. Created' = Created \cup {s}
    <3>1. CASE Exists(s)
      BY <1>4, <2>1, <3>1, CreatedSame DEF Pops, Created
    <3>2. CASE ~Exists(s)
      BY <1>1, <1>4, <2>1, <3>2, SetPlanCreates DEF Pops, Status
    <3> QED BY <3>1, <3>2
  <2> QED BY <1>1, <2>2, <2>3, SeenPopping
<1>5. CASE TicksPopped(k)
  <2>1. Created' = Created
    BY <1>1, <1>5, PlanStepMoves, CreatedSame DEF TicksPopped, planVars
  <2> QED BY <1>5, <2>1, Unseen DEF TicksPopped, queueVars
<1>6. CASE Archives(k)
  <2>1. UNCHANGED <<queue, plans>>
    BY <1>6 DEF Archives, queueVars, planVars
  <2>2. CASE UNCHANGED files
    BY <2>1, <2>2, CreatedSame, Unseen
  <2>3. ASSUME NEW s \in proc[k].project, plans[s].status = "done", files' = files \ {s}
        PROVE  LineStep
    <3>1. s \in Slug /\ Exists(s) /\ files \subseteq Slug
      BY <2>3, ProcFields DEF LineInv, IInv, OperatorOK, Exists
    <3> QED BY <2>1, <2>3, <3>1, SeenArchiving
  <2> QED BY <1>6, <2>2, <2>3 DEF Archives
<1>7. CASE SweepWrites(k)
  <2>1. Created' = Created
    <3>1. CASE UNCHANGED plans
      BY <3>1, CreatedSame
    <3>2. CASE SweepHolds(k) /\ SetPlan(proc[k].slug, "halted", 0)
      BY <1>1, <3>2, SetPlanMoves DEF SweepHolds, Exists, Status
    <3> QED BY <1>7, <3>1, <3>2 DEF SweepWrites
  <2> QED BY <1>7, <2>1, Unseen DEF SweepWrites, queueVars
<1> QED BY <1>2, <1>3, <1>4, <1>5, <1>6, <1>7 DEF TickProceeds

LEMMA SeenOthers ==
  ASSUME LineInv, IInv', NEW s \in Slug, TicksPlan(s) \/ WorkerEndsPhase(s)
  PROVE  LineStep
<1>1. PlansOK /\ QueueOK /\ QueueOK'
  BY DEF LineInv, IInv
<1>2. CASE TicksPlan(s)
  BY <1>1, <1>2, PlanStepMoves, Unseen DEF TicksPlan, queueVars
<1>3. CASE WorkerEndsPhase(s)
  <2>1. PICK st \in Status : st = plans[s].status
    BY <1>1, <1>3 DEF WorkerEndsPhase, PlansOK, Plan, Exists
  <2>2. Exists(s)
    BY <1>1, <1>3 DEF WorkerEndsPhase, PlansOK
  <2>3. Created' = Created
    BY <1>1, <1>3, <2>1, <2>2, SetPlanMoves DEF WorkerEndsPhase
  <2> QED BY <1>3, <2>3, Unseen DEF WorkerEndsPhase, queueVars
<1> QED BY <1>2, <1>3

LEMMA SeenWorkerAdding ==
  ASSUME LineInv, IInv', WorkerQueueAdd
  PROVE  LineStep
<1>1. QueueOK /\ QueueOK' /\ OperatorOK
  BY DEF LineInv, IInv
<1>2. UNCHANGED <<plans, files>> /\ (UNCHANGED queueVars \/ \E s \in Slug : Insert(s, FALSE))
  BY <1>1, WorkersAdd DEF planVars
<1>3. CASE UNCHANGED queueVars
  BY <1>2, <1>3, CreatedSame, Unseen DEF queueVars
<1>4. ASSUME NEW s \in Slug, Insert(s, FALSE) PROVE LineStep
  BY <1>1, <1>2, <1>4, SeenJoining
<1> QED BY <1>2, <1>3, <1>4

LEMMA SeenOperator ==
  ASSUME LineInv, IInv', OperatorActs
  PROVE  LineStep
<1>1. PlansOK /\ QueueOK /\ QueueOK' /\ op.slug \in Slug
  BY OpFields DEF LineInv, IInv
<1>2. ASSUME NEW s \in Slug, NEW front \in BOOLEAN, QueueAdd(s, front) PROVE LineStep
  BY <1>1, <1>2, SeenJoining DEF QueueAdd, planVars
<1>3. ASSUME NEW s \in Slug, QueueRemove(s) PROVE LineStep
  BY <1>1, <1>3, SeenWithdrawing DEF QueueRemove, planVars
<1>4. ASSUME NEW s \in Slug, Retry(s) PROVE LineStep
  <2>1. Created' = Created
    BY <1>1, <1>4, SetPlanMoves DEF Retry, Status
  <2> QED BY <1>4, <2>1, Unseen DEF Retry, queueVars
<1>5. ASSUME NEW s \in Slug, InitCreates(s) PROVE LineStep
  <2>1. Created' = Created \cup {s}
    BY <1>1, <1>5, SetPlanCreates DEF InitCreates, Status
  <2> QED BY <1>5, <2>1, SeenCreating DEF InitCreates, queueVars
<1>6. CASE UnregisterHalts
  <2>1. Created' = Created
    <3>1. CASE UNCHANGED plans
      BY <3>1, CreatedSame
    <3>2. CASE \E c : SetPlan(op.slug, "halted", c)
      <4>1. Exists(op.slug)
        BY <1>6 DEF UnregisterHalts, LineInv, CommandsWell
      <4> QED BY <1>1, <3>2, <4>1, SetPlanMoves DEF Status
    <3> QED BY <1>6, <3>1, <3>2 DEF UnregisterHalts
  <2> QED BY <1>6, <2>1, Unseen DEF UnregisterHalts, queueVars
<1>7. CASE \/ (\E s \in Slug : Register(s) \/ UnregisterLooks(s))
           \/ InitRegisters \/ UnregisterReaps \/ UnregisterDrops
  <2>1. UNCHANGED <<queue, plans, files>>
    BY <1>7 DEF Register, UnregisterLooks, InitRegisters, UnregisterReaps, UnregisterDrops,
                queueVars, planVars
  <2> QED BY <2>1, CreatedSame, Unseen
<1> QED BY <1>2, <1>3, <1>4, <1>5, <1>6, <1>7 DEF OperatorActs

LEMMA SeenStep ==
  ASSUME LineInv, IInv', [Next]_vars
  PROVE  LineStep
<1>1. ASSUME NEW t \in Token, WorkerDies(t) PROVE LineStep
  BY <1>1, CreatedSame, Unseen DEF WorkerDies, queueVars
<1>2. CASE UNCHANGED vars
  BY <1>2, CreatedSame, Unseen DEF vars
<1> QED BY <1>1, <1>2, SeenTick, SeenOthers, SeenWorkerAdding, SeenOperator DEF Next

\* In the line a plan is never undone, and no file comes back.
LEMMA LineGrowsOnly ==
  ASSUME LineStep
  PROVE  Created \subseteq Created' /\ Missing \subseteq Missing'
BY DEF LineStep, Line!Next, Line!queueLine, Line!Join, Line!Pop, Line!PassOver, Line!Withdraw,
       Line!CreateApart, Line!Archive, Created, Missing

\* A tick that moves gets its reason from what it reads.
LEMMA JudgesWell ==
  ASSUME LineInv, IInv', LineStep, NEW k \in Ticker, TickProceeds(k) \/ TickFails(k)
  PROVE  JudgedWell(k)'
<1>1. proc \in [Ticker -> Proc] /\ proc[k] \in Proc
  BY DEF LineInv, IInv, TicksOK
<1>2. CASE ReadHead(k) \/ MisreadsHead(k)
  <2>1. CASE Goto(k, "archive")
    BY <1>1, <2>1 DEF Goto, JudgedWell, At
  <2>2. ASSUME queue # {},
               NEW pc \in {"archive", "absorb", "abandon", "pop"},
               proc' = [proc EXCEPT ![k].pc = pc, ![k].slug = HeadRow.slug],
               pc = "absorb" => plans[HeadRow.slug].status \in {"done", "running"},
               pc = "abandon" => HeadRow.slug \notin files
        PROVE  JudgedWell(k)'
    <3>1. PICK s \in Slug : s = HeadRow.slug
      BY <2>2, HeadIsLeast DEF LineInv, IInv
    <3>2. proc'[k].pc = pc /\ proc'[k].slug = s
      BY <1>1, <2>2, <3>1
    <3>3. plans' = plans /\ files' = files
      BY <1>2 DEF ReadHead, MisreadsHead, planVars
    <3> QED BY <2>2, <3>1, <3>2, <3>3 DEF JudgedWell, At, Exists
  <2>3. \A s, status : LET pc == Branch(k, s, status) IN
          /\ pc \in {"archive", "absorb", "abandon", "pop"}
          /\ pc = "absorb" => status \in {"done", "running"}
          /\ pc = "abandon" => s \notin files
    BY DEF Branch
  <2>4. CASE ReadHead(k)
    BY <2>1, <2>2, <2>3, <2>4 DEF ReadHead, Judges
  <2>5. CASE MisreadsHead(k)
    BY <2>1, <2>2, <2>3, <2>5 DEF MisreadsHead, Judges
  <2> QED BY <1>2, <2>4, <2>5
<1>3. CASE SweepLooks(k)
  <2>1. PICK s \in proc[k].todo :
          LET rest == [proc EXCEPT ![k].todo = @ \ {s}] IN
          \/ proc' = rest
          \/ proc' = [rest EXCEPT ![k].pc = "swept", ![k].slug = s, ![k].token = plans[s].claim]
    BY <1>3 DEF SweepLooks
  <2>2. proc[k].pc = "sweep"
    BY <1>3 DEF SweepLooks, At
  <2>3. proc'[k].pc \in {"sweep", "swept"}
    <3>1. CASE proc' = [proc EXCEPT ![k].todo = @ \ {s}]
      BY <1>1, <2>2, <3>1 DEF Proc
    <3>2. CASE proc' = [[proc EXCEPT ![k].todo = @ \ {s}] EXCEPT
                          ![k].pc = "swept", ![k].slug = s, ![k].token = plans[s].claim]
      BY <1>1, <3>2 DEF Proc
    <3> QED BY <2>1, <3>1, <3>2
  <2> QED BY <2>3 DEF JudgedWell, At
<1>4. CASE PostLoop(k) \/ LoadPlans(k) \/ MisreadsPlans(k) \/ LosesHead(k) \/ SweepEnds(k)
  <2>1. CASE PostLoop(k)
    BY <1>1, <2>1 DEF PostLoop, Proc, JudgedWell, At
  <2>2. CASE LoadPlans(k) \/ MisreadsPlans(k)
    <3>0. PICK project : Loads(k, project)
      BY <2>2 DEF LoadPlans, MisreadsPlans
    <3> DEFINE busy == \E s \in project : Claimed(s)
    <3>1. proc' = [proc EXCEPT ![k].project = project, ![k].pc = IF busy THEN "archive" ELSE "head"]
      BY <3>0 DEF Loads
    <3> HIDE DEF busy
    <3>2. proc'[k].pc \in {"archive", "head"}
      BY <1>1, <3>1 DEF Proc
    <3> QED BY <3>2 DEF JudgedWell, At
  <2>3. CASE LosesHead(k)
    BY <1>1, <2>3 DEF LosesHead, Goto, Proc, JudgedWell, At
  <2>4. CASE SweepEnds(k)
    BY <1>1, <2>4, IdleType DEF SweepEnds, Ends, JudgedWell, At
  <2> QED BY <1>4, <2>1, <2>2, <2>3, <2>4
<1>5. CASE Absorbs(k) \/ Abandons(k) \/ TicksPopped(k) \/ Archives(k) \/ SweepWrites(k) \/ TickFails(k)
  <2>1. proc'[k].pc \in {"sweep", "idle"}
    BY <1>1, <1>5, IdleType DEF Absorbs, Abandons, PassesOver, TicksPopped, Archives, SweepWrites,
                               TickFails, AfterRules, Ends, Idle
  <2> QED BY <2>1 DEF JudgedWell, At
<1>6. CASE Pops(k) \/ RegistersPopped(k)
  <2>1. proc'[k].pc \in {"register", "tick"}
    BY <1>1, <1>6 DEF Pops, RegistersPopped, Goto, Proc
  <2> QED BY <2>1 DEF JudgedWell, At
<1> QED BY <1>2, <1>3, <1>4, <1>5, <1>6 DEF TickProceeds

LEMMA LineInvStep ==
  ASSUME LineInv, IInv', [Next]_vars
  PROVE  LineInv'
<1>1. LineStep /\ Created \subseteq Created' /\ Missing \subseteq Missing'
  BY SeenStep, LineGrowsOnly
<1>2. ASSUME NEW k \in Ticker, proc'[k] = proc[k] PROVE JudgedWell(k)'
  <2>1. PICK s \in Slug : s = proc[k].slug
    BY ProcFields DEF LineInv, IInv
  <2>2. Exists(s) => Exists(s)'
    BY <1>1 DEF Created
  <2>3. s \notin files => s \notin files'
    BY <1>1 DEF Missing
  <2>4. JudgedWell(k)
    BY DEF LineInv
  <2> QED BY <1>2, <2>1, <2>2, <2>3, <2>4 DEF JudgedWell, At, Exists
<1>3. \A k \in Ticker : JudgedWell(k)'
  <2>1. CASE \E j \in Ticker : TickProceeds(j) \/ TickFails(j)
    <3>1. PICK j \in Ticker : TickProceeds(j) \/ TickFails(j)
      BY <2>1
    <3>2. \A k \in Ticker : k # j => proc'[k] = proc[k]
      BY <3>1, OthersStay DEF LineInv
    <3> QED BY <1>1, <1>2, <3>1, <3>2, JudgesWell
  <2>2. CASE ~ \E j \in Ticker : TickProceeds(j) \/ TickFails(j)
    <3>1. proc' = proc
      BY <2>2 DEF Next, vars, TicksPlan, WorkerEndsPhase, WorkerQueueAdd, WorkerAddLooks, WorkerAddSeesFile,
                WorkerAddAsks, WorkerAdds, WorkerDies, OperatorActs,
                  QueueAdd, QueueRemove, Register, Retry, InitCreates, InitRegisters,
                  UnregisterLooks, UnregisterReaps, UnregisterHalts, UnregisterDrops
    <3> QED BY <1>2, <3>1
  <2> QED BY <2>1, <2>2
<1>4. CommandsWell'
  <2>1. \A s \in Slug : Exists(s) => Exists(s)'
    BY <1>1 DEF Created
  <2>2. ASSUME UNCHANGED op PROVE CommandsWell'
    <3>1. PICK s \in Slug : s = op.slug
      BY OpFields DEF LineInv, IInv
    <3>2. op.cmd \in {"unregister", "halt", "drop"} => Exists(s)
      BY <3>1 DEF LineInv, CommandsWell
    <3> QED BY <2>1, <2>2, <3>1, <3>2 DEF CommandsWell, Exists
  <2>3. ASSUME NEW s \in Slug, UnregisterLooks(s) PROVE CommandsWell'
    <3>1. op'.slug = s /\ Exists(s)
      BY <2>3 DEF UnregisterLooks, Commands
    <3> QED BY <2>1, <3>1 DEF CommandsWell, Exists
  <2>4. CASE UnregisterReaps \/ UnregisterHalts
    <3>1. PICK s \in Slug : s = op.slug
      BY OpFields DEF LineInv, IInv
    <3>2. op'.slug = s /\ op.cmd \in {"unregister", "halt"}
      BY <2>4, <3>1 DEF UnregisterReaps, UnregisterHalts, LineInv, IInv, OperatorOK, Op
    <3>3. Exists(s)
      BY <3>1, <3>2 DEF LineInv, CommandsWell
    <3> QED BY <2>1, <3>2, <3>3 DEF CommandsWell, Exists
  <2>5. CASE op'.cmd \in {"none", "init"}
    BY <2>5 DEF CommandsWell
  <2>6. \/ op' = op \/ op'.cmd \in {"none", "init"} \/ UnregisterReaps \/ UnregisterHalts
        \/ \E s \in Slug : UnregisterLooks(s)
    <3>1. ASSUME NEW k \in Ticker, TickProceeds(k) \/ TickFails(k) PROVE op' = op
      BY <3>1 DEF TickProceeds, TickFails, PostLoop, LoadPlans, ReadHead, MisreadsPlans, MisreadsHead,
         Absorbs, Abandons,
         PassesOver, Pops, LosesHead, RegistersPopped, TicksPopped, Archives, SweepLooks,
         SweepWrites, SweepEnds, TickOnly
    <3>2. ASSUME NEW s \in Slug, TicksPlan(s) \/ WorkerEndsPhase(s)
          PROVE  op' = op
      BY <3>2 DEF TicksPlan, WorkerEndsPhase
    <3>3. ASSUME NEW s \in Slug, \/ \E front \in BOOLEAN : QueueAdd(s, front)
                                 \/ QueueRemove(s) \/ Register(s) \/ Retry(s)
          PROVE  op' = op \/ op'.cmd = "none"
      BY <3>3 DEF QueueAdd, QueueRemove, Register, Retry, Commands, NoOp
    <3>4. ASSUME NEW s \in Slug, InitCreates(s) PROVE op'.cmd = "init"
      BY <3>4 DEF InitCreates, Commands, NoOp
    <3>5. CASE InitRegisters \/ UnregisterDrops
      BY <3>5 DEF InitRegisters, UnregisterDrops, NoOp
    <3>6. ASSUME NEW t \in Token, WorkerDies(t) PROVE op' = op
      BY <3>6 DEF WorkerDies
    <3>7. CASE UNCHANGED vars
      BY <3>7 DEF vars
    <3>8. ASSUME WorkerQueueAdd PROVE op' = op
      BY <3>8 DEF WorkerQueueAdd, WorkerAddLooks, WorkerAddSeesFile, WorkerAddAsks, WorkerAdds
    <3> QED BY <3>1, <3>2, <3>3, <3>4, <3>5, <3>6, <3>7, <3>8 DEF Next, OperatorActs
  <2> QED BY <2>2, <2>3, <2>4, <2>5, <2>6
<1> QED BY <1>3, <1>4 DEF LineInv

LEMMA LineInvInit == Init => LineInv /\ Line!Init
<1> SUFFICES ASSUME Init PROVE LineInv /\ Line!Init
  OBVIOUS
<1>1. IInv
  BY InitInv
<1>2. (\A k \in Ticker : JudgedWell(k)) /\ CommandsWell
  BY IdleType DEF Init, JudgedWell, At, CommandsWell, NoOp
<1>3. SlugsInOrder = <<>>
  <2>1. Cardinality(Ids(queue)) = 0
    <3>1. Ids(queue) = {}
      BY IdsAre DEF Init
    <3> QED BY <3>1, FS_EmptySet
  <2>2. SlugsInOrder \in [1..0 -> Slug]
    BY <1>1, <2>1, LineType DEF IInv
  <2> QED BY <2>2
<1>4. {s \in Slug : Exists(s)} = {Bootstrap}
  BY BootstrapAssumption DEF Init, Exists, NoPlan
<1>5. Slug \ files = {}
  BY DEF Init
<1> QED BY <1>1, <1>2, <1>3, <1>4, <1>5 DEF LineInv, Line!Init

\* Rows with ids that grow at one end, and below zero at the other, read in order
\* and popped by racing ticks that die, are one line of plans (QueueLine).
THEOREM Implements == Spec => ImplementsLine
<1>1. Init => LineInv /\ Line!Init
  BY LineInvInit
<1>2. LineInv /\ IInv' /\ [Next]_vars => LineInv'
  BY LineInvStep
<1>3. LineInv /\ IInv' /\ [Next]_vars => [Line!Next]_(Line!queueLine)
  BY SeenStep DEF LineStep
<1>4. LineInv => IInv
  BY DEF LineInv
<1> QED BY <1>1, <1>2, <1>3, <1>4, StepInv, PTL DEF Spec, ImplementsLine, Line!Spec

-----------------------------------------------------------------------------
(* The claims seen from outside                                             *)

Holder == [s \in Slug |-> plans[s].claim]
Claims == INSTANCE ClaimTable WITH Plan <- Slug, holder <- Holder
ClaimStep == [Claims!Next]_(Claims!claimTable)

LEMMA RowsStay == UNCHANGED <<plans, minted>> => ClaimStep
BY DEF ClaimStep, Claims!claimTable, Holder

\* A row of plans is written: its claim stays, goes, or is made.
LEMMA RowMoves ==
  ASSUME PlansOK, NEW s \in Slug, NEW st, NEW c, SetPlan(s, st, c),
         \/ UNCHANGED minted /\ c \in {0, plans[s].claim}
         \/ plans[s].claim = 0 /\ minted' = minted + 1 /\ c = minted + 1
  PROVE  ClaimStep
<1>1. plans \in [Slug -> Plan] /\ plans' = [plans EXCEPT ![s] = [status |-> st, claim |-> c]]
  BY DEF PlansOK, SetPlan
<1>2. /\ plans'[s].claim = c
      /\ \A u \in Slug : u # s => plans'[u] = plans[u]
  BY <1>1
<1>3. Holder' = [Holder EXCEPT ![s] = c] /\ Holder[s] = plans[s].claim
  BY <1>2 DEF Holder
<1>4. CASE UNCHANGED minted /\ c = Holder[s]
  <2>1. Holder' = Holder
    BY <1>3, <1>4 DEF Holder
  <2> QED BY <1>4, <2>1 DEF ClaimStep, Claims!claimTable
<1>5. CASE UNCHANGED minted /\ c = 0 /\ Holder[s] # 0
  BY <1>3, <1>5 DEF ClaimStep, Claims!Next, Claims!GiveUp
<1>6. CASE Holder[s] = 0 /\ minted' = minted + 1 /\ c = minted + 1
  BY <1>3, <1>6 DEF ClaimStep, Claims!Next, Claims!Take
<1> QED BY <1>3, <1>4, <1>5, <1>6

LEMMA PlanStepTable ==
  ASSUME PlansOK, NEW s \in Slug, PlanStep(s)
  PROVE  ClaimStep
<1>1. CASE ~Claimed(s) /\ SetPlan(s, "running", minted + 1) /\ minted' = minted + 1
  BY <1>1, RowMoves DEF Claimed
<1>2. CASE UNCHANGED minted /\ \E st : SetPlan(s, st, 0)
  BY <1>2, RowMoves
<1> QED BY <1>1, <1>2 DEF PlanStep

LEMMA TickKeepsClaims ==
  ASSUME IInv, NEW k \in Ticker, TickProceeds(k) \/ TickFails(k)
  PROVE  ClaimStep
<1>1. PlansOK /\ proc[k].slug \in Slug
  BY ProcFields DEF IInv
<1>2. CASE \/ PostLoop(k) \/ LoadPlans(k) \/ ReadHead(k) \/ MisreadsPlans(k) \/ MisreadsHead(k)
           \/ LosesHead(k) \/ SweepLooks(k) \/ SweepEnds(k) \/ TickFails(k)
  BY <1>2, RowsStay DEF PostLoop, LoadPlans, ReadHead, MisreadsPlans, MisreadsHead, LosesHead, SweepLooks, SweepEnds,
                        TickFails, planVars
<1>3. CASE Absorbs(k) \/ Abandons(k) \/ RegistersPopped(k) \/ Archives(k)
  BY <1>3, RowsStay DEF Absorbs, Abandons, PassesOver, RegistersPopped, Archives, planVars
<1>4. CASE Pops(k)
  <2>1. UNCHANGED minted /\ (UNCHANGED plans \/ SetPlan(proc[k].slug, "running", 0))
    BY <1>4 DEF Pops
  <2> QED BY <1>1, <2>1, RowsStay, RowMoves
<1>5. CASE TicksPopped(k)
  <2>1. PlanStep(proc[k].slug) \/ UNCHANGED planVars
    BY <1>5 DEF TicksPopped
  <2> QED BY <1>1, <2>1, RowsStay, PlanStepTable DEF planVars
<1>6. CASE SweepWrites(k)
  <2>1. UNCHANGED minted /\ (UNCHANGED plans \/ SetPlan(proc[k].slug, "halted", 0))
    BY <1>6 DEF SweepWrites
  <2> QED BY <1>1, <2>1, RowsStay, RowMoves
<1> QED BY <1>2, <1>3, <1>4, <1>5, <1>6 DEF TickProceeds

LEMMA OperatorKeepsClaims ==
  ASSUME IInv, OperatorActs
  PROVE  ClaimStep
<1>1. PlansOK /\ op.slug \in Slug
  BY OpFields DEF IInv
<1>2. ASSUME NEW s \in Slug, \/ \E front \in BOOLEAN : QueueAdd(s, front)
                             \/ QueueRemove(s) \/ Register(s) \/ UnregisterLooks(s)
      PROVE  ClaimStep
  BY <1>2, RowsStay DEF QueueAdd, QueueRemove, Register, UnregisterLooks, planVars
<1>3. ASSUME NEW s \in Slug, Retry(s) \/ InitCreates(s) PROVE ClaimStep
  <2>1. UNCHANGED minted /\ \E c \in {0, plans[s].claim} : SetPlan(s, "running", c)
    BY <1>3 DEF Retry, InitCreates
  <2> QED BY <1>1, <2>1, RowMoves
<1>4. CASE InitRegisters \/ UnregisterReaps \/ UnregisterDrops
  BY <1>4, RowsStay DEF InitRegisters, UnregisterReaps, UnregisterDrops, planVars
<1>5. CASE UnregisterHalts
  <2>1. /\ UNCHANGED minted
        /\ UNCHANGED plans \/ \E c \in {0, plans[op.slug].claim} : SetPlan(op.slug, "halted", c)
    BY <1>5 DEF UnregisterHalts
  <2> QED BY <1>1, <2>1, RowsStay, RowMoves
<1> QED BY <1>2, <1>3, <1>4, <1>5 DEF OperatorActs

LEMMA StepKeepsClaims == IInv /\ [Next]_vars => ClaimStep
<1> SUFFICES ASSUME IInv, [Next]_vars PROVE ClaimStep
  OBVIOUS
<1>1. PlansOK
  BY DEF IInv
<1>2. ASSUME NEW s \in Slug, TicksPlan(s) PROVE ClaimStep
  BY <1>1, <1>2, PlanStepTable DEF TicksPlan
<1>3. ASSUME NEW s \in Slug, WorkerEndsPhase(s) PROVE ClaimStep
  BY <1>1, <1>3, RowMoves DEF WorkerEndsPhase
<1>4. CASE WorkerQueueAdd
  BY <1>4, RowsStay, WorkersAdd DEF IInv, planVars
<1>5. CASE (\E t \in Token : WorkerDies(t)) \/ UNCHANGED vars
  BY <1>5, RowsStay DEF WorkerDies, vars
<1> QED BY <1>2, <1>3, <1>4, <1>5, TickKeepsClaims, OperatorKeepsClaims DEF Next

\* Pops, sweeps and the operator's commands on many plans keep to the table of
\* claims (ClaimTable): what they write about a plan makes no claim and moves none.
THEOREM KeepsClaims == Spec => Claims!Spec
<1>1. Init => Claims!Init
  BY DEF Init, NoPlan, Holder, Claims!Init
<1>2. IInv /\ [Next]_vars => [Claims!Next]_(Claims!claimTable)
  BY StepKeepsClaims DEF ClaimStep
<1> QED BY <1>1, <1>2, Inductive, PTL DEF Spec, Claims!Spec

-----------------------------------------------------------------------------
(* What the table of claims is good for                                     *)

\* The claims of the table are typed and a token is on one of them only.
Table == Claims!TypeOK /\ Claims!OnePlanEach

LEMMA TableStep == Table /\ ClaimStep => Table'
<1> SUFFICES ASSUME Table, ClaimStep PROVE Table'
  OBVIOUS
<1>1. minted \in Nat /\ Holder \in [Slug -> 0..minted] /\ Claims!OnePlanEach
  BY DEF Table, Claims!TypeOK
<1>2. ASSUME NEW s \in Slug, Claims!Take(s) PROVE Table'
  <2>1. /\ minted' = minted + 1 /\ Holder' = [Holder EXCEPT ![s] = minted + 1]
    BY <1>2 DEF Claims!Take
  <2>2. minted' \in Nat /\ Holder' \in [Slug -> 0..minted']
    BY <1>1, <2>1
  <2>3. Claims!OnePlanEach'
    BY <1>1, <2>1 DEF Claims!OnePlanEach
  <2> QED BY <2>2, <2>3 DEF Table, Claims!TypeOK
<1>3. ASSUME NEW s \in Slug, Claims!GiveUp(s) PROVE Table'
  <2>1. minted' = minted /\ Holder' = [Holder EXCEPT ![s] = 0]
    BY <1>3 DEF Claims!GiveUp
  <2>2. Holder' \in [Slug -> 0..minted']
    BY <1>1, <2>1
  <2>3. Claims!OnePlanEach'
    BY <1>1, <2>1 DEF Claims!OnePlanEach
  <2> QED BY <1>1, <2>1, <2>2, <2>3 DEF Table, Claims!TypeOK
<1>4. CASE UNCHANGED <<Holder, minted>>
  BY <1>1, <1>4 DEF Table, Claims!TypeOK, Claims!OnePlanEach
<1> QED BY <1>2, <1>3, <1>4 DEF ClaimStep, Claims!Next, Claims!claimTable

\* A token is on the claim of one plan only, whoever pops, sweeps, registers and
\* ticks (_claim_in_txn).
THEOREM TokensAreOwn == Spec => []Claims!OnePlanEach
<1>1. Init => Table
  BY DEF Init, NoPlan, Holder, Table, Claims!TypeOK, Claims!OnePlanEach
<1>2. Table /\ ClaimStep => Table'
  BY TableStep
<1>3. IInv /\ [Next]_vars => ClaimStep
  BY StepKeepsClaims
<1>4. Table => Claims!OnePlanEach
  BY DEF Table
<1> QED BY <1>1, <1>2, <1>3, <1>4, Inductive, PTL DEF Spec

\* A process that finds its token on a plan's claim has the claim it was given: a
\* token never comes back to a claim that lost it, nor to another plan's.  Every
\* compare-and-set on a token rests on it (_CLAIM_CAS, the sweep's preconditions).
THEOREM OwnTokenMeansHeld == Spec => Claims!TokensNeverReturn
<1> DEFINE Kept == \A p \in Slug : Holder'[p] \in 1..minted => Holder[p] = Holder'[p]
<1>1. IInv /\ [Next]_vars => [Kept]_(Claims!claimTable)
  <2> SUFFICES ASSUME IInv, Claims!Next PROVE Kept
    BY StepKeepsClaims DEF ClaimStep
  <2>1. minted \in Nat /\ Holder \in [Slug -> Nat]
    BY BoundsAssumption DEF IInv, PlansOK, Holder
  <2>2. ASSUME NEW s \in Slug, Claims!Take(s) PROVE Kept
    BY <2>1, <2>2 DEF Claims!Take
  <2>3. ASSUME NEW s \in Slug, Claims!GiveUp(s) PROVE Kept
    BY <2>1, <2>3 DEF Claims!GiveUp
  <2> QED BY <2>2, <2>3 DEF Claims!Next
<1> QED BY <1>1, Inductive, PTL DEF Spec, Claims!TokensNeverReturn
=============================================================================
