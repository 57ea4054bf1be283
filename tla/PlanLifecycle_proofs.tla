------------------------ MODULE PlanLifecycle_proofs ------------------------
(***************************************************************************)
(* Theorems about PlanLifecycle, for every value of its constants: any      *)
(* number of tickers, phases, claims, questions and interventions.          *)
(*                                                                          *)
(* After the types, the safety theorems.  Only two kinds of steps matter: a *)
(* ticker applying a decision and, before that, taking one.  Every other    *)
(* step of every actor is Mild: it starts no phase, halts and finishes      *)
(* nothing, and if it changes anything a verdict rests on, it logs an       *)
(* event.  The inductive invariant IInv says that a verdict which still     *)
(* finds the log where it saw it is right; so the preconditions checked by  *)
(* apply_tick_delta make the written verdict right at the moment it is      *)
(* written.                                                                 *)
(*                                                                          *)
(* Two more results stand on IInv.  PlanLifecycle implements PlanLedger:    *)
(* every transaction is one step of the ledger or none.  And a ticker takes *)
(* no claim from a worker that is alive and within its lease, for which     *)
(* LiveInv follows tokens from the dispatch that minted them to the release *)
(* that ends them.                                                          *)
(***************************************************************************)
EXTENDS PlanLifecycle, SequenceTheorems, FiniteSetTheorems, WellFoundedInduction, TLAPS

USE DEF Phase, Token

-----------------------------------------------------------------------------
(* The store's transactions keep the types                                  *)

\* Logging events keeps the log's projections in their types.
LEMMA LogType ==
  ASSUME StoreTypeOK, NEW STATE evts, InsertEvents(evts)
  PROVE  /\ maxEvent' \in Nat
         /\ completed' \in SUBSET Phase
         /\ spent' \in [Phase -> SUBSET Token]
<1>1. maxEvent' \in Nat
  BY DEF StoreTypeOK, InsertEvents
<1>2. completed' \in SUBSET Phase
  BY DEF StoreTypeOK, InsertEvents
<1>3. spent' \in [Phase -> SUBSET Token]
  <2>1. \A p \in Phase : spent[p] \in SUBSET Token
    BY DEF StoreTypeOK
  <2>2. \A p \in Phase : TokensIn(evts, {"phase_started"}, p) \in SUBSET Token
    BY DEF TokensIn
  <2> QED BY <2>1, <2>2 DEF InsertEvents
<1> QED BY <1>1, <1>2, <1>3

\* What the fields of the claim may be, and what its updates make of it.
LEMMA ClaimType ==
  ASSUME claim \in Claim \cup {NoClaim}
  PROVE  /\ claim.token \in 0..MaxClaims /\ claim.phase \in 0..NumPhases
         /\ claim.pid \in 0..MaxClaims /\ claim.lease \in Nat
         /\ claim.expired \in BOOLEAN
         /\ Claimed => claim \in Claim /\ claim.token \in Token /\ claim.phase \in Phase
         /\ \A t \in Token, p \in Phase : NewClaim(t, p) \in Claim
<1>1. 0 \in 0..MaxClaims /\ 0 \in 0..NumPhases
  BY MaxClaimsAssumption, NumPhasesAssumption
<1>2. ASSUME claim \in Claim
      PROVE  /\ claim.token \in 0..MaxClaims /\ claim.phase \in 0..NumPhases
             /\ claim.pid \in 0..MaxClaims /\ claim.lease \in Nat
             /\ claim.expired \in BOOLEAN
  <2>1. /\ claim.token \in Token /\ claim.phase \in Phase
        /\ claim.pid \in 0..MaxClaims /\ claim.lease \in Nat
        /\ claim.expired \in BOOLEAN
    BY <1>2 DEF Claim
  <2> QED BY <2>1, MaxClaimsAssumption, NumPhasesAssumption
<1>3. ASSUME claim = NoClaim
      PROVE  /\ claim.token \in 0..MaxClaims /\ claim.phase \in 0..NumPhases
             /\ claim.pid \in 0..MaxClaims /\ claim.lease \in Nat
             /\ claim.expired \in BOOLEAN
  <2>1. /\ claim.token = 0 /\ claim.phase = 0 /\ claim.pid = 0 /\ claim.lease = 0
    BY <1>3 DEF NoClaim, NewClaim
  <2>2. claim.expired \in BOOLEAN
    BY <1>3, Zenon DEF NoClaim, NewClaim
  <2>3. /\ claim.token \in 0..MaxClaims /\ claim.phase \in 0..NumPhases
        /\ claim.pid \in 0..MaxClaims /\ claim.lease \in Nat
    BY <1>1, <2>1, SMT
  <2> QED BY <2>2, <2>3
<1>4. ASSUME NEW t \in Token, NEW p \in Phase
      PROVE  NewClaim(t, p) \in Claim
  BY <1>1 DEF NewClaim, Claim
<1>5. Claimed => claim \in Claim /\ claim.token \in Token /\ claim.phase \in Phase
  <2>1. ~Claimed \/ claim \in Claim
    BY DEF NoClaim, NewClaim, Claimed
  <2> QED BY <2>1 DEF Claim
<1> QED BY <1>2, <1>3, <1>4, <1>5

LEMMA ClaimUpdateType ==
  ASSUME claim \in Claim
  PROVE  /\ \A t \in Token : [claim EXCEPT !.pid = t] \in Claim
         /\ [claim EXCEPT !.lease = @ + 1, !.expired = FALSE] \in Claim
         /\ [claim EXCEPT !.expired = TRUE] \in Claim
<1>1. \A t \in Token : [claim EXCEPT !.pid = t] \in Claim
  BY MaxClaimsAssumption DEF Claim
<1>2. claim.lease + 1 \in Nat
  BY DEF Claim
<1>3. [claim EXCEPT !.lease = @ + 1, !.expired = FALSE] \in Claim
  BY <1>2 DEF Claim
<1>4. [claim EXCEPT !.expired = TRUE] \in Claim
  BY DEF Claim
<1> QED BY <1>1, <1>3, <1>4

LEMMA StatusChangeType ==
  ASSUME StoreTypeOK, NEW s \in Status, NEW STATE evts, NEW STATE released,
         OpSetStatus(s, evts, released)
  PROVE  StoreTypeOK'
BY LogType, ClaimType DEF StoreTypeOK, OpSetStatus

LEMMA LoggingType ==
  ASSUME StoreTypeOK, NEW STATE evts, OpAppendEvents(evts) \/ OpReleaseAnyClaim(evts)
  PROVE  StoreTypeOK'
BY LogType, ClaimType DEF StoreTypeOK, OpAppendEvents, OpReleaseAnyClaim

LEMMA ReleaseType ==
  ASSUME StoreTypeOK, NEW STATE t, NEW STATE p, NEW STATE evts, OpReleaseClaim(t, p, evts)
  PROVE  StoreTypeOK'
BY LogType, ClaimType DEF StoreTypeOK, OpReleaseClaim

LEMMA StampType ==
  ASSUME StoreTypeOK, NEW t \in Token, OpStampPid(t)
  PROVE  StoreTypeOK'
BY ClaimType, ClaimUpdateType DEF StoreTypeOK, OpStampPid

LEMMA ExtendType ==
  ASSUME StoreTypeOK, NEW STATE p, OpExtendLease(p)
  PROVE  StoreTypeOK'
BY LogType, ClaimType, ClaimUpdateType DEF StoreTypeOK, OpExtendLease

LEMMA QuestionType ==
  ASSUME StoreTypeOK, NEW p \in Phase
  PROVE  /\ Append(blockers, [phase |-> p, state |-> "open"]) \in Seq(Blocker)
         /\ Append(tasks, [phase |-> p, state |-> "pending"]) \in Seq(Task)
BY DEF StoreTypeOK, Blocker, BlockerState, Task

LEMMA TaskType ==
  ASSUME StoreTypeOK, NEW i, OpCompleteTask(i)
  PROVE  StoreTypeOK'
<1>1. tasks \in [1..Len(tasks) -> Task] /\ Len(tasks) \in Nat
  BY LenProperties DEF StoreTypeOK
<1>2. \A t \in Task : [t EXCEPT !.state = "done"] \in Task
  BY DEF Task
<1>3. tasks' \in [1..Len(tasks) -> Task]
  BY <1>1, <1>2 DEF OpCompleteTask
<1>4. tasks' \in Seq(Task)
  BY <1>1, <1>3, SeqDef
<1> QED BY <1>4, LogType DEF StoreTypeOK, OpCompleteTask

LEMMA AnswerType ==
  ASSUME StoreTypeOK, NEW b, OpAnswerBlocker(b)
  PROVE  StoreTypeOK'
<1>1. blockers \in [1..Len(blockers) -> Blocker] /\ Len(blockers) \in Nat
  BY LenProperties DEF StoreTypeOK
<1>2. \A q \in Blocker : [q EXCEPT !.state = "answered"] \in Blocker
  BY DEF Blocker, BlockerState
<1>3. blockers' \in [1..Len(blockers) -> Blocker]
  BY <1>1, <1>2 DEF OpAnswerBlocker
<1>4. blockers' \in Seq(Blocker)
  BY <1>1, <1>3, SeqDef
<1> QED BY <1>4, LogType DEF StoreTypeOK, OpAnswerBlocker

-----------------------------------------------------------------------------
(* A tick's decision and its effect keep the types                          *)

\* What a snapshot saw is fit to be a precondition, each field by itself.
LEMMA SeenType ==
  ASSUME StoreTypeOK
  PROVE  /\ NoPre \in Preconditions
         /\ SeenClaim \in SUBSET ((0..MaxClaims) \X (0..NumPhases))
         /\ SeenLease \in SUBSET Nat
         /\ SeenLog \in SUBSET Nat
         /\ SeenStatus \in SUBSET Status
         /\ \A B \in SUBSET DOMAIN blockers :
              SeenBlockers(B) \in SUBSET (Nat \X BlockerState)
<1>1. NoPre \in Preconditions
  BY DEF NoPre, Preconditions
<1>2. /\ SeenClaim \in SUBSET ((0..MaxClaims) \X (0..NumPhases))
      /\ SeenLease \in SUBSET Nat
  BY ClaimType DEF StoreTypeOK, SeenClaim, SeenLease
<1>3. SeenLog \in SUBSET Nat /\ SeenStatus \in SUBSET Status
  BY DEF StoreTypeOK, SeenLog, SeenStatus
<1>4. \A b \in DOMAIN blockers : b \in Nat /\ blockers[b].state \in BlockerState
  <2>1. blockers \in [1..Len(blockers) -> Blocker] /\ Len(blockers) \in Nat
    BY LenProperties DEF StoreTypeOK
  <2> QED BY <2>1 DEF Blocker
<1>5. ASSUME NEW B \in SUBSET DOMAIN blockers
      PROVE  SeenBlockers(B) \in SUBSET (Nat \X BlockerState)
  BY <1>4 DEF SeenBlockers
<1> QED BY <1>1, <1>2, <1>3, <1>5

\* The events of a decision are events.
LEMMA EventsType ==
  ASSUME TypeOK
  PROVE  /\ Note \in Event
         /\ \A t \in 0..MaxClaims, p \in 0..NumPhases, forgiven \in BOOLEAN :
              QuotaDeath(forgiven, t, p) \in SUBSET Event
         /\ \A forgiven \in BOOLEAN : ReleaseDelta(forgiven) \in Delta
         /\ NoDelta \in Delta
<1>1. 0 \in 0..MaxClaims /\ 0 \in 0..NumPhases
  BY MaxClaimsAssumption, NumPhasesAssumption
<1>2. Note \in Event
  BY <1>1 DEF Note, Ev, Event, EventType
<1>3. \A t \in 0..MaxClaims, p \in 0..NumPhases, forgiven \in BOOLEAN :
        QuotaDeath(forgiven, t, p) \in SUBSET Event
  <2>1. \A t \in 0..MaxClaims, p \in 0..NumPhases : Ev("quota_death", p, t) \in Event
    BY DEF Ev, Event, EventType
  <2> QED BY <2>1 DEF QuotaDeath
<1>4. NoDelta \in Delta
  BY <1>1 DEF NoDelta, Delta
<1>5. ASSUME NEW forgiven \in BOOLEAN
      PROVE  ReleaseDelta(forgiven) \in Delta
  <2>1. {Note} \cup QuotaDeath(forgiven, claim.token, claim.phase) \in SUBSET Event
    BY <1>2, <1>3, ClaimType DEF TypeOK, StoreTypeOK
  <2> QED BY <1>4, <2>1 DEF ReleaseDelta, Delta
<1> QED BY <1>2, <1>3, <1>4, <1>5

\* Every non-empty set of naturals has a least element.
LEMMA LeastElement ==
  ASSUME NEW STATE T, T \subseteq Nat, T # {}
  PROVE  \E p \in T : \A q \in T : p <= q
<1>1. \E p \in T : \A q \in T : ~ (<<q, p>> \in OpToRel(<, Nat))
  BY NatLessThanWellFounded, WFMin
<1>2. \A p, q \in Nat : ~ (<<q, p>> \in OpToRel(<, Nat)) => p <= q
  BY DEF OpToRel
<1> QED BY <1>1, <1>2

\* So the first phase left is well defined.
LEMMA NextPhaseIsFirst ==
  ASSUME PhasesLeft # {}
  PROVE  /\ NextPhase \in PhasesLeft /\ NextPhase \in Phase
         /\ \A q \in PhasesLeft : NextPhase <= q
<1>1. PhasesLeft \subseteq Phase
  BY DEF PhasesLeft
<1>2. \E p \in PhasesLeft : \A q \in PhasesLeft : p <= q
  <2>1. PhasesLeft \subseteq Nat
    BY <1>1, NumPhasesAssumption
  <2> QED BY <2>1, LeastElement
<1> QED BY <1>1, <1>2 DEF NextPhase

\* A decision leaves everything but the ticker alone.
LEMMA DecideType ==
  ASSUME TypeOK, NEW k \in Ticker, NEW STATE pre, pre \in Preconditions,
         NEW STATE delta, delta \in Delta, NEW STATE pid, pid \in 0..MaxClaims,
         Decide(k, pre, delta, pid)
  PROVE  StoreTypeOK' /\ tick' \in [Ticker -> Tick] /\ worker' \in [Token -> ProcessState]
<1>1. StoreTypeOK' /\ worker' \in [Token -> ProcessState]
  BY DEF TypeOK, StoreTypeOK, SupervisorTypeOK, Decide, storeVars
<1>2. [pc |-> "decided", phase |-> delta.start, token |-> pid,
       pre |-> pre, delta |-> delta] \in Tick
  BY DEF Tick, Delta
<1>3. tick' \in [Ticker -> Tick]
  BY <1>2 DEF TypeOK, SupervisorTypeOK, Decide
<1> QED BY <1>1, <1>3

\* A ticker that moves on carries its phase and a token of the right type.
LEMMA GotoType ==
  ASSUME TypeOK, NEW k \in Ticker, NEW pc \in {"idle", "reap", "dispatch", "fastfail"},
         NEW STATE t, t \in 0..MaxClaims, Goto(k, pc, t)
  PROVE  tick' \in [Ticker -> Tick]
<1>1. IdleTick \in Tick
  <2>1. 0 \in 0..MaxClaims /\ 0 \in 0..NumPhases
    BY MaxClaimsAssumption, NumPhasesAssumption
  <2> QED BY <2>1, SeenType, EventsType DEF TypeOK, IdleTick, Tick
<1>2. tick[k].phase \in 0..NumPhases
  BY DEF TypeOK, SupervisorTypeOK, Tick
<1>3. [IdleTick EXCEPT !.pc = pc, !.phase = tick[k].phase, !.token = t] \in Tick
  BY <1>1, <1>2 DEF Tick
<1> QED BY <1>1, <1>3 DEF TypeOK, SupervisorTypeOK, Goto

\* Money spent was there.
LEMMA SpendType ==
  ASSUME budget \in 0..MaxInterventions, NEW n \in 0..1, Spend(n)
  PROVE  budget' \in 0..MaxInterventions
BY MaxInterventionsAssumption DEF Spend

LEMMA KillType ==
  ASSUME worker \in [Token -> ProcessState], NEW STATE t, t \in 0..MaxClaims
  PROVE  Kill(t) \in [Token -> ProcessState]
BY DEF Kill, ProcessState

\* Writing a whole decision keeps the store's types.
LEMMA ApplyType ==
  ASSUME TypeOK, NEW k \in Ticker, ApplyTickDelta(tick[k].delta)
  PROVE  StoreTypeOK'
<1> DEFINE d == tick[k].delta
<1>1. d \in Delta
  BY DEF TypeOK, SupervisorTypeOK, Tick
<1>2. status' \in Status /\ tasks' \in Seq(Task)
  BY <1>1 DEF ApplyTickDelta, Delta, TypeOK, StoreTypeOK
<1>3. blockers' \in Seq(Blocker)
  <2>1. blockers \in [1..Len(blockers) -> Blocker] /\ Len(blockers) \in Nat
    BY LenProperties DEF TypeOK, StoreTypeOK
  <2>2. \A b \in Blocker : [b EXCEPT !.state = "consumed"] \in Blocker
    BY DEF Blocker, BlockerState
  <2>3. blockers' \in [1..Len(blockers) -> Blocker]
    BY <2>1, <2>2 DEF ApplyTickDelta
  <2> QED BY <2>1, <2>3, SeqDef
<1>4. \E evts : InsertEvents(evts)
  BY DEF ApplyTickDelta
<1>5. /\ maxEvent' \in Nat
      /\ completed' \in SUBSET Phase
      /\ spent' \in [Phase -> SUBSET Token]
  BY <1>4, LogType DEF TypeOK
<1>6. claim' \in Claim \cup {NoClaim} /\ minted' \in 0..MaxClaims
  <2>1. CASE d.start # 0
    <3>1. /\ minted < MaxClaims /\ minted' = minted + 1
          /\ claim' = NewClaim(minted + 1, d.start)
      BY <2>1 DEF ApplyTickDelta
    <3>2. minted + 1 \in Token /\ minted + 1 \in 0..MaxClaims
      BY <3>1, MaxClaimsAssumption DEF TypeOK, StoreTypeOK
    <3>3. d.start \in Phase
      <4>1. d.start \in 0..NumPhases
        BY <1>1 DEF Delta
      <4> QED BY <4>1, <2>1, NumPhasesAssumption
    <3> QED BY <3>1, <3>2, <3>3, ClaimType DEF TypeOK, StoreTypeOK
  <2>2. CASE d.start = 0
    <3>1. minted' = minted /\ claim' \in {claim, NoClaim}
      BY <2>2 DEF ApplyTickDelta
    <3> QED BY <3>1 DEF TypeOK, StoreTypeOK
  <2> QED BY <2>1, <2>2
<1> QED BY <1>2, <1>3, <1>5, <1>6 DEF StoreTypeOK

-----------------------------------------------------------------------------
(* Type correctness                                                         *)

\* Every action of a ticker keeps the types.
LEMMA TickerType ==
  ASSUME TypeOK, NEW k \in Ticker, TickerActs(k) \/ TickerCrashes(k)
  PROVE  TypeOK'
<1>0. op' \in Op
  BY DEF TickerActs, TickerCrashes, TypeOK
<1>1. /\ claim.token \in 0..MaxClaims /\ claim.phase \in 0..NumPhases
      /\ claim.pid \in 0..MaxClaims /\ 0 \in 0..MaxClaims
  BY ClaimType, MaxClaimsAssumption DEF TypeOK, StoreTypeOK
<1>2. tick[k] \in Tick
  BY DEF TypeOK, SupervisorTypeOK
<1>3. ASSUME UNCHANGED storeVars PROVE StoreTypeOK'
  BY <1>3 DEF TypeOK, StoreTypeOK, storeVars
<1>4. ASSUME NEW pc \in {"idle", "reap", "dispatch", "fastfail"},
             NEW STATE t, t \in 0..MaxClaims, Goto(k, pc, t)
      PROVE  tick' \in [Ticker -> Tick]
  BY <1>4, GotoType
<1>5. ASSUME UNCHANGED budget PROVE budget' \in 0..MaxInterventions
  BY <1>5 DEF TypeOK, SupervisorTypeOK
<1>6. ASSUME UNCHANGED worker PROVE worker' \in [Token -> ProcessState]
  BY <1>6 DEF TypeOK, SupervisorTypeOK
<1>7. ASSUME NEW forgiven \in BOOLEAN, ClaimDeath(forgiven)
      PROVE  budget' \in 0..MaxInterventions
  BY <1>7, SpendType DEF ClaimDeath, TypeOK, SupervisorTypeOK
<1>8. CASE TickDecides(k) /\ UNCHANGED op
  <2>1. CASE TickLeaseExpired(k)
    <3>1. PICK forgiven \in BOOLEAN :
            /\ ClaimDeath(forgiven)
            /\ Decide(k, [NoPre EXCEPT !.claim = SeenClaim, !.lease = SeenLease],
                      ReleaseDelta(forgiven), claim.pid)
      BY <2>1 DEF TickLeaseExpired
    <3>2. [NoPre EXCEPT !.claim = SeenClaim, !.lease = SeenLease] \in Preconditions
      BY SeenType DEF TypeOK, Preconditions
    <3> QED BY <1>0, <1>1, <1>7, <3>1, <3>2, EventsType, DecideType
            DEF TypeOK, SupervisorTypeOK
  <2>2. CASE TickWorkerDead(k)
    <3>1. PICK forgiven \in BOOLEAN :
            /\ ClaimDeath(forgiven)
            /\ Decide(k, [NoPre EXCEPT !.claim = SeenClaim], ReleaseDelta(forgiven), 0)
      BY <2>2 DEF TickWorkerDead
    <3>2. [NoPre EXCEPT !.claim = SeenClaim] \in Preconditions
      BY SeenType DEF TypeOK, Preconditions
    <3> QED BY <1>0, <1>1, <1>7, <3>1, <3>2, EventsType, DecideType
            DEF TypeOK, SupervisorTypeOK
  <2>3. CASE TickEscalate(k)
    <3>1. PICK b \in OpenBlockers :
            Decide(k, [NoPre EXCEPT !.blockers = SeenBlockers({b}), !.status = SeenStatus],
                   [NoDelta EXCEPT !.status = "paused", !.events = {Note}], 0)
      BY <2>3 DEF TickEscalate
    <3>2. SeenBlockers({b}) \in SUBSET (Nat \X BlockerState)
      BY SeenType DEF TypeOK, OpenBlockers
    <3>3. [NoPre EXCEPT !.blockers = SeenBlockers({b}), !.status = SeenStatus]
            \in Preconditions
      BY <3>2, SeenType DEF TypeOK, Preconditions
    <3>4. [NoDelta EXCEPT !.status = "paused", !.events = {Note}] \in Delta
      BY EventsType DEF Delta, Status
    <3> QED BY <1>0, <1>1, <1>5, <2>3, <3>1, <3>3, <3>4, DecideType
            DEF TypeOK, SupervisorTypeOK, TickEscalate
  <2>4. CASE TickConsume(k)
    <3>1. AnsweredBlockers \in SUBSET DOMAIN blockers /\ DOMAIN blockers \subseteq Nat
      BY LenProperties DEF AnsweredBlockers, TypeOK, StoreTypeOK
    <3>2. SeenBlockers(AnsweredBlockers) \in SUBSET (Nat \X BlockerState)
      BY <3>1, SeenType DEF TypeOK
    <3>3. [NoPre EXCEPT !.blockers = SeenBlockers(AnsweredBlockers), !.status = SeenStatus]
            \in Preconditions
      BY <3>2, SeenType DEF TypeOK, Preconditions
    <3>4. [NoDelta EXCEPT !.consume = AnsweredBlockers, !.status = "running",
                          !.events = {Note}] \in Delta
      BY <3>1, EventsType DEF Delta, Status
    <3> QED BY <1>0, <1>1, <1>5, <2>4, <3>3, <3>4, DecideType
            DEF TypeOK, SupervisorTypeOK, TickConsume
  <2>5. Whole \in Preconditions
    BY SeenType DEF Whole, TypeOK, Preconditions
  <2>6. CASE TickHalt(k)
    <3>1. [NoDelta EXCEPT !.status = "halted", !.events = {Note}] \in Delta
      BY EventsType DEF Delta, Status
    <3> QED BY <1>0, <1>1, <1>5, <2>5, <2>6, <3>1, DecideType
            DEF TypeOK, SupervisorTypeOK, TickHalt
  <2>7. CASE TickDispatch(k)
    <3>1. NextPhase \in 0..NumPhases
      BY <2>7, NextPhaseIsFirst, NumPhasesAssumption DEF TickDispatch
    <3>2. [NoDelta EXCEPT !.start = NextPhase] \in Delta
      BY <3>1, EventsType DEF Delta
    <3> QED BY <1>0, <1>1, <1>5, <2>5, <2>7, <3>2, DecideType
            DEF TypeOK, SupervisorTypeOK, TickDispatch
  <2>8. CASE TickDone(k)
    <3>1. [NoDelta EXCEPT !.status = "done", !.events = {Note}] \in Delta
      BY EventsType DEF Delta, Status
    <3> QED BY <1>0, <1>1, <1>5, <2>5, <2>8, <3>1, DecideType
            DEF TypeOK, SupervisorTypeOK, TickDone
  <2> QED BY <1>8, <2>1, <2>2, <2>3, <2>4, <2>6, <2>7, <2>8 DEF TickDecides
<1>9. CASE TickApplies(k)
  <2>1. StoreTypeOK'
    BY <1>9, ApplyType DEF TickApplies
  <2>2. tick' \in [Ticker -> Tick]
    <3>1. CASE tick[k].delta.start # 0
      <4>0. minted < MaxClaims
        BY <1>9, <3>1 DEF TickApplies, ApplyTickDelta
      <4>1. minted + 1 \in 0..MaxClaims
        BY <4>0, MaxClaimsAssumption DEF TypeOK, StoreTypeOK
      <4>2. Goto(k, "dispatch", minted + 1)
        BY <1>9, <3>1 DEF TickApplies, AfterApply
      <4> QED BY <4>1, <4>2, GotoType
    <3>2. CASE tick[k].delta.start = 0
      BY <1>1, <1>2, <1>4, <1>9, <3>2 DEF TickApplies, AfterApply, Tick
    <3> QED BY <3>1, <3>2
  <2> QED BY <1>0, <1>5, <1>6, <1>9, <2>1, <2>2
          DEF TickApplies, TypeOK, SupervisorTypeOK
<1>10. CASE TickConflicts(k) \/ TickCrashes(k)
  <2>1. StoreTypeOK' /\ worker' \in [Token -> ProcessState]
    BY <1>3, <1>6, <1>10 DEF TickConflicts, TickCrashes
  <2>2. tick' \in [Ticker -> Tick]
    BY <1>1, <1>4, <1>10 DEF TickConflicts, TickCrashes
  <2>3. budget' \in 0..MaxInterventions
    BY <1>5, <1>10, SpendType DEF TickConflicts, TickCrashes, TypeOK, SupervisorTypeOK
  <2> QED BY <1>0, <2>1, <2>2, <2>3 DEF TypeOK, SupervisorTypeOK
<1>11. CASE TickReaps(k)
  <2>1. StoreTypeOK'
    BY <1>11, LoggingType DEF TickReaps, TypeOK
  <2>2. worker' \in [Token -> ProcessState]
    BY <1>2, <1>11, KillType DEF TickReaps, TypeOK, SupervisorTypeOK, Tick
  <2> QED BY <1>0, <1>1, <1>4, <1>5, <1>11, <2>1, <2>2
          DEF TickReaps, TypeOK, SupervisorTypeOK
<1>12. ASSUME NEW STATE evts, ReleaseRecording(k, evts) \/ PauseRecording(k, evts)
       PROVE  StoreTypeOK'
  <2>1. "paused" \in Status
    BY DEF Status
  <2> QED BY <1>12, <2>1, ReleaseType, LoggingType, StatusChangeType
          DEF ReleaseRecording, PauseRecording, TypeOK
<1>13. CASE DispatchFails(k) \/ DispatchNoWorktree(k)
  BY <1>0, <1>1, <1>4, <1>5, <1>6, <1>12, <1>13
     DEF DispatchFails, DispatchNoWorktree, TypeOK, SupervisorTypeOK
<1>14. CASE DispatchSpawns(k)
  <2>1. worker' \in [Token -> ProcessState]
    BY <1>14 DEF DispatchSpawns, ProcessState, TypeOK, SupervisorTypeOK
  <2> QED BY <1>0, <1>2, <1>3, <1>4, <1>5, <1>14, <2>1
          DEF DispatchSpawns, Tick, TypeOK, SupervisorTypeOK
<1>15. CASE FastFails(k)
  <2>1. StoreTypeOK'
    BY <1>12, <1>15 DEF FastFails
  <2>2. budget' \in 0..MaxInterventions
    <3>1. Spend(1) \/ UNCHANGED budget
      BY <1>15 DEF FastFails
    <3> QED BY <1>5, <3>1, SpendType DEF TypeOK, SupervisorTypeOK
  <2> QED BY <1>0, <1>1, <1>4, <1>6, <1>15, <2>1, <2>2
          DEF FastFails, TypeOK, SupervisorTypeOK
<1>16. CASE StampPid(k)
  <2>1. StoreTypeOK'
    <3>1. CASE OpStampPid(tick[k].token)
      <4>1. tick[k].token \in Token
        BY <1>1, <3>1, MaxClaimsAssumption DEF OpStampPid, Claimed
      <4> QED BY <3>1, <4>1, StampType DEF TypeOK
    <3> QED BY <1>3, <1>16, <3>1 DEF StampPid
  <2> QED BY <1>0, <1>1, <1>4, <1>5, <1>6, <1>16, <2>1
          DEF StampPid, TypeOK, SupervisorTypeOK
<1> QED BY <1>8, <1>9, <1>10, <1>11, <1>13, <1>14, <1>15, <1>16
        DEF TickerActs, TickerCrashes, TickProceeds

LEMMA WorkerType ==
  ASSUME TypeOK, NEW t \in Token, WorkerActs(t)
  PROVE  TypeOK'
<1>1. /\ claim.token \in 0..MaxClaims /\ claim.phase \in 0..NumPhases
      /\ t \in 0..MaxClaims
  BY ClaimType, MaxClaimsAssumption DEF TypeOK, StoreTypeOK
<1>2. ASSUME WorkerOnly, StoreTypeOK' PROVE TypeOK'
  BY <1>2 DEF WorkerOnly, TypeOK, SupervisorTypeOK
<1>3. CASE WorkerCompletes(t)
  BY <1>2, <1>3, ReleaseType DEF WorkerCompletes, TypeOK
<1>4. Claimed => claim \in Claim /\ claim.phase \in Phase
  BY ClaimType DEF TypeOK, StoreTypeOK
<1>5. CASE WorkerBlocks(t)
  <2>1. OpAddBlocker(t, claim.phase) /\ claim.phase \in Phase
    BY <1>4, <1>5 DEF WorkerBlocks, OpAddBlocker, Holds
  <2>2. StoreTypeOK'
    BY <2>1, LogType, ClaimType, QuestionType DEF OpAddBlocker, TypeOK, StoreTypeOK
  <2> QED BY <1>2, <1>5, <2>2 DEF WorkerBlocks
<1>6. CASE WorkerSpawnsTask(t)
  <2>1. OpSpawnTask(t, claim.phase) /\ claim.phase \in Phase
    BY <1>4, <1>6 DEF WorkerSpawnsTask, OpSpawnTask, Holds
  <2>2. StoreTypeOK'
    BY <2>1, LogType, QuestionType DEF OpSpawnTask, TypeOK, StoreTypeOK
  <2> QED BY <1>2, <1>6, <2>2 DEF WorkerSpawnsTask
<1>7. CASE WorkerFinishesTask(t)
  BY <1>2, <1>7, TaskType DEF WorkerFinishesTask, TypeOK
<1>8. CASE WorkerDies(t)
  BY <1>1, <1>8, KillType
     DEF WorkerDies, TypeOK, StoreTypeOK, SupervisorTypeOK, storeVars
<1>9. CASE DaemonReportsDeath(t)
  <2>1. StoreTypeOK'
    BY <1>9, ReleaseType DEF DaemonReportsDeath, TypeOK
  <2>2. budget' \in 0..MaxInterventions
    BY <1>9, SpendType DEF DaemonReportsDeath, ClaimDeath, TypeOK, SupervisorTypeOK
  <2> QED BY <1>9, <2>1, <2>2 DEF DaemonReportsDeath, TypeOK, SupervisorTypeOK
<1> QED BY <1>3, <1>5, <1>6, <1>7, <1>8, <1>9 DEF WorkerActs

LEMMA OperatorType ==
  ASSUME TypeOK, OperatorActs
  PROVE  TypeOK'
<1>1. /\ claim.token \in 0..MaxClaims /\ claim.phase \in 0..NumPhases
      /\ claim.pid \in 0..MaxClaims /\ 0 \in 0..MaxClaims /\ 0 \in 0..NumPhases
      /\ \A p \in Phase : p \in 0..NumPhases
  BY ClaimType, MaxClaimsAssumption, NumPhasesAssumption DEF TypeOK, StoreTypeOK
<1>2. NoOp \in Op
  BY <1>1 DEF NoOp, Op, Command
<1>3. ASSUME NEW STATE command, command \in Op, Looks(command)
      PROVE  TypeOK'
  <2>1. StoreTypeOK'
    BY <1>3 DEF Looks, storeVars, TypeOK, StoreTypeOK
  <2>2. budget' \in 0..MaxInterventions
    BY <1>3, SpendType DEF Looks, TypeOK, SupervisorTypeOK
  <2> QED BY <1>3, <2>1, <2>2 DEF Looks, TypeOK, SupervisorTypeOK
<1>4. CASE LooksToPause \/ LooksToResume
  <2>1. /\ [NoOp EXCEPT !.cmd = "pause"] \in Op
        /\ [NoOp EXCEPT !.cmd = "resume"] \in Op
    BY <1>2 DEF Op, Command
  <2> QED BY <1>3, <1>4, <2>1 DEF LooksToPause, LooksToResume
<1>5. CASE LooksToExtend
  <2>1. [NoOp EXCEPT !.cmd = "extend", !.phase = claim.phase] \in Op
    BY <1>1, <1>2 DEF Op, Command
  <2> QED BY <1>3, <1>5, <2>1 DEF LooksToExtend
<1>6. CASE LooksToRelease
  <2>1. PICK reset \in BOOLEAN :
          Looks([cmd |-> "release", phase |-> claim.phase, token |-> claim.token,
                 kill |-> claim.pid, reset |-> reset])
    BY <1>6 DEF LooksToRelease
  <2>2. [cmd |-> "release", phase |-> claim.phase, token |-> claim.token,
         kill |-> claim.pid, reset |-> reset] \in Op
    BY <1>1 DEF Op, Command
  <2> QED BY <1>3, <2>1, <2>2
<1>7. ASSUME NEW p \in Phase, LooksToRetry(p) PROVE TypeOK'
  <2>1. [NoOp EXCEPT !.cmd = "retry", !.phase = p] \in Op
    BY <1>1, <1>2 DEF Op, Command
  <2> QED BY <1>3, <1>7, <2>1 DEF LooksToRetry
<1>8. ASSUME NEW p \in Phase, LooksToForceComplete(p) PROVE TypeOK'
  <2> DEFINE its == Claimed /\ claim.phase = p
             t == IF its THEN claim.token ELSE 0
             k == IF its THEN claim.pid ELSE 0
  <2>1. t \in 0..MaxClaims /\ k \in 0..MaxClaims
    BY <1>1
  <2>2. Looks([NoOp EXCEPT !.cmd = "force_complete", !.phase = p, !.token = t, !.kill = k])
    BY <1>8 DEF LooksToForceComplete
  <2> HIDE DEF t, k
  <2>3. [NoOp EXCEPT !.cmd = "force_complete", !.phase = p, !.token = t, !.kill = k] \in Op
    BY <1>1, <1>2, <2>1 DEF Op, Command
  <2> QED BY <1>3, <2>2, <2>3
<1>9. CASE OperatorReaps
  <2>1. op.kill \in 0..MaxClaims /\ [op EXCEPT !.kill = 0] \in Op
    BY <1>1 DEF TypeOK, Op
  <2>2. worker' \in [Token -> ProcessState]
    BY <1>9, <2>1, KillType DEF OperatorReaps, TypeOK, SupervisorTypeOK
  <2> QED BY <1>9, <2>1, <2>2
          DEF OperatorReaps, TypeOK, StoreTypeOK, SupervisorTypeOK, storeVars
<1>10. ASSUME NEW cmd, Writes(cmd), StoreTypeOK' PROVE TypeOK'
  BY <1>2, <1>10 DEF Writes, TypeOK, SupervisorTypeOK
<1>11. CASE WritesPause \/ WritesResume \/ WritesRetry
  BY <1>10, <1>11, StatusChangeType
     DEF WritesPause, WritesResume, WritesRetry, Status, TypeOK
<1>12. CASE WritesExtend
  <2>1. StoreTypeOK'
    BY <1>12, ExtendType DEF WritesExtend, TypeOK, StoreTypeOK, storeVars
  <2> QED BY <1>10, <1>12, <2>1 DEF WritesExtend
<1>13. CASE WritesRelease \/ WritesForceComplete
  <2>1. StoreTypeOK'
    BY <1>13, LoggingType DEF WritesRelease, WritesForceComplete, TypeOK
  <2> QED BY <1>10, <1>13, <2>1 DEF WritesRelease, WritesForceComplete
<1>14. CASE OperatorAnswers \/ OperatorFinishesTask
  BY <1>14, AnswerType, TaskType
     DEF OperatorAnswers, OperatorFinishesTask, TypeOK, SupervisorTypeOK
<1> QED BY <1>4, <1>5, <1>6, <1>7, <1>8, <1>9, <1>11, <1>12, <1>13, <1>14
        DEF OperatorActs

LEMMA EnvironmentType ==
  ASSUME TypeOK, LeaseRunsOut \/ SomeoneLogs
  PROVE  TypeOK'
<1>1. CASE LeaseRunsOut
  BY <1>1, ClaimType, ClaimUpdateType
     DEF LeaseRunsOut, TypeOK, StoreTypeOK, SupervisorTypeOK
<1>2. CASE SomeoneLogs
  <2>1. StoreTypeOK'
    BY <1>2, LoggingType DEF SomeoneLogs, TypeOK
  <2>2. budget' \in 0..MaxInterventions
    BY <1>2, SpendType DEF SomeoneLogs, TypeOK, SupervisorTypeOK
  <2> QED BY <1>2, <2>1, <2>2 DEF SomeoneLogs, TypeOK, SupervisorTypeOK
<1> QED BY <1>1, <1>2

\* A step of the system is a step of one of its actors.
LEMMA ActorsType ==
  ASSUME TypeOK, [Next]_vars
  PROVE  TypeOK'
<1>1. CASE UNCHANGED vars
  BY <1>1 DEF vars, storeVars, TypeOK, StoreTypeOK, SupervisorTypeOK
<1>2. CASE Next
  BY <1>2, TickerType, WorkerType, OperatorType, EnvironmentType DEF Next
<1> QED BY <1>1, <1>2

LEMMA InitType == Init => TypeOK
<1> SUFFICES ASSUME Init PROVE TypeOK
  OBVIOUS
<1>1. 0 \in 0..MaxClaims /\ 0 \in 0..NumPhases
  BY MaxClaimsAssumption, NumPhasesAssumption
<1>2. StoreTypeOK
  BY <1>1, EmptySeq DEF Init, StoreInit, StoreTypeOK, Status
<1>3. IdleTick \in Tick
  BY <1>1 DEF IdleTick, Tick, NoPre, Preconditions, NoDelta, Delta
<1>4. SupervisorTypeOK
  BY <1>3, MaxInterventionsAssumption
     DEF Init, SupervisorInit, SupervisorTypeOK, ProcessState
<1>5. op \in Op
  BY <1>1 DEF Init, NoOp, Op, Command
<1> QED BY <1>2, <1>4, <1>5 DEF TypeOK

\* Every variable keeps its type, in particular no transaction writes a status
\* the program does not know, stamps a pid that was never spawned or commits
\* half a decision.
THEOREM TypeCorrect == Spec => []TypeOK
<1>1. Init => TypeOK
  BY InitType
<1>2. TypeOK /\ [Next]_vars => TypeOK'
  BY ActorsType
<1> QED BY <1>1, <1>2, PTL DEF Spec

-----------------------------------------------------------------------------
(* What a tick decides is right when it is written                          *)

HIDE DEF Phase, Token

NoStarts(evts) == \A e \in evts : e.type # "phase_started"

\* What a step other than a decision and its application may do to the store.
MildToLog ==
  /\ maxEvent <= maxEvent'
  /\ maxEvent' = maxEvent => UNCHANGED <<completed, spent, blockers, tasks>>
  /\ completed \subseteq completed'
  /\ \A p \in Phase : spent'[p] \subseteq spent[p]
MildToClaim ==
  Claimed' => /\ Claimed /\ claim'.token = claim.token
              /\ claim'.pid \in {claim.pid, claim.token}
MildToRows ==
  ~Claimed => OpenBlockers' \subseteq OpenBlockers /\ PendingTasks' \subseteq PendingTasks
Mild ==
  /\ minted' = minted /\ status' \in {status, "running", "paused"}
  /\ MildToLog /\ MildToClaim /\ MildToRows

\* What every decision looks like, on top of VerdictsRestOnLog.
DecisionShape ==
  \A k \in Ticker : At(k, "decided") =>
    LET delta == tick[k].delta IN
    /\ NoStarts(delta.events)
    /\ delta.consume # {} => delta.events # {}
    /\ delta.start # 0 => delta.status = ""

IInv ==
  /\ TypeOK
  /\ DecisionShape /\ VerdictsRestOnLog
  /\ PidBelongsToClaim /\ BudgetRespected /\ QuietWhenFinished /\ DoneMeansFinished

-----------------------------------------------------------------------------
(* Logging                                                                  *)

\* Logged events move the log forward and, none being a phase_started, charge
\* no phase.
LEMMA LogMild ==
  ASSUME StoreTypeOK, NEW STATE evts, InsertEvents(evts), NoStarts(evts)
  PROVE  /\ maxEvent <= maxEvent'
         /\ evts # {} => maxEvent' = maxEvent + 1
         /\ maxEvent' = maxEvent => UNCHANGED <<completed, spent>>
         /\ completed \subseteq completed'
         /\ \A p \in Phase : spent'[p] \subseteq spent[p]
<1>1. maxEvent \in Nat /\ spent \in [Phase -> SUBSET Token]
  BY DEF StoreTypeOK
<1>2. maxEvent <= maxEvent' /\ (evts # {} => maxEvent' = maxEvent + 1)
  BY <1>1 DEF InsertEvents
<1>3. completed \subseteq completed'
  BY DEF InsertEvents
<1>4. \A p \in Phase : TokensIn(evts, {"phase_started"}, p) = {}
  BY DEF TokensIn, NoStarts
<1>5. \A p \in Phase : spent'[p] \subseteq spent[p]
  BY <1>4 DEF InsertEvents
<1>6. ASSUME maxEvent' = maxEvent
      PROVE  UNCHANGED <<completed, spent>>
  <2>1. evts = {}
    BY <1>1, <1>2, <1>6
  <2>2. completed' = completed
    BY <2>1 DEF InsertEvents, Logs
  <2>3. \A p \in Phase : spent'[p] = spent[p]
    BY <2>1 DEF InsertEvents, Logs, TokensIn
  <2>4. spent' \in [Phase -> SUBSET Token]
    BY LogType
  <2> QED BY <1>1, <2>2, <2>3, <2>4
<1> QED BY <1>2, <1>3, <1>5, <1>6

\* The events of everybody but apply_tick_delta.
LEMMA NoStartsHere ==
  /\ NoStarts({}) /\ NoStarts({Note})
  /\ \A f, p, t : /\ NoStarts(QuotaDeath(f, t, p))
                  /\ NoStarts({Note} \cup QuotaDeath(f, t, p))
                  /\ NoStarts({Ev("phase_completed", p, t)})
                  /\ NoStarts({Ev("retry_requested", p, t)})
                  /\ NoStarts({Ev("attempts_reset", p, t)})
                  /\ NoStarts({Note} \cup {Ev("attempts_reset", p, t)})
                  /\ NoStarts({Ev("systemic_failure", p, t)})
BY DEF NoStarts, Note, Ev, QuotaDeath

-----------------------------------------------------------------------------
(* The store's transactions are mild                                        *)

LEMMA RestMild ==
  ASSUME StoreTypeOK, UNCHANGED storeVars
  PROVE  Mild
BY DEF StoreTypeOK, storeVars, Mild, MildToLog, MildToClaim, MildToRows, Claimed,
       OpenBlockers, PendingTasks

\* Transactions that log, leave the rows alone and at most release the claim.
LEMMA ReleaseMild ==
  ASSUME StoreTypeOK, NEW STATE evts, InsertEvents(evts), NoStarts(evts),
         UNCHANGED <<minted, blockers, tasks>>, claim' \in {claim, NoClaim},
         status' \in {status, "running", "paused"}
  PROVE  Mild
<1>1. MildToLog
  BY LogMild DEF MildToLog
<1>2. MildToClaim
  BY DEF MildToClaim, Claimed, NoClaim, NewClaim
<1>3. MildToRows
  BY DEF MildToRows, OpenBlockers, PendingTasks
<1> QED BY <1>1, <1>2, <1>3 DEF Mild

LEMMA OpMild ==
  ASSUME StoreTypeOK, NEW STATE evts, NoStarts(evts), NEW STATE t, NEW STATE p,
         \/ OpReleaseClaim(t, p, evts) \/ OpReleaseAnyClaim(evts) \/ OpAppendEvents(evts)
         \/ \E s \in {"running", "paused"}, released \in BOOLEAN :
              OpSetStatus(s, evts, released)
  PROVE  Mild
BY ReleaseMild DEF OpReleaseClaim, OpReleaseAnyClaim, OpAppendEvents, OpSetStatus

\* Transactions that touch the claim and keep it.
LEMMA ClaimKeptMild ==
  ASSUME StoreTypeOK, NEW STATE t, NEW STATE p,
         OpStampPid(t) \/ OpExtendLease(p) \/ LeaseRunsOut
  PROVE  Mild
<1>1. Claimed /\ claim \in Claim
  BY ClaimType DEF StoreTypeOK, OpStampPid, OpExtendLease, LeaseRunsOut
<1>2. claim'.token = claim.token /\ claim'.pid \in {claim.pid, claim.token}
  BY <1>1 DEF OpStampPid, OpExtendLease, LeaseRunsOut, Claim
<1>3. MildToLog
  <2>1. CASE OpExtendLease(p)
    BY <2>1, LogMild, NoStartsHere DEF OpExtendLease, MildToLog
  <2>2. CASE OpStampPid(t) \/ LeaseRunsOut
    BY <2>2 DEF OpStampPid, LeaseRunsOut, MildToLog, StoreTypeOK
  <2> QED BY <2>1, <2>2
<1>4. UNCHANGED <<status, minted, blockers, tasks>>
  BY DEF OpStampPid, OpExtendLease, LeaseRunsOut
<1> QED BY <1>1, <1>2, <1>3, <1>4 DEF Mild, MildToClaim, MildToRows

\* Transactions that touch a row: each of them logs.
LEMMA RowMild ==
  ASSUME StoreTypeOK, NEW STATE t, NEW STATE p,
         \/ OpAddBlocker(t, p) \/ OpSpawnTask(t, p)
         \/ \E b \in OpenBlockers : OpAnswerBlocker(b)
         \/ \E i \in PendingTasks : OpCompleteTask(i)
  PROVE  Mild
<1>1. /\ InsertEvents({Note}) /\ UNCHANGED <<status, minted>>
      /\ claim' \in {claim, NoClaim}
  BY DEF OpAddBlocker, OpSpawnTask, OpAnswerBlocker, OpCompleteTask
<1>2. MildToLog
  <2>1. maxEvent' = maxEvent + 1 /\ maxEvent \in Nat
    BY <1>1, LogMild, NoStartsHere DEF StoreTypeOK
  <2> QED BY <1>1, <2>1, LogMild, NoStartsHere DEF MildToLog
<1>3. MildToClaim
  BY <1>1 DEF MildToClaim, Claimed, NoClaim, NewClaim
<1>4. MildToRows
  <2>1. CASE OpAddBlocker(t, p) \/ OpSpawnTask(t, p)
    BY <2>1 DEF OpAddBlocker, OpSpawnTask, Holds, MildToRows
  <2>2. CASE \E b \in OpenBlockers : OpAnswerBlocker(b)
    BY <2>2 DEF OpAnswerBlocker, MildToRows, OpenBlockers, PendingTasks
  <2>3. CASE \E i \in PendingTasks : OpCompleteTask(i)
    BY <2>3 DEF OpCompleteTask, MildToRows, OpenBlockers, PendingTasks
  <2> QED BY <2>1, <2>2, <2>3
<1> QED BY <1>1, <1>2, <1>3, <1>4 DEF Mild

-----------------------------------------------------------------------------
(* Every step is mild, a decision or its application                        *)

\* The step leaves no ticker with a decision it did not have.
NothingDecided == \A k \in Ticker : tick'[k] = tick[k] \/ tick'[k].pc # "decided"

LEMMA GotoDecidesNothing ==
  ASSUME TypeOK, NEW k \in Ticker, NEW pc \in {"idle", "reap", "dispatch", "fastfail"},
         NEW STATE t, Goto(k, pc, t)
  PROVE  NothingDecided
<1>1. tick'[k].pc = pc
  BY DEF Goto, IdleTick, TypeOK, SupervisorTypeOK
<1>2. \A j \in Ticker \ {k} : tick'[j] = tick[j]
  BY DEF Goto, TypeOK, SupervisorTypeOK
<1> QED BY <1>1, <1>2 DEF NothingDecided

LEMMA TickerMild ==
  ASSUME TypeOK, NEW k \in Ticker,
         \/ TickConflicts(k) \/ TickReaps(k) \/ DispatchFails(k) \/ DispatchNoWorktree(k)
         \/ DispatchSpawns(k) \/ FastFails(k) \/ StampPid(k) \/ TickCrashes(k)
  PROVE  Mild /\ NothingDecided
<1>1. StoreTypeOK
  BY DEF TypeOK
<1>2. NothingDecided
  BY GotoDecidesNothing
     DEF TickConflicts, TickReaps, DispatchFails, DispatchNoWorktree, DispatchSpawns,
         FastFails, StampPid, TickCrashes
<1>3. CASE TickConflicts(k) \/ DispatchSpawns(k) \/ TickCrashes(k)
  BY <1>1, <1>2, <1>3, RestMild DEF TickConflicts, DispatchSpawns, TickCrashes
<1>4. ASSUME NEW STATE evts, NoStarts(evts),
             ReleaseRecording(k, evts) \/ PauseRecording(k, evts)
      PROVE  Mild
  <2>1. CASE ReleaseRecording(k, evts)
    BY <1>1, <1>4, <2>1, OpMild DEF ReleaseRecording
  <2>2. CASE PauseRecording(k, evts)
    <3>1. OpSetStatus("paused", evts, Holds(tick[k].token, tick[k].phase))
      BY <2>2 DEF PauseRecording
    <3> QED BY <1>1, <1>4, <3>1, ReleaseMild DEF OpSetStatus
  <2> QED BY <1>4, <2>1, <2>2
<1>5. CASE TickReaps(k)
  BY <1>1, <1>2, <1>5, OpMild, NoStartsHere DEF TickReaps
<1>6. CASE DispatchFails(k) \/ DispatchNoWorktree(k)
  BY <1>2, <1>4, <1>6, NoStartsHere DEF DispatchFails, DispatchNoWorktree
<1>7. CASE FastFails(k)
  <2>1. \/ ReleaseRecording(k, QuotaDeath(TRUE, tick[k].token, tick[k].phase))
        \/ PauseRecording(k, {Ev("systemic_failure", tick[k].phase, tick[k].token)})
        \/ ReleaseRecording(k, {Note})
    BY <1>7 DEF FastFails
  <2> QED BY <1>2, <1>4, <2>1, NoStartsHere
<1>8. CASE StampPid(k)
  BY <1>1, <1>2, <1>8, RestMild, ClaimKeptMild DEF StampPid
<1> QED BY <1>3, <1>5, <1>6, <1>7, <1>8

LEMMA WorkerMild ==
  ASSUME TypeOK, NEW t \in Token, WorkerActs(t)
  PROVE  Mild /\ UNCHANGED tick
<1>1. StoreTypeOK
  BY DEF TypeOK
<1>2. CASE WorkerCompletes(t) \/ DaemonReportsDeath(t)
  BY <1>1, <1>2, OpMild, NoStartsHere DEF WorkerCompletes, DaemonReportsDeath, WorkerOnly
<1>3. CASE WorkerBlocks(t) \/ WorkerSpawnsTask(t) \/ WorkerFinishesTask(t)
  BY <1>1, <1>3, RowMild
     DEF WorkerBlocks, WorkerSpawnsTask, WorkerFinishesTask, WorkerOnly
<1>4. CASE WorkerDies(t)
  BY <1>1, <1>4, RestMild DEF WorkerDies
<1> QED BY <1>2, <1>3, <1>4 DEF WorkerActs

LEMMA OperatorMild ==
  ASSUME TypeOK, OperatorActs
  PROVE  Mild /\ UNCHANGED tick
<1>1. StoreTypeOK
  BY DEF TypeOK
<1>2. ASSUME \/ LooksToPause \/ LooksToResume \/ LooksToExtend \/ LooksToRelease
             \/ \E p \in Phase : LooksToRetry(p) \/ LooksToForceComplete(p)
             \/ OperatorReaps
      PROVE  UNCHANGED <<storeVars, tick>>
  BY <1>2 DEF LooksToPause, LooksToResume, LooksToExtend, LooksToRelease, LooksToRetry,
              LooksToForceComplete, OperatorReaps, Looks
<1>3. CASE WritesPause \/ WritesResume \/ WritesRetry
  <2>1. \E s \in {"running", "paused"}, evts \in {{Note}, {Ev("retry_requested", op.phase, 0)}} :
          OpSetStatus(s, evts, FALSE) /\ NoStarts(evts)
    BY <1>3, NoStartsHere DEF WritesPause, WritesResume, WritesRetry
  <2> QED BY <1>1, <1>3, <2>1, OpMild DEF WritesPause, WritesResume, WritesRetry, Writes
<1>4. CASE WritesExtend
  BY <1>1, <1>4, RestMild, ClaimKeptMild DEF WritesExtend, Writes
<1>5. CASE WritesRelease
  <2>1. OpReleaseAnyClaim({Note}) \/ OpReleaseAnyClaim({Note} \cup {Ev("attempts_reset", op.phase, 0)})
    BY <1>5 DEF WritesRelease
  <2> QED BY <1>1, <1>5, <2>1, OpMild, NoStartsHere DEF WritesRelease, Writes
<1>6. CASE WritesForceComplete
  BY <1>1, <1>6, OpMild, NoStartsHere DEF WritesForceComplete, Writes
<1>7. CASE OperatorAnswers \/ OperatorFinishesTask
  BY <1>1, <1>7, RowMild DEF OperatorAnswers, OperatorFinishesTask
<1> QED BY <1>1, <1>2, <1>3, <1>4, <1>5, <1>6, <1>7, RestMild DEF OperatorActs

LEMMA StepKinds ==
  ASSUME TypeOK, [Next]_vars
  PROVE  \/ Mild /\ NothingDecided
         \/ \E k \in Ticker : TickDecides(k) \/ TickApplies(k)
<1>1. UNCHANGED tick => NothingDecided
  BY DEF NothingDecided
<1>2. CASE UNCHANGED vars
  BY <1>1, <1>2, RestMild DEF vars, TypeOK
<1>3. CASE \E t \in Token : WorkerActs(t)
  BY <1>1, <1>3, WorkerMild
<1>4. CASE OperatorActs
  BY <1>1, <1>4, OperatorMild
<1>5. CASE LeaseRunsOut \/ SomeoneLogs
  BY <1>1, <1>5, OpMild, ClaimKeptMild, NoStartsHere DEF LeaseRunsOut, SomeoneLogs, TypeOK
<1>6. CASE \E k \in Ticker : TickerActs(k) \/ TickerCrashes(k)
  BY <1>6, TickerMild DEF TickerActs, TickerCrashes, TickProceeds
<1> QED BY <1>2, <1>3, <1>4, <1>5, <1>6 DEF Next

-----------------------------------------------------------------------------
(* The inductive invariant survives mild steps                              *)

LEMMA Unclaimed ==
  ASSUME claim \in Claim \cup {NoClaim}, ~Claimed
  PROVE  claim = NoClaim /\ claim.pid = 0 /\ SeenClaim = {<<0, 0>>}
<1>1. claim \in Claim => claim.token \in Token
  BY DEF Claim
<1>2. 0 \notin Token
  BY MaxClaimsAssumption DEF Token
<1>3. claim = NoClaim
  BY <1>1, <1>2 DEF Claimed
<1>4. claim.token = 0 /\ claim.phase = 0 /\ claim.pid = 0
  BY <1>3 DEF NoClaim, NewClaim
<1> QED BY <1>3, <1>4 DEF SeenClaim

LEMMA SpentFinite ==
  ASSUME StoreTypeOK, NEW p \in Phase
  PROVE  IsFiniteSet(spent[p]) /\ Cardinality(spent[p]) \in Nat
<1>1. spent[p] \subseteq Token
  BY DEF StoreTypeOK
<1>2. 1 \in Int /\ MaxClaims \in Int
  BY MaxClaimsAssumption
<1>3. IsFiniteSet(1..MaxClaims)
  BY <1>2, FS_Interval
<1> QED BY <1>1, <1>3, FS_Subset, FS_CardinalityType DEF Token

LEMMA InvMild ==
  ASSUME IInv, TypeOK', Mild, NothingDecided
  PROVE  IInv'
<1>1. DecisionShape'
  BY DEF IInv, DecisionShape, NothingDecided, At
<1>2. VerdictsRestOnLog'
  <2> SUFFICES ASSUME NEW k \in Ticker, Verdict(k)'
               PROVE  /\ tick'[k].pre.claim = {<<0, 0>>} /\ tick'[k].pre.status = {"running"}
                      /\ tick'[k].pre.maxEvent # {}
                      /\ \A m \in tick'[k].pre.maxEvent : m <= maxEvent'
                      /\ maxEvent' \in tick'[k].pre.maxEvent => RightNow(tick[k].delta)'
    BY DEF VerdictsRestOnLog
  <2>1. tick'[k] = tick[k] /\ Verdict(k)
    BY DEF Verdict, At, NothingDecided
  <2>2. /\ tick[k].pre.claim = {<<0, 0>>} /\ tick[k].pre.status = {"running"}
        /\ tick[k].pre.maxEvent # {}
        /\ \A m \in tick[k].pre.maxEvent : m <= maxEvent
        /\ maxEvent \in tick[k].pre.maxEvent => RightNow(tick[k].delta)
    BY <2>1 DEF IInv, VerdictsRestOnLog
  <2>3. maxEvent \in Nat /\ maxEvent' \in Nat /\ maxEvent <= maxEvent'
    BY DEF IInv, TypeOK, StoreTypeOK, Mild, MildToLog
  <2>4. tick[k].pre.maxEvent \subseteq Nat
    BY DEF IInv, TypeOK, SupervisorTypeOK, Tick, Preconditions
  <2>5. \A m \in tick'[k].pre.maxEvent : m <= maxEvent'
    BY <2>1, <2>2, <2>3, <2>4
  <2>6. ASSUME maxEvent' \in tick'[k].pre.maxEvent
        PROVE  RightNow(tick[k].delta)'
    <3>1. maxEvent' = maxEvent
      BY <2>1, <2>2, <2>3, <2>6
    <3>2. UNCHANGED <<completed, spent, blockers, tasks>>
      BY <3>1 DEF Mild, MildToLog
    <3>3. RightNow(tick[k].delta)
      BY <2>1, <2>2, <2>6, <3>1
    <3> QED BY <2>1, <3>2, <3>3
            DEF RightNow, OpenBlockers, AnsweredBlockers, PendingTasks, PhasesLeft, NextPhase,
                AttemptsForPhase
  <2> QED BY <2>1, <2>2, <2>5, <2>6
<1>3. PidBelongsToClaim'
  <2>1. CASE Claimed'
    BY <2>1 DEF Mild, MildToClaim, IInv, PidBelongsToClaim
  <2>2. CASE ~Claimed'
    <3>1. claim'.token = 0 /\ (claim' \in Claim \/ claim' = NoClaim)
      BY <2>2 DEF Claimed, TypeOK, StoreTypeOK
    <3>2. claim' \in Claim => claim'.token \in Token
      BY DEF Claim
    <3>3. 0 \notin Token
      BY MaxClaimsAssumption DEF Token
    <3>4. claim' = NoClaim
      BY <3>1, <3>2, <3>3
    <3> QED BY <3>4 DEF NoClaim, NewClaim, PidBelongsToClaim
  <2> QED BY <2>1, <2>2
<1>4. BudgetRespected'
  <2> SUFFICES ASSUME NEW p \in Phase
               PROVE  Cardinality(spent'[p]) <= MaxAttempts
    BY DEF BudgetRespected, AttemptsForPhase
  <2>1. IsFiniteSet(spent[p]) /\ Cardinality(spent[p]) \in Nat
    BY SpentFinite DEF IInv, TypeOK
  <2>2. spent'[p] \subseteq spent[p]
    BY DEF Mild, MildToLog
  <2>3. Cardinality(spent'[p]) <= Cardinality(spent[p]) /\ Cardinality(spent'[p]) \in Nat
    BY <2>1, <2>2, FS_Subset, FS_CardinalityType
  <2>4. Cardinality(spent[p]) <= MaxAttempts
    BY DEF IInv, BudgetRespected, AttemptsForPhase
  <2> QED BY <2>1, <2>3, <2>4, MaxAttemptsAssumption
<1>5. QuietWhenFinished' /\ DoneMeansFinished'
  <2> SUFFICES ASSUME status' \in {"halted", "done"}
               PROVE  /\ ~Claimed' /\ OpenBlockers' = {}
                      /\ status' = "done" => PhasesLeft' = {} /\ PendingTasks' = {}
    BY DEF QuietWhenFinished, DoneMeansFinished
  <2>1. status' = status
    BY DEF Mild
  <2>2. ~Claimed /\ OpenBlockers = {}
    BY <2>1 DEF IInv, QuietWhenFinished
  <2>3. /\ status = "done" => PhasesLeft = {} /\ PendingTasks = {}
        /\ PhasesLeft' \subseteq PhasesLeft
    BY DEF IInv, DoneMeansFinished, PhasesLeft, Mild, MildToLog
  <2> QED BY <2>1, <2>2, <2>3 DEF Mild, MildToClaim, MildToRows
<1> QED BY <1>1, <1>2, <1>3, <1>4, <1>5 DEF IInv

-----------------------------------------------------------------------------
(* The inductive invariant survives decisions                               *)

LEMMA NatOrder == \A n \in Nat : n <= n
OBVIOUS

\* A decision taken in a state where it is right keeps the invariant.
LEMMA InvDecide ==
  ASSUME IInv, TypeOK', NEW k \in Ticker, NEW STATE pre, NEW STATE delta, NEW STATE pid,
         Decide(k, pre, delta, pid),
         NoStarts(delta.events), delta.consume # {} => delta.events # {},
         delta.start # 0 => delta.status = "",
         (delta.start # 0 \/ delta.status \in {"halted", "done"})
           => ~Claimed /\ status = "running" /\ pre = Whole /\ RightNow(delta)
  PROVE  IInv'
<1>1. /\ tick'[k].pre = pre /\ tick'[k].delta = delta
      /\ \A j \in Ticker \ {k} : tick'[j] = tick[j]
      /\ UNCHANGED storeVars
  BY DEF Decide, IInv, TypeOK, SupervisorTypeOK
<1>2. DecisionShape'
  <2> SUFFICES ASSUME NEW j \in Ticker, tick'[j].pc = "decided"
               PROVE  /\ NoStarts(tick'[j].delta.events)
                      /\ tick'[j].delta.consume # {} => tick'[j].delta.events # {}
                      /\ tick'[j].delta.start # 0 => tick'[j].delta.status = ""
    BY DEF DecisionShape, At, NoStarts
  <2>1. CASE j = k
    BY <1>1, <2>1
  <2>2. CASE j # k
    BY <1>1, <2>2 DEF IInv, DecisionShape, At
  <2> QED BY <2>1, <2>2
<1>3. VerdictsRestOnLog'
  <2> SUFFICES ASSUME NEW j \in Ticker, Verdict(j)'
               PROVE  /\ tick'[j].pre.claim = {<<0, 0>>} /\ tick'[j].pre.status = {"running"}
                      /\ tick'[j].pre.maxEvent # {}
                      /\ \A m \in tick'[j].pre.maxEvent : m <= maxEvent'
                      /\ maxEvent' \in tick'[j].pre.maxEvent => RightNow(tick[j].delta)'
    BY DEF VerdictsRestOnLog
  <2>1. UNCHANGED <<maxEvent, completed, spent, blockers, tasks>> /\ maxEvent \in Nat
    BY <1>1 DEF storeVars, IInv, TypeOK, StoreTypeOK
  <2>2. CASE j = k
    <3>1. ~Claimed /\ status = "running" /\ pre = Whole /\ RightNow(delta)
      BY <1>1, <2>2 DEF Verdict
    <3>2. /\ pre.claim = {<<0, 0>>} /\ pre.status = {"running"}
          /\ pre.maxEvent = {maxEvent}
      BY <3>1, Unclaimed DEF IInv, TypeOK, StoreTypeOK, Whole, NoPre, SeenStatus, SeenLog
    <3>3. RightNow(tick[j].delta)'
      BY <1>1, <2>1, <2>2, <3>1
         DEF RightNow, OpenBlockers, AnsweredBlockers, PendingTasks, PhasesLeft, NextPhase,
             AttemptsForPhase
    <3>4. tick'[j].pre = pre /\ maxEvent' = maxEvent
      BY <1>1, <2>1, <2>2
    <3>5. maxEvent <= maxEvent
      BY <2>1, NatOrder
    <3> QED BY <2>1, <3>2, <3>3, <3>4, <3>5
  <2>3. CASE j # k
    <3>1. tick'[j] = tick[j] /\ Verdict(j)
      BY <1>1, <2>3 DEF Verdict, At
    <3>2. /\ tick[j].pre.claim = {<<0, 0>>} /\ tick[j].pre.status = {"running"}
          /\ tick[j].pre.maxEvent # {}
          /\ \A m \in tick[j].pre.maxEvent : m <= maxEvent
          /\ maxEvent \in tick[j].pre.maxEvent => RightNow(tick[j].delta)
      BY <3>1 DEF IInv, VerdictsRestOnLog
    <3>3. RightNow(tick[j].delta) => RightNow(tick[j].delta)'
      BY <2>1, <3>1
         DEF RightNow, OpenBlockers, AnsweredBlockers, PendingTasks, PhasesLeft, NextPhase,
             AttemptsForPhase
    <3> QED BY <2>1, <3>1, <3>2, <3>3
  <2> QED BY <2>2, <2>3
<1>4. PidBelongsToClaim' /\ BudgetRespected' /\ QuietWhenFinished' /\ DoneMeansFinished'
  BY <1>1 DEF storeVars, IInv, PidBelongsToClaim, BudgetRespected, QuietWhenFinished,
              DoneMeansFinished, AttemptsForPhase, Claimed, OpenBlockers, PendingTasks, PhasesLeft
<1> QED BY <1>2, <1>3, <1>4 DEF IInv

\* A decision that is no verdict has nothing to keep up.
LEMMA InvDecideOther ==
  ASSUME IInv, TypeOK', NEW k \in Ticker, NEW STATE pre, NEW STATE delta, NEW STATE pid,
         Decide(k, pre, delta, pid), NoStarts(delta.events), delta.events # {},
         delta.start = 0, delta.status \in {"", "paused", "running"}
  PROVE  IInv'
<1>1. delta.status \notin {"halted", "done"}
  OBVIOUS
<1> QED BY <1>1, InvDecide

\* A verdict holds where it is reached.
LEMMA InvDecideVerdict ==
  ASSUME IInv, TypeOK', NEW k \in Ticker, NEW STATE delta,
         Decide(k, Whole, delta, 0), NoStarts(delta.events), delta.consume = {},
         delta.start # 0 => delta.status = "", Dispatchable, RightNow(delta)
  PROVE  IInv'
BY InvDecide DEF Dispatchable

\* One of the two is each of the supervisor's seven decisions.
LEMMA InvDecides ==
  ASSUME IInv, TypeOK', NEW k \in Ticker, TickDecides(k)
  PROVE  IInv'
<1>1. NoStarts({}) /\ NoStarts({Note})
  BY NoStartsHere
<1>2. CASE TickLeaseExpired(k) \/ TickWorkerDead(k)
  <2>1. PICK forgiven \in BOOLEAN :
          \/ Decide(k, [NoPre EXCEPT !.claim = SeenClaim, !.lease = SeenLease],
                    ReleaseDelta(forgiven), claim.pid)
          \/ Decide(k, [NoPre EXCEPT !.claim = SeenClaim], ReleaseDelta(forgiven), 0)
    BY <1>2 DEF TickLeaseExpired, TickWorkerDead
  <2>2. ReleaseDelta(forgiven).events = {Note} \cup QuotaDeath(forgiven, claim.token, claim.phase)
    BY DEF ReleaseDelta, NoDelta
  <2>3. ReleaseDelta(forgiven).start = 0 /\ ReleaseDelta(forgiven).status = ""
    BY DEF ReleaseDelta, NoDelta
  <2>4. NoStarts({Note} \cup QuotaDeath(forgiven, claim.token, claim.phase))
    BY NoStartsHere
  <2>5. NoStarts(ReleaseDelta(forgiven).events) /\ ReleaseDelta(forgiven).events # {}
    BY <2>2, <2>4
  <2> QED BY <2>1, <2>3, <2>5, InvDecideOther
<1>3. CASE TickEscalate(k)
  <2> DEFINE delta == [NoDelta EXCEPT !.status = "paused", !.events = {Note}]
  <2>1. PICK b \in OpenBlockers :
          Decide(k, [NoPre EXCEPT !.blockers = SeenBlockers({b}), !.status = SeenStatus],
                 delta, 0)
    BY <1>3 DEF TickEscalate
  <2>2. delta.events = {Note} /\ delta.start = 0 /\ delta.status = "paused"
    BY DEF NoDelta
  <2> HIDE DEF delta
  <2> QED BY <1>1, <2>1, <2>2, InvDecideOther
<1>4. CASE TickConsume(k)
  <2> DEFINE delta == [NoDelta EXCEPT !.consume = AnsweredBlockers, !.status = "running",
                                      !.events = {Note}]
             pre == [NoPre EXCEPT !.blockers = SeenBlockers(AnsweredBlockers),
                                  !.status = SeenStatus]
  <2>1. Decide(k, pre, delta, 0)
    BY <1>4 DEF TickConsume
  <2>2. delta.events = {Note} /\ delta.start = 0 /\ delta.status = "running"
    BY DEF NoDelta
  <2> HIDE DEF delta, pre
  <2> QED BY <1>1, <2>1, <2>2, InvDecideOther
<1>5. CASE TickHalt(k)
  <2> DEFINE delta == [NoDelta EXCEPT !.status = "halted", !.events = {Note}]
  <2>1. Decide(k, Whole, delta, 0) /\ Dispatchable
    BY <1>5 DEF TickHalt
  <2>2. /\ delta.events = {Note} /\ delta.consume = {} /\ delta.start = 0
        /\ delta.status = "halted"
    BY DEF NoDelta
  <2> HIDE DEF delta
  <2>3. RightNow(delta)
    BY <1>5, <2>2 DEF TickHalt, Dispatchable, RightNow
  <2> QED BY <1>1, <2>1, <2>2, <2>3, InvDecideVerdict
<1>6. CASE TickDispatch(k)
  <2> DEFINE delta == [NoDelta EXCEPT !.start = NextPhase]
  <2>1. Decide(k, Whole, delta, 0) /\ Dispatchable
    BY <1>6 DEF TickDispatch
  <2>2. /\ delta.events = {} /\ delta.consume = {} /\ delta.start = NextPhase
        /\ delta.status = ""
    BY DEF NoDelta
  <2> HIDE DEF delta
  <2>3. RightNow(delta)
    BY <1>6, <2>2 DEF TickDispatch, Dispatchable, RightNow
  <2> QED BY <1>1, <2>1, <2>2, <2>3, InvDecideVerdict
<1>7. CASE TickDone(k)
  <2> DEFINE delta == [NoDelta EXCEPT !.status = "done", !.events = {Note}]
  <2>1. Decide(k, Whole, delta, 0) /\ Dispatchable
    BY <1>7 DEF TickDone
  <2>2. /\ delta.events = {Note} /\ delta.consume = {} /\ delta.start = 0
        /\ delta.status = "done"
    BY DEF NoDelta
  <2> HIDE DEF delta
  <2>3. RightNow(delta)
    BY <1>7, <2>2 DEF TickDone, Dispatchable, RightNow
  <2> QED BY <1>1, <2>1, <2>2, <2>3, InvDecideVerdict
<1> QED BY <1>2, <1>3, <1>4, <1>5, <1>6, <1>7 DEF TickDecides

-----------------------------------------------------------------------------
(* The inductive invariant survives the writing of a decision               *)

\* A verdict that passes the preconditions is right at that moment.
LEMMA AppliedVerdictIsRight ==
  ASSUME IInv, NEW k \in Ticker, TickApplies(k), Verdict(k)
  PROVE  ~Claimed /\ status = "running" /\ RightNow(tick[k].delta)
<1>1. /\ tick[k].pre.claim = {<<0, 0>>} /\ tick[k].pre.status = {"running"}
      /\ tick[k].pre.maxEvent # {}
      /\ maxEvent \in tick[k].pre.maxEvent => RightNow(tick[k].delta)
  BY DEF IInv, VerdictsRestOnLog
<1>2. AssertPreconditions(tick[k].pre)
  BY DEF TickApplies
<1>3. <<claim.token, claim.phase>> = <<0, 0>>
  BY <1>1, <1>2 DEF AssertPreconditions, SeenClaim
<1>4. status = "running" /\ maxEvent \in tick[k].pre.maxEvent
  BY <1>1, <1>2 DEF AssertPreconditions, SeenStatus, SeenLog
<1> QED BY <1>1, <1>3, <1>4 DEF Claimed

\* What is written to the log and to the rows.
LEMMA ApplyEffect ==
  ASSUME IInv, NEW k \in Ticker, TickApplies(k)
  PROVE  /\ maxEvent <= maxEvent'
         /\ maxEvent' = maxEvent => UNCHANGED <<completed, spent, blockers, tasks>>
         /\ completed \subseteq completed' /\ UNCHANGED tasks
         /\ OpenBlockers' \subseteq OpenBlockers
         /\ tick[k].delta.start = 0 =>
              /\ claim' \in {claim, NoClaim}
              /\ \A p \in Phase : spent'[p] \subseteq spent[p]
         /\ tick[k].delta.start # 0 =>
              /\ minted' = minted + 1 /\ claim' = NewClaim(minted + 1, tick[k].delta.start)
              /\ status' = status
              /\ \A p \in Phase : spent'[p] \subseteq
                    spent[p] \cup (IF p = tick[k].delta.start THEN {minted + 1} ELSE {})
<1> DEFINE d == tick[k].delta
           start == {Ev("phase_started", d.start, minted + 1)}
<1>1. NoStarts(d.events) /\ (d.consume # {} => d.events # {}) /\ (d.start # 0 => d.status = "")
  BY DEF IInv, DecisionShape, TickApplies
<1>2. /\ blockers' = [b \in DOMAIN blockers |->
            IF b \in d.consume THEN [blockers[b] EXCEPT !.state = "consumed"] ELSE blockers[b]]
      /\ status' = IF d.status = "" THEN status ELSE d.status
      /\ UNCHANGED tasks
      /\ d.start # 0 => /\ minted' = minted + 1 /\ claim' = NewClaim(minted + 1, d.start)
                        /\ InsertEvents(d.events \cup start)
      /\ d.start = 0 => claim' \in {claim, NoClaim} /\ InsertEvents(d.events)
  BY DEF TickApplies, ApplyTickDelta
<1>3. StoreTypeOK /\ maxEvent \in Nat /\ blockers \in Seq(Blocker)
  BY DEF IInv, TypeOK, StoreTypeOK
<1>4. OpenBlockers' \subseteq OpenBlockers
  <2>1. \A b \in DOMAIN blockers : blockers[b] \in Blocker
    BY <1>3, ElementOfSeq, LenProperties
  <2>2. \A b \in DOMAIN blockers : b \in d.consume => blockers'[b].state = "consumed"
    BY <1>2, <2>1 DEF Blocker
  <2>3. DOMAIN blockers' = DOMAIN blockers
    BY <1>2
  <2>4. \A b \in DOMAIN blockers : b \notin d.consume => blockers'[b] = blockers[b]
    BY <1>2
  <2> QED BY <2>2, <2>3, <2>4 DEF OpenBlockers
<1>5. CASE d.start = 0
  <2>1. /\ maxEvent <= maxEvent'
        /\ d.events # {} => maxEvent' = maxEvent + 1
        /\ maxEvent' = maxEvent => UNCHANGED <<completed, spent>>
        /\ completed \subseteq completed'
        /\ \A p \in Phase : spent'[p] \subseteq spent[p]
    BY <1>1, <1>2, <1>3, <1>5, LogMild
  <2>2. ASSUME maxEvent' = maxEvent PROVE blockers' = blockers
    <3>0. maxEvent + 1 # maxEvent
      BY <1>3
    <3>1. d.consume = {}
      BY <1>1, <2>1, <2>2, <3>0
    <3>2. blockers \in [1..Len(blockers) -> Blocker]
      BY <1>3, LenProperties
    <3> QED BY <1>2, <3>1, <3>2
  <2> QED BY <1>2, <1>4, <1>5, <2>1, <2>2
<1>6. CASE d.start # 0
  <2>1. maxEvent' = maxEvent + 1
    BY <1>2, <1>6 DEF InsertEvents
  <2>2. completed \subseteq completed'
    BY <1>2, <1>6 DEF InsertEvents
  <2>3. ASSUME NEW p \in Phase
        PROVE  spent'[p] \subseteq spent[p] \cup (IF p = d.start THEN {minted + 1} ELSE {})
    <3>1. TokensIn(d.events \cup start, {"phase_started"}, p)
            \subseteq IF p = d.start THEN {minted + 1} ELSE {}
      <4> SUFFICES ASSUME NEW t \in Token, NEW e \in d.events \cup start,
                          e.type = "phase_started", e.phase = p, e.token = t
                   PROVE  p = d.start /\ t = minted + 1
        BY DEF TokensIn
      <4>1. e = Ev("phase_started", d.start, minted + 1)
        BY <1>1 DEF NoStarts
      <4> QED BY <4>1 DEF Ev
    <3>2. spent'[p] \subseteq
            spent[p] \cup TokensIn(d.events \cup start, {"phase_started"}, p)
      BY <1>2, <1>6 DEF InsertEvents
    <3> QED BY <3>1, <3>2
  <2>4. maxEvent <= maxEvent' /\ maxEvent' # maxEvent
    BY <1>3, <2>1
  <2> QED BY <1>1, <1>2, <1>4, <1>6, <2>2, <2>3, <2>4
<1> QED BY <1>5, <1>6

LEMMA InvApply ==
  ASSUME IInv, TypeOK', NEW k \in Ticker, TickApplies(k)
  PROVE  IInv'
<1> DEFINE d == tick[k].delta
<1>0. StoreTypeOK /\ d \in Delta /\ At(k, "decided")
  BY DEF IInv, TypeOK, SupervisorTypeOK, Tick, TickApplies
<1>1. NothingDecided
  <2>1. \E pc \in {"idle", "reap", "dispatch"}, t \in {minted + 1, tick[k].token} : Goto(k, pc, t)
    BY DEF TickApplies, AfterApply
  <2> QED BY <2>1, GotoDecidesNothing DEF IInv
<1>2. DecisionShape'
  BY <1>1 DEF IInv, DecisionShape, NothingDecided, At
<1>3. VerdictsRestOnLog'
  <2> SUFFICES ASSUME NEW j \in Ticker, Verdict(j)'
               PROVE  /\ tick'[j].pre.claim = {<<0, 0>>} /\ tick'[j].pre.status = {"running"}
                      /\ tick'[j].pre.maxEvent # {}
                      /\ \A m \in tick'[j].pre.maxEvent : m <= maxEvent'
                      /\ maxEvent' \in tick'[j].pre.maxEvent => RightNow(tick[j].delta)'
    BY DEF VerdictsRestOnLog
  <2>1. tick'[j] = tick[j] /\ Verdict(j)
    BY <1>1 DEF Verdict, At, NothingDecided
  <2>2. /\ tick[j].pre.claim = {<<0, 0>>} /\ tick[j].pre.status = {"running"}
        /\ tick[j].pre.maxEvent # {} /\ tick[j].pre.maxEvent \subseteq Nat
        /\ \A m \in tick[j].pre.maxEvent : m <= maxEvent
        /\ maxEvent \in tick[j].pre.maxEvent => RightNow(tick[j].delta)
    BY <2>1 DEF IInv, VerdictsRestOnLog, TypeOK, SupervisorTypeOK, Tick, Preconditions
  <2>3. maxEvent \in Nat /\ maxEvent' \in Nat /\ maxEvent <= maxEvent'
    BY <1>0, ApplyEffect DEF TypeOK, StoreTypeOK
  <2>4. \A m \in tick'[j].pre.maxEvent : m <= maxEvent'
    BY <2>1, <2>2, <2>3
  <2>5. ASSUME maxEvent' \in tick'[j].pre.maxEvent
        PROVE  RightNow(tick[j].delta)'
    <3>1. maxEvent' = maxEvent
      BY <2>1, <2>2, <2>3, <2>5
    <3>2. UNCHANGED <<completed, spent, blockers, tasks>>
      BY <3>1, ApplyEffect
    <3>3. RightNow(tick[j].delta)
      BY <2>1, <2>2, <2>5, <3>1
    <3> QED BY <2>1, <3>2, <3>3
            DEF RightNow, OpenBlockers, AnsweredBlockers, PendingTasks, PhasesLeft, NextPhase,
                AttemptsForPhase
  <2> QED BY <2>1, <2>2, <2>4, <2>5
<1>4. PidBelongsToClaim'
  <2>1. CASE d.start = 0
    <3>1. claim' \in {claim, NoClaim}
      BY <2>1, ApplyEffect
    <3> QED BY <3>1 DEF IInv, PidBelongsToClaim, NoClaim, NewClaim
  <2>2. CASE d.start # 0
    <3>1. claim' = NewClaim(minted + 1, d.start)
      BY <2>2, ApplyEffect
    <3> QED BY <3>1 DEF PidBelongsToClaim, NewClaim
  <2> QED BY <2>1, <2>2
<1>5. BudgetRespected'
  <2> SUFFICES ASSUME NEW p \in Phase
               PROVE  Cardinality(spent'[p]) <= MaxAttempts
    BY DEF BudgetRespected, AttemptsForPhase
  <2>1. IsFiniteSet(spent[p]) /\ Cardinality(spent[p]) \in Nat
    BY <1>0, SpentFinite
  <2>2. Cardinality(spent[p]) <= MaxAttempts
    BY DEF IInv, BudgetRespected, AttemptsForPhase
  <2>3. CASE spent'[p] \subseteq spent[p]
    <3>1. Cardinality(spent'[p]) <= Cardinality(spent[p]) /\ Cardinality(spent'[p]) \in Nat
      BY <2>1, <2>3, FS_Subset, FS_CardinalityType
    <3> QED BY <2>1, <2>2, <3>1, MaxAttemptsAssumption
  <2>4. CASE ~(spent'[p] \subseteq spent[p])
    <3>1. d.start = p /\ d.start # 0 /\ spent'[p] \subseteq spent[p] \cup {minted + 1}
      BY <2>4, ApplyEffect
    <3>2. Cardinality(spent[p]) < MaxAttempts
      BY <1>0, <3>1, AppliedVerdictIsRight DEF Verdict, RightNow, AttemptsForPhase
    <3>3. /\ IsFiniteSet(spent[p] \cup {minted + 1})
          /\ \/ Cardinality(spent[p] \cup {minted + 1}) = Cardinality(spent[p])
             \/ Cardinality(spent[p] \cup {minted + 1}) = Cardinality(spent[p]) + 1
      BY <2>1, FS_AddElement
    <3>4. /\ Cardinality(spent'[p]) <= Cardinality(spent[p] \cup {minted + 1})
          /\ IsFiniteSet(spent'[p])
      BY <3>1, <3>3, FS_Subset
    <3>5. Cardinality(spent'[p]) \in Nat
      BY <3>4, FS_CardinalityType
    <3> QED BY <2>1, <3>2, <3>3, <3>4, <3>5, MaxAttemptsAssumption
  <2> QED BY <2>3, <2>4
<1>6. QuietWhenFinished' /\ DoneMeansFinished'
  <2> SUFFICES ASSUME status' \in {"halted", "done"}
               PROVE  /\ ~Claimed' /\ OpenBlockers' = {}
                      /\ status' = "done" => PhasesLeft' = {} /\ PendingTasks' = {}
    BY DEF QuietWhenFinished, DoneMeansFinished
  <2>1. d.start = 0
    <3>1. CASE d.start # 0
      <4>1. status' = status /\ status = "running"
        BY <1>0, <3>1, ApplyEffect, AppliedVerdictIsRight DEF Verdict
      <4> QED BY <4>1
    <3> QED BY <3>1
  <2>2. /\ claim' \in {claim, NoClaim} /\ PendingTasks' = PendingTasks
        /\ PhasesLeft' \subseteq PhasesLeft /\ OpenBlockers' \subseteq OpenBlockers
    BY <2>1, ApplyEffect DEF PendingTasks, PhasesLeft
  <2>3. /\ ~Claimed /\ OpenBlockers = {}
        /\ status' = "done" => PhasesLeft = {} /\ PendingTasks = {}
    <3>1. CASE d.status \in {"halted", "done"}
      <4>1. ~Claimed /\ RightNow(d) /\ status' = d.status
        <5>1. status' = IF d.status = "" THEN status ELSE d.status
          BY DEF TickApplies, ApplyTickDelta
        <5> QED BY <1>0, <3>1, <5>1, AppliedVerdictIsRight DEF Verdict
      <4> QED BY <4>1 DEF RightNow
    <3>2. CASE d.status \notin {"halted", "done"}
      <4>1. status' = status
        BY <3>2 DEF TickApplies, ApplyTickDelta
      <4> QED BY <4>1 DEF IInv, QuietWhenFinished, DoneMeansFinished
    <3> QED BY <3>1, <3>2
  <2>4. ~Claimed'
    BY <2>2, <2>3 DEF Claimed, NoClaim, NewClaim
  <2> QED BY <2>2, <2>3, <2>4
<1> QED BY <1>2, <1>3, <1>4, <1>5, <1>6 DEF IInv

-----------------------------------------------------------------------------
(* The theorems                                                             *)

LEMMA InitInv == Init => IInv
<1> SUFFICES ASSUME Init PROVE IInv
  OBVIOUS
<1>1. TypeOK
  BY InitType
<1>2. DecisionShape /\ VerdictsRestOnLog
  BY DEF Init, SupervisorInit, IdleTick, DecisionShape, VerdictsRestOnLog, Verdict, At
<1>3. PidBelongsToClaim /\ QuietWhenFinished /\ DoneMeansFinished
  BY DEF Init, StoreInit, NoClaim, NewClaim, PidBelongsToClaim, QuietWhenFinished,
         DoneMeansFinished
<1>4. BudgetRespected
  <2>1. \A p \in Phase : spent[p] = {}
    BY DEF Init, StoreInit
  <2>2. Cardinality({}) = 0 /\ 0 <= MaxAttempts
    BY FS_EmptySet, MaxAttemptsAssumption
  <2> QED BY <2>1, <2>2 DEF BudgetRespected, AttemptsForPhase
<1> QED BY <1>1, <1>2, <1>3, <1>4 DEF IInv

LEMMA StepInv == IInv /\ [Next]_vars => IInv'
<1> SUFFICES ASSUME IInv, [Next]_vars PROVE IInv'
  OBVIOUS
<1>1. TypeOK /\ TypeOK'
  BY ActorsType DEF IInv
<1> QED BY <1>1, StepKinds, InvMild, InvDecides, InvApply

\* The invariant all the theorems below rest on holds in every reachable state.
THEOREM Inductive == Spec => []IInv
<1> QED BY InitInv, StepInv, PTL DEF Spec

\* As long as the log has not moved, a verdict taken on a snapshot would be
\* taken again (plan_store.TickPreconditions).
THEOREM VerdictsSound == Spec => []VerdictsRestOnLog
<1>1. IInv => VerdictsRestOnLog
  BY DEF IInv
<1> QED BY <1>1, Inductive, PTL

\* A pid stamped seconds after the claim was made is stamped on that claim or
\* not at all (dispatch._stamp_pid).
THEOREM PidIsOwn == Spec => []PidBelongsToClaim
<1>1. IInv => PidBelongsToClaim
  BY DEF IInv
<1> QED BY <1>1, Inductive, PTL

\* No phase is charged more attempts than the configuration allows, whatever
\* the number of processes that tick the plan.
THEOREM BudgetHolds == Spec => []BudgetRespected
<1>1. IInv => BudgetRespected
  BY DEF IInv
<1> QED BY <1>1, Inductive, PTL

\* A halted or finished plan has no claim and no open question.
THEOREM FinishedIsQuiet == Spec => []QuietWhenFinished
<1>1. IInv => QuietWhenFinished
  BY DEF IInv
<1> QED BY <1>1, Inductive, PTL

\* A plan that says it is done has completed every phase and every task.
THEOREM DoneIsFinished == Spec => []DoneMeansFinished
<1>1. IInv => DoneMeansFinished
  BY DEF IInv
<1> QED BY <1>1, Inductive, PTL

\* A dispatch that is written is right when it is written: the phase is the
\* first that is open, nobody holds the plan and no question is unconsumed.
THEOREM StartsAreRight == Spec => StartsOnlyOpenPhase
<1> DEFINE Right == \A p \in Phase : Starts(p) =>
             /\ status = "running" /\ ~Claimed
             /\ p \notin completed /\ 1..(p - 1) \subseteq completed
             /\ OpenBlockers = {} /\ AnsweredBlockers = {}
<1>1. IInv /\ [Next]_vars => [Right]_vars
  <2> SUFFICES ASSUME IInv, [Next]_vars, NEW p \in Phase, Starts(p)
               PROVE  /\ status = "running" /\ ~Claimed
                      /\ p \notin completed /\ 1..(p - 1) \subseteq completed
                      /\ OpenBlockers = {} /\ AnsweredBlockers = {}
    OBVIOUS
  <2>1. PICK k \in Ticker : TickApplies(k)
    <3>1. ~Mild
      BY DEF Mild, Starts
    <3>2. ~ \E k \in Ticker : TickDecides(k)
      BY DEF TickDecides, TickLeaseExpired, TickWorkerDead, TickEscalate, TickConsume,
             TickHalt, TickDispatch, TickDone, Decide, storeVars, Starts
    <3> QED BY <3>1, <3>2, StepKinds DEF IInv
  <2>2. tick[k].delta.start # 0
    BY <2>1 DEF TickApplies, ApplyTickDelta, Starts
  <2>3. tick[k].delta.start = p
    BY <2>1, <2>2, ApplyEffect DEF NewClaim, Starts
  <2>4. ~Claimed /\ status = "running" /\ RightNow(tick[k].delta)
    BY <2>1, <2>2, AppliedVerdictIsRight DEF Verdict, TickApplies
  <2>5. PhasesLeft # {} /\ p = NextPhase
    BY <2>2, <2>3, <2>4 DEF RightNow
  <2>6. p \in PhasesLeft /\ \A q \in PhasesLeft : p <= q
    BY <2>5, NextPhaseIsFirst
  <2>7. 1..(p - 1) \subseteq completed
    <3> SUFFICES ASSUME NEW q \in 1..(p - 1) PROVE q \in completed
      OBVIOUS
    <3>1. q \in Phase /\ ~(p <= q)
      BY NumPhasesAssumption DEF Phase
    <3> QED BY <2>6, <3>1 DEF PhasesLeft
  <2> QED BY <2>4, <2>6, <2>7 DEF PhasesLeft, RightNow
<1> QED BY <1>1, Inductive, PTL DEF Spec, StartsOnlyOpenPhase

\* A halt that is written finds the phase out of attempts when it is written.
THEOREM HaltsAreRight == Spec => HaltsOnlyWhenSpent
<1> DEFINE Right == status # "halted" /\ status' = "halted" =>
             PhasesLeft # {} /\ AttemptsForPhase(NextPhase) >= MaxAttempts
<1>1. IInv /\ [Next]_vars => [Right]_vars
  <2> SUFFICES ASSUME IInv, [Next]_vars, status # "halted", status' = "halted"
               PROVE  PhasesLeft # {} /\ AttemptsForPhase(NextPhase) >= MaxAttempts
    OBVIOUS
  <2>1. PICK k \in Ticker : TickApplies(k)
    <3>1. ~Mild
      BY DEF Mild
    <3>2. ~ \E k \in Ticker : TickDecides(k)
      BY DEF TickDecides, TickLeaseExpired, TickWorkerDead, TickEscalate, TickConsume,
             TickHalt, TickDispatch, TickDone, Decide, storeVars
    <3> QED BY <3>1, <3>2, StepKinds DEF IInv
  <2>2. tick[k].delta.status = "halted"
    BY <2>1 DEF TickApplies, ApplyTickDelta
  <2> QED BY <2>1, <2>2, AppliedVerdictIsRight DEF Verdict, TickApplies, RightNow
<1> QED BY <1>1, Inductive, PTL DEF Spec, HaltsOnlyWhenSpent

-----------------------------------------------------------------------------
(* What a decision carries                                                  *)

NoCompletions(evts) == \A e \in evts : e.type # "phase_completed"

\* Decisions log no completion, release only if they leave the status alone, and
\* set a plan running whose answers they take.
LedgerShape ==
  \A k \in Ticker : At(k, "decided") =>
    LET delta == tick[k].delta IN
    /\ NoCompletions(delta.events)
    /\ delta.status # "" => ~delta.release
    /\ delta.consume # {} => delta.status = "running"

LEMMA NoCompletionsHere ==
  /\ NoCompletions({}) /\ NoCompletions({Note})
  /\ \A f, p, t : /\ NoCompletions(QuotaDeath(f, t, p))
                  /\ NoCompletions({Note} \cup QuotaDeath(f, t, p))
                  /\ NoCompletions({Ev("phase_started", p, t)})
                  /\ NoCompletions({Ev("retry_requested", p, t)})
                  /\ NoCompletions({Note} \cup {Ev("attempts_reset", p, t)})
                  /\ NoCompletions({Ev("systemic_failure", p, t)})
BY DEF NoCompletions, Note, Ev, QuotaDeath

\* What the seven decisions have in common, seen by the ticker that carries one.
LEMMA DecisionIs ==
  ASSUME TypeOK, NEW k \in Ticker, TickDecides(k)
  PROVE  LET d == tick'[k].delta
             pre == tick'[k].pre
         IN /\ UNCHANGED <<storeVars, worker>>
            /\ \A j \in Ticker \ {k} : tick'[j] = tick[j]
            /\ tick'[k].pc = "decided"
            /\ NoCompletions(d.events)
            /\ d.status # "" => ~d.release
            /\ d.consume # {} => d.status = "running"
            /\ d.release => /\ Claimed /\ pre.claim = SeenClaim
                            /\ \/ pre.lease = SeenLease /\ ClaimLapsed
                               \/ pre.lease = {} /\ WorkerGone
<1>1. ASSUME NEW STATE pre, NEW STATE delta, NEW STATE pid, Decide(k, pre, delta, pid)
      PROVE  /\ UNCHANGED <<storeVars, worker>>
             /\ \A j \in Ticker \ {k} : tick'[j] = tick[j]
             /\ tick'[k].pc = "decided" /\ tick'[k].delta = delta /\ tick'[k].pre = pre
  BY <1>1 DEF Decide, TypeOK, SupervisorTypeOK
<1>2. NoDelta.release = FALSE /\ NoDelta.consume = {} /\ NoDelta.events = {} /\ NoDelta.status = ""
  BY DEF NoDelta
<1>3. CASE TickLeaseExpired(k) \/ TickWorkerDead(k)
  <2>1. PICK forgiven \in BOOLEAN :
          \/ /\ ClaimLapsed
             /\ Decide(k, [NoPre EXCEPT !.claim = SeenClaim, !.lease = SeenLease],
                       ReleaseDelta(forgiven), claim.pid)
          \/ WorkerGone /\ Decide(k, [NoPre EXCEPT !.claim = SeenClaim], ReleaseDelta(forgiven), 0)
    BY <1>3 DEF TickLeaseExpired, TickWorkerDead
  <2> DEFINE d == ReleaseDelta(forgiven)
             a == [NoPre EXCEPT !.claim = SeenClaim, !.lease = SeenLease]
             b == [NoPre EXCEPT !.claim = SeenClaim]
  <2>2. /\ d.status = "" /\ d.consume = {}
        /\ d.events = {Note} \cup QuotaDeath(forgiven, claim.token, claim.phase)
    BY DEF ReleaseDelta, NoDelta
  <2>3. NoCompletions(d.events)
    <3>1. NoCompletions({Note} \cup QuotaDeath(forgiven, claim.token, claim.phase))
      BY NoCompletionsHere
    <3> HIDE DEF d
    <3> QED BY <2>2, <3>1
  <2>4. a.claim = SeenClaim /\ a.lease = SeenLease /\ b.claim = SeenClaim /\ b.lease = {}
    BY DEF NoPre
  <2> HIDE DEF d, a, b
  <2>5. \/ ClaimLapsed /\ Decide(k, a, d, claim.pid)
        \/ WorkerGone /\ Decide(k, b, d, 0)
    BY <2>1 DEF a, b, d
  <2>6. Claimed
    BY <2>1 DEF ClaimLapsed, WorkerGone
  <2>7. CASE ClaimLapsed /\ Decide(k, a, d, claim.pid)
    <3>1. tick'[k].pre = a /\ tick'[k].delta = d
      BY <1>1, <2>7
    <3> QED BY <1>1, <2>2, <2>3, <2>4, <2>6, <2>7, <3>1
  <2>8. CASE WorkerGone /\ Decide(k, b, d, 0)
    <3>1. tick'[k].pre = b /\ tick'[k].delta = d
      BY <1>1, <2>8
    <3> QED BY <1>1, <2>2, <2>3, <2>4, <2>6, <2>8, <3>1
  <2> QED BY <2>5, <2>7, <2>8
<1>4. ASSUME NEW STATE pre, NEW STATE delta, NEW STATE pid, Decide(k, pre, delta, pid),
             delta.release = FALSE, delta.events = {} \/ delta.events = {Note},
             delta.consume # {} => delta.status = "running"
      PROVE  LET d == tick'[k].delta
                 p == tick'[k].pre
             IN /\ UNCHANGED <<storeVars, worker>>
                /\ \A j \in Ticker \ {k} : tick'[j] = tick[j]
                /\ tick'[k].pc = "decided"
                /\ NoCompletions(d.events)
                /\ d.status # "" => ~d.release
                /\ d.consume # {} => d.status = "running"
                /\ d.release => /\ Claimed /\ p.claim = SeenClaim
                                /\ \/ p.lease = SeenLease /\ ClaimLapsed
                                   \/ p.lease = {} /\ WorkerGone
  <2>1. tick'[k].delta = delta /\ NoCompletions(delta.events)
    BY <1>1, <1>4, NoCompletionsHere
  <2> QED BY <1>1, <1>4, <2>1
<1>5. CASE TickEscalate(k)
  <2> DEFINE delta == [NoDelta EXCEPT !.status = "paused", !.events = {Note}]
  <2>1. PICK b \in OpenBlockers :
          Decide(k, [NoPre EXCEPT !.blockers = SeenBlockers({b}), !.status = SeenStatus], delta, 0)
    BY <1>5 DEF TickEscalate
  <2>2. delta.release = FALSE /\ delta.events = {Note} /\ delta.consume = {}
    BY DEF NoDelta
  <2> HIDE DEF delta
  <2> QED BY <1>4, <2>1, <2>2
<1>6. CASE TickConsume(k)
  <2> DEFINE delta == [NoDelta EXCEPT !.consume = AnsweredBlockers, !.status = "running",
                                      !.events = {Note}]
             pre == [NoPre EXCEPT !.blockers = SeenBlockers(AnsweredBlockers), !.status = SeenStatus]
  <2>1. Decide(k, pre, delta, 0)
    BY <1>6 DEF TickConsume
  <2>2. delta.release = FALSE /\ delta.events = {Note} /\ delta.status = "running"
    BY DEF NoDelta
  <2> HIDE DEF delta, pre
  <2> QED BY <1>4, <2>1, <2>2
<1>7. CASE TickHalt(k)
  <2> DEFINE delta == [NoDelta EXCEPT !.status = "halted", !.events = {Note}]
  <2>1. Decide(k, Whole, delta, 0)
    BY <1>7 DEF TickHalt
  <2>2. delta.release = FALSE /\ delta.events = {Note} /\ delta.consume = {}
    BY DEF NoDelta
  <2> HIDE DEF delta
  <2> QED BY <1>4, <2>1, <2>2
<1>8. CASE TickDispatch(k)
  <2> DEFINE delta == [NoDelta EXCEPT !.start = NextPhase]
  <2>1. Decide(k, Whole, delta, 0)
    BY <1>8 DEF TickDispatch
  <2>2. delta.release = FALSE /\ delta.events = {} /\ delta.consume = {}
    BY DEF NoDelta
  <2> HIDE DEF delta
  <2> QED BY <1>4, <2>1, <2>2
<1>9. CASE TickDone(k)
  <2> DEFINE delta == [NoDelta EXCEPT !.status = "done", !.events = {Note}]
  <2>1. Decide(k, Whole, delta, 0)
    BY <1>9 DEF TickDone
  <2>2. delta.release = FALSE /\ delta.events = {Note} /\ delta.consume = {}
    BY DEF NoDelta
  <2> HIDE DEF delta
  <2> QED BY <1>4, <2>1, <2>2
<1> QED BY <1>3, <1>5, <1>6, <1>7, <1>8, <1>9 DEF TickDecides

LEMMA LedgerShapeStep ==
  ASSUME IInv, LedgerShape, [Next]_vars
  PROVE  LedgerShape'
<1>1. TypeOK
  BY DEF IInv
<1>2. CASE NothingDecided
  BY <1>2 DEF NothingDecided, LedgerShape, At
<1>3. ASSUME NEW k \in Ticker, TickDecides(k) PROVE LedgerShape'
  BY <1>1, <1>3, DecisionIs DEF LedgerShape, At
<1>4. ASSUME NEW k \in Ticker, TickApplies(k) PROVE NothingDecided
  <2>1. \E pc \in {"idle", "reap", "dispatch"}, t \in {minted + 1, tick[k].token} : Goto(k, pc, t)
    BY <1>4 DEF TickApplies, AfterApply
  <2> QED BY <1>1, <2>1, GotoDecidesNothing
<1> QED BY <1>1, <1>2, <1>3, <1>4, StepKinds

-----------------------------------------------------------------------------
(* PlanLedger: what the steps mean to it                                    *)

LedgerStep == [Ledger!Next]_(Ledger!ledger)

LEMMA Stutters ==
  ASSUME UNCHANGED <<completed, status, Unconsumed>>, claim'.phase = claim.phase
  PROVE  LedgerStep
BY DEF LedgerStep, Ledger!ledger

LEMMA SetsMode ==
  ASSUME UNCHANGED <<completed, Unconsumed>>, claim'.phase = claim.phase,
         status' \in {"running", "paused"}
  PROVE  LedgerStep
BY DEF LedgerStep, Ledger!Next, Ledger!SetMode

LEMMA GivesUp ==
  ASSUME UNCHANGED <<completed, Unconsumed>>, claim' \in {claim, NoClaim},
         status' \in {status, "paused"}
  PROVE  LedgerStep
<1>1. NoClaim.phase = 0
  BY DEF NoClaim, NewClaim
<1>2. CASE claim'.phase = claim.phase
  BY <1>2, Stutters, SetsMode
<1>3. CASE claim'.phase # claim.phase
  <2>1. claim.phase # 0 /\ claim'.phase = 0
    BY <1>1, <1>3
  <2> QED BY <2>1 DEF LedgerStep, Ledger!Next, Ledger!GiveUp
<1> QED BY <1>2, <1>3

LEMMA LogsNoCompletion ==
  ASSUME NEW STATE evts, NoCompletions(evts), InsertEvents(evts)
  PROVE  completed' = completed
<1>1. \A p \in Phase : ~Logs(evts, {"phase_completed"}, p)
  BY DEF NoCompletions, Logs
<1> QED BY <1>1 DEF InsertEvents

LEMMA LogsCompletion ==
  ASSUME NEW p \in Phase, NEW t, InsertEvents({Ev("phase_completed", p, t)})
  PROVE  completed' = completed \cup {p}
<1>1. \A q \in Phase : Logs({Ev("phase_completed", p, t)}, {"phase_completed"}, q) <=> q = p
  BY DEF Logs, Ev
<1> QED BY <1>1 DEF InsertEvents

LEMMA UnconsumedFollows ==
  UNCHANGED blockers => UNCHANGED Unconsumed
BY DEF Unconsumed

-----------------------------------------------------------------------------
(* PlanLedger: the transactions                                             *)

LEMMA OpGivesUp ==
  ASSUME NEW STATE evts, NoCompletions(evts), NEW STATE t, NEW STATE p, NEW STATE released,
         \/ OpReleaseClaim(t, p, evts) \/ OpReleaseAnyClaim(evts) \/ OpAppendEvents(evts)
         \/ OpSetStatus("paused", evts, released)
  PROVE  LedgerStep
<1>1. /\ InsertEvents(evts) /\ UNCHANGED blockers
      /\ claim' \in {claim, NoClaim} /\ status' \in {status, "paused"}
  BY DEF OpReleaseClaim, OpReleaseAnyClaim, OpAppendEvents, OpSetStatus
<1> QED BY <1>1, LogsNoCompletion, UnconsumedFollows, GivesUp

LEMMA OpSetsMode ==
  ASSUME NEW STATE evts, NoCompletions(evts), NEW s \in {"running", "paused"},
         OpSetStatus(s, evts, FALSE)
  PROVE  LedgerStep
<1>1. InsertEvents(evts) /\ UNCHANGED blockers /\ claim' = claim /\ status' = s
  BY DEF OpSetStatus
<1> QED BY <1>1, LogsNoCompletion, UnconsumedFollows, SetsMode

LEMMA OpKeepsPhase ==
  ASSUME StoreTypeOK, NEW STATE t, NEW STATE p, OpStampPid(t) \/ OpExtendLease(p) \/ LeaseRunsOut
  PROVE  LedgerStep
<1>1. claim \in Claim
  BY ClaimType DEF StoreTypeOK, OpStampPid, OpExtendLease, LeaseRunsOut
<1>2. claim'.phase = claim.phase
  BY <1>1 DEF OpStampPid, OpExtendLease, LeaseRunsOut, Claim
<1>3. UNCHANGED <<status, blockers>>
  BY DEF OpStampPid, OpExtendLease, LeaseRunsOut
<1>4. completed' = completed
  BY LogsNoCompletion, NoCompletionsHere DEF OpStampPid, OpExtendLease, LeaseRunsOut
<1> QED BY <1>2, <1>3, <1>4, UnconsumedFollows, Stutters

LEMMA OpKeepsQuestions ==
  ASSUME StoreTypeOK, NEW STATE t, NEW STATE p,
         \/ OpSpawnTask(t, p)
         \/ \E b \in OpenBlockers : OpAnswerBlocker(b)
         \/ \E i \in PendingTasks : OpCompleteTask(i)
  PROVE  LedgerStep
<1>1. InsertEvents({Note}) /\ UNCHANGED <<status, claim>>
  BY DEF OpSpawnTask, OpAnswerBlocker, OpCompleteTask
<1>2. UNCHANGED Unconsumed
  <2>1. CASE UNCHANGED blockers
    BY <2>1, UnconsumedFollows
  <2>2. CASE \E b \in OpenBlockers : OpAnswerBlocker(b)
    <3>1. PICK b \in OpenBlockers : blockers' = [blockers EXCEPT ![b].state = "answered"]
      BY <2>2 DEF OpAnswerBlocker
    <3>2. \A c \in DOMAIN blockers : blockers[c] \in Blocker
      BY ElementOfSeq, LenProperties DEF StoreTypeOK
    <3>3. b \in DOMAIN blockers /\ blockers[b].state = "open" /\ blockers'[b].state = "answered"
      BY <3>1, <3>2 DEF OpenBlockers, Blocker
    <3>4. /\ DOMAIN blockers' = DOMAIN blockers
          /\ \A c \in DOMAIN blockers : c # b => blockers'[c] = blockers[c]
      BY <3>1
    <3> QED BY <3>3, <3>4 DEF Unconsumed
  <2> QED BY <2>1, <2>2 DEF OpSpawnTask, OpCompleteTask
<1> QED BY <1>1, <1>2, LogsNoCompletion, NoCompletionsHere, Stutters

LEMMA OpAsks ==
  ASSUME StoreTypeOK, NEW STATE t, OpAddBlocker(t, claim.phase)
  PROVE  LedgerStep
<1>1. Claimed /\ claim \in Claim
  BY ClaimType DEF OpAddBlocker, Holds, StoreTypeOK
<1>2. claim.phase # 0
  BY <1>1, NumPhasesAssumption DEF Claim, Phase
<1>3. claim'.phase = 0 /\ status' = status /\ completed' = completed
  BY LogsNoCompletion, NoCompletionsHere DEF OpAddBlocker, NoClaim, NewClaim
<1>4. Unconsumed' # Unconsumed /\ Unconsumed \subseteq Unconsumed'
  <2> DEFINE asked == [phase |-> claim.phase, state |-> "open"]
  <2>1. blockers \in Seq(Blocker) /\ Len(blockers) \in Nat /\ asked \in Blocker
    BY <1>1, LenProperties DEF StoreTypeOK, Blocker, BlockerState, Claim
  <2>2. blockers' = Append(blockers, asked)
    BY DEF OpAddBlocker
  <2>3. /\ Len(blockers') = Len(blockers) + 1
        /\ \A c \in 1..Len(blockers) : blockers'[c] = blockers[c]
        /\ blockers'[Len(blockers) + 1] = asked
        /\ DOMAIN blockers = 1..Len(blockers) /\ DOMAIN blockers' = 1..Len(blockers')
    BY <2>1, <2>2, AppendProperties, LenProperties
  <2>4. Len(blockers) + 1 \in Unconsumed' /\ Len(blockers) + 1 \notin Unconsumed
    BY <2>1, <2>3 DEF Unconsumed
  <2>5. Unconsumed \subseteq Unconsumed'
    BY <2>1, <2>3 DEF Unconsumed
  <2> QED BY <2>4, <2>5
<1> QED BY <1>2, <1>3, <1>4 DEF LedgerStep, Ledger!Next, Ledger!Ask

-----------------------------------------------------------------------------
(* PlanLedger: everybody's steps                                            *)

LEMMA TickerKeepsLedger ==
  ASSUME TypeOK, NEW k \in Ticker,
         \/ TickConflicts(k) \/ TickReaps(k) \/ DispatchFails(k) \/ DispatchNoWorktree(k)
         \/ DispatchSpawns(k) \/ FastFails(k) \/ StampPid(k) \/ TickCrashes(k)
         \/ TickDecides(k)
  PROVE  LedgerStep
<1>1. UNCHANGED storeVars => LedgerStep
  BY Stutters, UnconsumedFollows DEF storeVars
<1>2. CASE TickConflicts(k) \/ DispatchSpawns(k) \/ TickCrashes(k)
  BY <1>1, <1>2 DEF TickConflicts, DispatchSpawns, TickCrashes
<1>3. CASE TickDecides(k)
  BY <1>1, <1>3, DecisionIs
<1>4. ASSUME NEW STATE evts, NoCompletions(evts),
             ReleaseRecording(k, evts) \/ PauseRecording(k, evts)
      PROVE  LedgerStep
  BY <1>4, OpGivesUp DEF ReleaseRecording, PauseRecording
<1>5. CASE TickReaps(k)
  BY <1>5, OpGivesUp, NoCompletionsHere DEF TickReaps
<1>6. CASE DispatchFails(k) \/ DispatchNoWorktree(k)
  BY <1>4, <1>6, NoCompletionsHere DEF DispatchFails, DispatchNoWorktree
<1>7. CASE FastFails(k)
  <2>1. \/ ReleaseRecording(k, QuotaDeath(TRUE, tick[k].token, tick[k].phase))
        \/ PauseRecording(k, {Ev("systemic_failure", tick[k].phase, tick[k].token)})
        \/ ReleaseRecording(k, {Note})
    BY <1>7 DEF FastFails
  <2> QED BY <1>4, <2>1, NoCompletionsHere
<1>8. CASE StampPid(k)
  BY <1>1, <1>8, OpKeepsPhase DEF StampPid, TypeOK
<1> QED BY <1>2, <1>3, <1>5, <1>6, <1>7, <1>8

LEMMA WorkerKeepsLedger ==
  ASSUME TypeOK, NEW t \in Token, WorkerActs(t)
  PROVE  LedgerStep
<1>1. StoreTypeOK
  BY DEF TypeOK
<1>2. CASE WorkerCompletes(t)
  <2>1. OpReleaseClaim(t, claim.phase, {Ev("phase_completed", claim.phase, 0)})
    BY <1>2 DEF WorkerCompletes
  <2>2. Claimed /\ claim \in Claim
    BY <1>1, <2>1, ClaimType DEF OpReleaseClaim, Holds, StoreTypeOK
  <2>3. claim.phase \in Phase /\ claim.phase # 0
    BY <2>2, NumPhasesAssumption DEF Claim, Phase
  <2>4. completed' = completed \cup {claim.phase}
    BY <2>1, <2>3, LogsCompletion DEF OpReleaseClaim
  <2>5. claim'.phase = 0 /\ UNCHANGED <<status, blockers>>
    BY <2>1 DEF OpReleaseClaim, NoClaim, NewClaim
  <2> QED BY <2>3, <2>4, <2>5, UnconsumedFollows DEF LedgerStep, Ledger!Next, Ledger!Complete
<1>3. CASE DaemonReportsDeath(t)
  <2>1. \E f \in BOOLEAN :
          OpReleaseClaim(t, claim.phase, {Note} \cup QuotaDeath(f, t, claim.phase))
    BY <1>3 DEF DaemonReportsDeath
  <2> QED BY <2>1, OpGivesUp, NoCompletionsHere
<1>4. CASE WorkerBlocks(t)
  BY <1>1, <1>4, OpAsks DEF WorkerBlocks
<1>5. CASE WorkerSpawnsTask(t) \/ WorkerFinishesTask(t)
  BY <1>1, <1>5, OpKeepsQuestions DEF WorkerSpawnsTask, WorkerFinishesTask
<1>6. CASE WorkerDies(t)
  BY <1>6, Stutters, UnconsumedFollows DEF WorkerDies, storeVars
<1> QED BY <1>2, <1>3, <1>4, <1>5, <1>6 DEF WorkerActs

LEMMA OperatorKeepsLedger ==
  ASSUME TypeOK, OperatorActs
  PROVE  LedgerStep
<1>0. StoreTypeOK
  BY DEF TypeOK
<1>1. UNCHANGED storeVars => LedgerStep
  BY Stutters, UnconsumedFollows DEF storeVars
<1>2. CASE \/ LooksToPause \/ LooksToResume \/ LooksToExtend \/ LooksToRelease
           \/ \E p \in Phase : LooksToRetry(p) \/ LooksToForceComplete(p)
           \/ OperatorReaps
  BY <1>1, <1>2 DEF LooksToPause, LooksToResume, LooksToExtend, LooksToRelease, LooksToRetry,
              LooksToForceComplete, OperatorReaps, Looks
<1>3. CASE WritesPause \/ WritesResume \/ WritesRetry
  <2>1. \E s \in {"running", "paused"}, evts \in {{Note}, {Ev("retry_requested", op.phase, 0)}} :
          OpSetStatus(s, evts, FALSE) /\ NoCompletions(evts)
    BY <1>3, NoCompletionsHere DEF WritesPause, WritesResume, WritesRetry
  <2> QED BY <2>1, OpSetsMode
<1>4. CASE WritesExtend
  BY <1>0, <1>1, <1>4, OpKeepsPhase DEF WritesExtend
<1>5. CASE WritesRelease
  <2>1. OpReleaseAnyClaim({Note}) \/ OpReleaseAnyClaim({Note} \cup {Ev("attempts_reset", op.phase, 0)})
    BY <1>5 DEF WritesRelease
  <2> QED BY <2>1, OpGivesUp, NoCompletionsHere
<1>6. CASE WritesForceComplete
  <2> DEFINE evts == {Ev("phase_completed", op.phase, 0)}
  <2>1. /\ InsertEvents(evts) /\ UNCHANGED <<status, blockers>>
        /\ claim' \in {claim, NoClaim}
    BY <1>6 DEF WritesForceComplete, OpReleaseAnyClaim, OpAppendEvents
  <2>2. claim'.phase \in {0, claim.phase}
    BY <2>1 DEF NoClaim, NewClaim
  <2>3. CASE op.phase \in Phase
    <3>1. completed' = completed \cup {op.phase}
      BY <2>1, <2>3, LogsCompletion
    <3> QED BY <2>1, <2>2, <2>3, <3>1, UnconsumedFollows
            DEF LedgerStep, Ledger!Next, Ledger!Declare, Ledger!Phase, Phase
  <2>4. CASE op.phase \notin Phase
    <3>1. \A p \in Phase : ~Logs(evts, {"phase_completed"}, p)
      BY <2>4 DEF Logs, Ev
    <3>2. completed' = completed
      BY <2>1, <3>1 DEF InsertEvents
    <3> QED BY <2>1, <3>2, UnconsumedFollows, GivesUp
  <2> QED BY <2>3, <2>4
<1>7. CASE OperatorAnswers \/ OperatorFinishesTask
  BY <1>0, <1>7, OpKeepsQuestions DEF OperatorAnswers, OperatorFinishesTask
<1> QED BY <1>1, <1>2, <1>3, <1>4, <1>5, <1>6, <1>7 DEF OperatorActs

\* A decision that is applied means to the ledger what it meant when it was taken.
LEMMA ApplyKeepsLedger ==
  ASSUME IInv, LedgerShape, NEW k \in Ticker, TickApplies(k)
  PROVE  LedgerStep
<1> DEFINE d == tick[k].delta
<1>1. /\ NoCompletions(d.events)
      /\ d.status # "" => ~d.release
      /\ d.consume # {} => d.status = "running"
      /\ d.start # 0 => d.status = ""
  BY DEF IInv, DecisionShape, LedgerShape, TickApplies
<1>2. /\ StoreTypeOK /\ d \in Delta /\ At(k, "decided") /\ blockers \in Seq(Blocker)
  BY DEF IInv, TypeOK, SupervisorTypeOK, Tick, StoreTypeOK, TickApplies
<1>3. /\ blockers' = [b \in DOMAIN blockers |->
            IF b \in d.consume THEN [blockers[b] EXCEPT !.state = "consumed"] ELSE blockers[b]]
      /\ status' = IF d.status = "" THEN status ELSE d.status
      /\ d.start # 0 => /\ claim' = NewClaim(minted + 1, d.start)
                        /\ InsertEvents(d.events \cup {Ev("phase_started", d.start, minted + 1)})
      /\ d.start = 0 => /\ claim' = IF d.release THEN NoClaim ELSE claim
                        /\ InsertEvents(d.events)
  BY DEF TickApplies, ApplyTickDelta
<1>4. completed' = completed
  <2>1. CASE d.start # 0
    <3>1. NoCompletions({Ev("phase_started", d.start, minted + 1)})
      BY NoCompletionsHere
    <3>2. NoCompletions(d.events \cup {Ev("phase_started", d.start, minted + 1)})
      <4> HIDE DEF d
      <4> QED BY <1>1, <3>1 DEF NoCompletions
    <3> QED BY <1>3, <2>1, <3>2, LogsNoCompletion
  <2>2. CASE d.start = 0
    BY <1>1, <1>3, <2>2, LogsNoCompletion
  <2> QED BY <2>1, <2>2
<1>5. /\ Unconsumed' \subseteq Unconsumed
      /\ d.consume = {} => Unconsumed' = Unconsumed
  <2>1. \A b \in DOMAIN blockers : blockers[b] \in Blocker
    BY <1>2, ElementOfSeq, LenProperties
  <2>2. \A b \in DOMAIN blockers : b \in d.consume => blockers'[b].state = "consumed"
    BY <1>3, <2>1 DEF Blocker
  <2>3. /\ DOMAIN blockers' = DOMAIN blockers
        /\ \A b \in DOMAIN blockers : b \notin d.consume => blockers'[b] = blockers[b]
    BY <1>3
  <2> QED BY <2>2, <2>3 DEF Unconsumed
<1> HIDE DEF d
<1>6. CASE d.start # 0 \/ d.status \in {"halted", "done"}
  <2>1. ~Claimed /\ status = "running" /\ RightNow(d)
    BY <1>2, <1>6, AppliedVerdictIsRight DEF Verdict, d
  <2>2. claim.phase = 0
    BY <1>2, <2>1, Unclaimed DEF StoreTypeOK, NoClaim, NewClaim
  <2>3. Unconsumed = {}
    <3>1. \A b \in DOMAIN blockers : blockers[b] \in Blocker
      BY <1>2, ElementOfSeq, LenProperties
    <3>2. \A b \in DOMAIN blockers : blockers[b].state \in BlockerState
      BY <3>1 DEF Blocker
    <3> QED BY <2>1, <3>2 DEF RightNow, Unconsumed, OpenBlockers, AnsweredBlockers, BlockerState
  <2>4. Ledger!LaneFree /\ Unconsumed' = Unconsumed /\ completed \subseteq Phase
    BY <1>2, <1>5, <2>1, <2>2, <2>3 DEF Ledger!LaneFree, StoreTypeOK
  <2>5. CASE d.start # 0
    <3>1. claim'.phase = d.start /\ status' = status
      <4>1. claim' = NewClaim(minted + 1, d.start) /\ d.status = ""
        BY <1>1, <1>3, <2>5
      <4>2. status' = IF d.status = "" THEN status ELSE d.status
        BY <1>3
      <4> QED BY <4>1, <4>2 DEF NewClaim
    <3>2. d.start \in PhasesLeft /\ \A q \in PhasesLeft : d.start <= q
      BY <2>1, <2>5, NextPhaseIsFirst DEF RightNow
    <3>3. 1..(d.start - 1) \subseteq completed
      <4> SUFFICES ASSUME NEW q \in 1..(d.start - 1) PROVE q \in completed
        OBVIOUS
      <4>1. q \in Phase /\ ~(d.start <= q)
        BY <3>2, NumPhasesAssumption DEF Phase, PhasesLeft
      <4> QED BY <3>2, <4>1 DEF PhasesLeft
    <3>4. d.start \in Ledger!Phase \ completed
      BY <3>2 DEF PhasesLeft, Phase, Ledger!Phase
    <3> QED BY <1>4, <2>4, <3>1, <3>3, <3>4 DEF LedgerStep, Ledger!Next, Ledger!Start
  <2>6. CASE d.start = 0
    <3>1. claim'.phase = claim.phase /\ status' = d.status
      BY <1>1, <1>3, <1>6, <2>6
    <3>2. CASE d.status = "halted"
      <4>1. completed # Phase
        BY <2>1, <3>2 DEF RightNow, PhasesLeft
      <4> QED BY <1>4, <2>4, <3>1, <3>2, <4>1
              DEF LedgerStep, Ledger!Next, Ledger!Halt, Ledger!Phase, Phase
    <3>3. CASE d.status = "done"
      <4>1. completed = Phase
        BY <2>1, <2>4, <3>3 DEF RightNow, PhasesLeft
      <4> QED BY <1>4, <2>4, <3>1, <3>3, <4>1
              DEF LedgerStep, Ledger!Next, Ledger!Finish, Ledger!Phase, Phase
    <3> QED BY <1>6, <2>6, <3>2, <3>3
  <2> QED BY <2>5, <2>6
<1>7. CASE d.start = 0 /\ d.status = ""
  <2>1. claim' \in {claim, NoClaim} /\ status' = status /\ Unconsumed' = Unconsumed
    BY <1>1, <1>3, <1>5, <1>7
  <2> QED BY <1>4, <2>1, GivesUp
<1>8. CASE d.start = 0 /\ d.status \in {"running", "paused"}
  <2>1. claim'.phase = claim.phase /\ status' = d.status
    BY <1>1, <1>3, <1>8
  <2>2. CASE Unconsumed' = Unconsumed
    BY <1>4, <1>8, <2>1, <2>2, SetsMode
  <2>3. CASE Unconsumed' # Unconsumed
    <3>1. status' = "running"
      BY <1>1, <1>5, <2>1, <2>3
    <3> QED BY <1>4, <1>5, <2>1, <2>3, <3>1 DEF LedgerStep, Ledger!Next, Ledger!TakeAnswers
  <2> QED BY <2>2, <2>3
<1>9. d.status \in Status \cup {""}
  BY <1>2 DEF Delta, d
<1> QED BY <1>6, <1>7, <1>8, <1>9 DEF Status

LEMMA StepKeepsLedger ==
  ASSUME IInv, LedgerShape, [Next]_vars
  PROVE  LedgerStep
<1>1. TypeOK
  BY DEF IInv
<1>2. CASE UNCHANGED vars
  BY <1>2, Stutters, UnconsumedFollows DEF vars, storeVars
<1>3. CASE \E t \in Token : WorkerActs(t)
  BY <1>1, <1>3, WorkerKeepsLedger
<1>4. CASE OperatorActs
  BY <1>1, <1>4, OperatorKeepsLedger
<1>5. CASE LeaseRunsOut
  BY <1>1, <1>5, OpKeepsPhase DEF TypeOK
<1>6. CASE SomeoneLogs
  BY <1>6, OpGivesUp, NoCompletionsHere DEF SomeoneLogs
<1>7. CASE \E k \in Ticker : TickerActs(k) \/ TickerCrashes(k)
  BY <1>1, <1>7, TickerKeepsLedger, ApplyKeepsLedger DEF TickerActs, TickerCrashes, TickProceeds
<1> QED BY <1>2, <1>3, <1>4, <1>5, <1>6, <1>7 DEF Next

\* The tickers, workers, daemons and operators, with all their stale snapshots,
\* implement PlanLedger: one lane, in the order of the plan file, stopped by
\* questions, and done when it says it is.
THEOREM KeepsLedger == Spec => ImplementsLedger
<1>1. Init => LedgerShape
  <2>1. Init => \A k \in Ticker : tick[k].pc = "idle"
    BY DEF Init, SupervisorInit, IdleTick
  <2> QED BY <2>1 DEF LedgerShape, At
<1>2. IInv /\ LedgerShape /\ [Next]_vars => LedgerShape'
  BY LedgerShapeStep
<1>3. Init => Ledger!Init
  BY DEF Init, StoreInit, NoClaim, NewClaim, Unconsumed, Ledger!Init
<1>4. IInv /\ LedgerShape /\ [Next]_vars => [Ledger!Next]_(Ledger!ledger)
  BY StepKeepsLedger DEF LedgerStep
<1> QED BY <1>1, <1>2, <1>3, <1>4, Inductive, PTL DEF Spec, ImplementsLedger, Ledger!Spec

-----------------------------------------------------------------------------
(* Live claims: what a release rests on                                     *)

Dispatching(k) == tick[k].pc \in {"dispatch", "fastfail"}

\* The worker of t is not alive and nobody is about to spawn it.
GoneForGood(t) ==
  /\ worker[t] # "alive"
  /\ \A k \in Ticker : At(k, "dispatch") => tick[k].token # t

\* The lease l of token t has run out, if it is still the lease of the claim.
LapsedForGood(t, l) ==
  claim.token = t => l <= claim.lease /\ (claim.lease = l => claim.expired)

\* A token belongs to one dispatch and to one worker, spawned once.
TokensAreOwn ==
  /\ claim.token <= minted
  /\ \A t \in Token : t > minted => worker[t] # "alive"
  /\ \A k \in Ticker : Dispatching(k) => tick[k].token \in 1..minted
  /\ \A j, k \in Ticker :
       j # k /\ Dispatching(j) /\ Dispatching(k) => tick[j].token # tick[k].token
  /\ \A k \in Ticker : At(k, "dispatch") =>
       worker[tick[k].token] # "alive" /\ tick[k].token # claim.pid

\* A decision to release names a claim whose worker is gone for good, or a
\* lease of it that has run out for good.
SoundRelease(k) ==
  \E t \in 1..minted, p \in 0..NumPhases :
    /\ tick[k].pre.claim = {<<t, p>>}
    /\ \/ tick[k].pre.lease = {} /\ GoneForGood(t)
       \/ \E l \in tick[k].pre.lease : tick[k].pre.lease = {l} /\ LapsedForGood(t, l)
ReleasesAreSound ==
  \A k \in Ticker : At(k, "decided") /\ tick[k].delta.release => SoundRelease(k)

LiveInv == TokensAreOwn /\ ReleasesAreSound

\* What a step other than a decision, a dispatch, a spawn or a stamp does.
CalmToClaim ==
  /\ claim'.pid \in {0, claim.pid}
  /\ claim'.token # 0 =>
       /\ claim'.token = claim.token
       /\ \/ claim'.lease > claim.lease
          \/ claim'.lease = claim.lease /\ (claim.expired => claim'.expired)
Calm ==
  /\ minted' = minted
  /\ \A k \in Ticker : tick'[k] = tick[k] \/ tick'[k].pc \in {"idle", "reap"}
  /\ \A t \in Token : worker[t] # "alive" => worker'[t] # "alive"
  /\ CalmToClaim

LEMMA GotoIs ==
  ASSUME TypeOK, NEW k \in Ticker, NEW pc \in {"idle", "reap", "dispatch", "fastfail"},
         NEW STATE t, Goto(k, pc, t)
  PROVE  /\ tick'[k].pc = pc
         /\ pc # "idle" => tick'[k].token = t
         /\ \A j \in Ticker \ {k} : tick'[j] = tick[j]
BY DEF Goto, IdleTick, TypeOK, SupervisorTypeOK

LEMMA LiveTypes ==
  ASSUME TypeOK
  PROVE  /\ minted \in Nat /\ minted <= MaxClaims /\ 1..minted \subseteq Token
         /\ claim.token \in Nat /\ claim.pid \in Nat /\ claim.lease \in Nat
<1>1. minted \in Nat /\ minted <= MaxClaims /\ MaxClaims \in Nat
  BY MaxClaimsAssumption DEF TypeOK, StoreTypeOK
<1>2. claim \in Claim => claim.token \in Nat /\ claim.pid \in Nat /\ claim.lease \in Nat
  BY MaxClaimsAssumption DEF Claim, Token
<1>3. claim = NoClaim => claim.token \in Nat /\ claim.pid \in Nat /\ claim.lease \in Nat
  BY DEF NoClaim, NewClaim
<1> QED BY <1>1, <1>2, <1>3 DEF Token, TypeOK, StoreTypeOK

\* A decision carried on stays sound as long as tokens and leases only move on.
LEMMA SoundRemains ==
  ASSUME TypeOK, NEW k \in Ticker, tick'[k] = tick[k], SoundRelease(k),
         minted' \in {minted, minted + 1},
         \A t \in 1..minted : GoneForGood(t) => GoneForGood(t)',
         \A t \in 1..minted, l \in Nat : LapsedForGood(t, l) => LapsedForGood(t, l)'
  PROVE  SoundRelease(k)'
<1>1. PICK t \in 1..minted, p \in 0..NumPhases :
        /\ tick[k].pre.claim = {<<t, p>>}
        /\ \/ tick[k].pre.lease = {} /\ GoneForGood(t)
           \/ \E l \in tick[k].pre.lease : tick[k].pre.lease = {l} /\ LapsedForGood(t, l)
  BY DEF SoundRelease
<1>2. \A l \in tick[k].pre.lease : l \in Nat
  BY DEF TypeOK, SupervisorTypeOK, Tick, Preconditions
<1>3. t \in 1..minted'
  BY LiveTypes
<1> QED BY <1>1, <1>2, <1>3 DEF SoundRelease

-----------------------------------------------------------------------------
(* Live claims: every kind of step                                          *)

LEMMA CalmKeeps ==
  ASSUME TypeOK, TypeOK', LiveInv, Calm
  PROVE  LiveInv'
<1>1. /\ minted \in Nat /\ 1..minted \subseteq Token
      /\ claim.token \in Nat /\ claim.lease \in Nat /\ claim'.lease \in Nat
  <2>1. claim'.lease \in Nat
    BY DEF TypeOK, StoreTypeOK, Claim, NoClaim, NewClaim
  <2> QED BY <2>1, LiveTypes
<1>2. \A k \in Ticker : tick'[k].pc \in {"dispatch", "fastfail", "decided"} => tick'[k] = tick[k]
  BY DEF Calm
<1>3. \A t \in Token : worker[t] # "alive" => worker'[t] # "alive"
  BY DEF Calm
<1>4. minted' = minted
  BY DEF Calm
<1>5. TokensAreOwn'
  <2>1. claim'.token <= minted'
    BY <1>1, <1>4 DEF LiveInv, TokensAreOwn, Calm, CalmToClaim
  <2>2. \A t \in Token : t > minted' => worker'[t] # "alive"
    BY <1>3, <1>4 DEF LiveInv, TokensAreOwn
  <2>3. \A k \in Ticker : Dispatching(k)' => tick'[k].token \in 1..minted'
    BY <1>2, <1>4 DEF LiveInv, TokensAreOwn, Dispatching
  <2>4. \A j, k \in Ticker :
          j # k /\ Dispatching(j)' /\ Dispatching(k)' => tick'[j].token # tick'[k].token
    BY <1>2 DEF LiveInv, TokensAreOwn, Dispatching
  <2>5. ASSUME NEW k \in Ticker, At(k, "dispatch")'
        PROVE  worker'[tick'[k].token] # "alive" /\ tick'[k].token # claim'.pid
    <3>1. tick'[k] = tick[k] /\ At(k, "dispatch") /\ Dispatching(k)
      BY <1>2, <2>5 DEF At, Dispatching
    <3>2. /\ tick[k].token \in 1..minted
          /\ worker[tick[k].token] # "alive" /\ tick[k].token # claim.pid
      BY <3>1 DEF LiveInv, TokensAreOwn
    <3>3. claim'.pid \in {0, claim.pid}
      BY DEF Calm, CalmToClaim
    <3> QED BY <1>1, <1>3, <3>1, <3>2, <3>3
  <2> QED BY <2>1, <2>2, <2>3, <2>4, <2>5 DEF TokensAreOwn
<1>6. \A t \in 1..minted : GoneForGood(t) => GoneForGood(t)'
  BY <1>1, <1>2, <1>3 DEF GoneForGood, At
<1>7. \A t \in 1..minted, l \in Nat : LapsedForGood(t, l) => LapsedForGood(t, l)'
  BY <1>1 DEF LapsedForGood, Calm, CalmToClaim
<1>8. ReleasesAreSound'
  BY <1>2, <1>4, <1>6, <1>7, SoundRemains DEF LiveInv, ReleasesAreSound, At
<1> QED BY <1>5, <1>8 DEF LiveInv

LEMMA DecideKeeps ==
  ASSUME IInv, TypeOK', LiveInv, NEW k \in Ticker, TickDecides(k)
  PROVE  LiveInv'
<1> DEFINE pre == tick'[k].pre
<1>0. TypeOK
  BY DEF IInv
<1>1. /\ UNCHANGED <<minted, claim, worker>>
      /\ \A j \in Ticker \ {k} : tick'[j] = tick[j]
      /\ tick'[k].pc = "decided"
      /\ tick'[k].delta.release => /\ Claimed /\ pre.claim = SeenClaim
                                   /\ \/ pre.lease = SeenLease /\ ClaimLapsed
                                      \/ pre.lease = {} /\ WorkerGone
  BY <1>0, DecisionIs DEF storeVars
<1>2. /\ minted \in Nat /\ claim.token \in Nat /\ claim.token <= minted /\ claim.lease \in Nat
  BY <1>0, LiveTypes DEF LiveInv, TokensAreOwn
<1> HIDE DEF pre
<1>3. TokensAreOwn'
  BY <1>1 DEF LiveInv, TokensAreOwn, Dispatching, At
<1>4. \A t : GoneForGood(t) => GoneForGood(t)'
  BY <1>1 DEF GoneForGood, At
<1>5. \A t, l : LapsedForGood(t, l) => LapsedForGood(t, l)'
  BY <1>1 DEF LapsedForGood
<1>6. ASSUME tick'[k].delta.release
      PROVE  SoundRelease(k)'
  <2>1. claim \in Claim
    BY <1>0, <1>1, <1>6, ClaimType DEF TypeOK, StoreTypeOK
  <2>2. claim.phase \in 0..NumPhases
    BY <2>1, NumPhasesAssumption DEF Claim, Phase
  <2>3. claim.token \in 1..minted'
    BY <1>1, <1>2, <1>6 DEF Claimed
  <2>4. pre.claim = {<<claim.token, claim.phase>>}
    BY <1>1, <1>6 DEF SeenClaim
  <2>5. CASE pre.lease = SeenLease /\ ClaimLapsed
    <3>1. pre.lease = {claim.lease} /\ claim.expired
      BY <2>5 DEF SeenLease, ClaimLapsed
    <3>2. LapsedForGood(claim.token, claim.lease)
      BY <1>2, <3>1 DEF LapsedForGood
    <3> QED BY <1>5, <2>2, <2>3, <2>4, <3>1, <3>2 DEF SoundRelease, pre
  <2>6. CASE pre.lease = {} /\ WorkerGone
    <3>1. claim.pid = claim.token /\ worker[claim.token] # "alive"
      BY <2>6 DEF WorkerGone, IInv, PidBelongsToClaim
    <3>2. GoneForGood(claim.token)
      BY <3>1 DEF GoneForGood, LiveInv, TokensAreOwn
    <3> QED BY <1>4, <2>2, <2>3, <2>4, <2>6, <3>2 DEF SoundRelease, pre
  <2> QED BY <1>1, <1>6, <2>5, <2>6
<1>7. ASSUME NEW j \in Ticker \ {k}, At(j, "decided")', tick'[j].delta.release
      PROVE  SoundRelease(j)'
  <2>1. tick'[j] = tick[j] /\ SoundRelease(j)
    BY <1>1, <1>7 DEF LiveInv, ReleasesAreSound, At
  <2> QED BY <1>0, <1>1, <1>4, <1>5, <2>1, SoundRemains
<1> QED BY <1>3, <1>6, <1>7 DEF LiveInv, ReleasesAreSound

LEMMA StartKeeps ==
  ASSUME IInv, TypeOK', LiveInv, NEW k \in Ticker, TickApplies(k), tick[k].delta.start # 0
  PROVE  LiveInv'
<1>0. TypeOK
  BY DEF IInv
<1>1. /\ minted \in Nat /\ 1..minted \subseteq Token /\ minted' = minted + 1
      /\ minted + 1 \in Token
  <2>1. minted' = minted + 1 /\ minted' <= MaxClaims
    BY ApplyEffect DEF TypeOK, StoreTypeOK
  <2> QED BY <1>0, <2>1, LiveTypes, MaxClaimsAssumption DEF Token
<1>2. claim'.token = minted + 1 /\ claim'.pid = 0
  BY ApplyEffect DEF NewClaim
<1>3. worker' = worker
  BY DEF TickApplies
<1>4. Goto(k, "dispatch", minted + 1)
  BY DEF TickApplies, AfterApply
<1>5. /\ tick'[k].pc = "dispatch" /\ tick'[k].token = minted + 1
      /\ \A j \in Ticker \ {k} : tick'[j] = tick[j]
  <2>1. "dispatch" \in {"idle", "reap", "dispatch", "fastfail"}
    OBVIOUS
  <2> QED BY <1>0, <1>4, <2>1, GotoIs
<1>6. \A j \in Ticker \ {k} : Dispatching(j)' => tick[j].token \in 1..minted /\ Dispatching(j)
  BY <1>5 DEF LiveInv, TokensAreOwn, Dispatching
<1>7. TokensAreOwn'
  <2>1. claim'.token <= minted'
    BY <1>1, <1>2
  <2>2. \A t \in Token : t > minted' => worker'[t] # "alive"
    <3> SUFFICES ASSUME NEW t \in Token, t > minted' PROVE worker'[t] # "alive"
      OBVIOUS
    <3>1. t > minted
      BY <1>1 DEF Token
    <3> QED BY <1>3, <3>1 DEF LiveInv, TokensAreOwn
  <2>3. \A j \in Ticker : Dispatching(j)' => tick'[j].token \in 1..minted'
    BY <1>1, <1>5, <1>6
  <2>4. \A i, j \in Ticker :
          i # j /\ Dispatching(i)' /\ Dispatching(j)' => tick'[i].token # tick'[j].token
    <3> SUFFICES ASSUME NEW i \in Ticker, NEW j \in Ticker, i # j, Dispatching(i)', Dispatching(j)'
                 PROVE  tick'[i].token # tick'[j].token
      OBVIOUS
    <3>1. CASE i = k
      BY <1>1, <1>5, <1>6, <3>1
    <3>2. CASE j = k
      BY <1>1, <1>5, <1>6, <3>2
    <3>3. CASE i # k /\ j # k
      BY <1>5, <1>6, <3>3 DEF LiveInv, TokensAreOwn
    <3> QED BY <3>1, <3>2, <3>3
  <2>5. ASSUME NEW j \in Ticker, At(j, "dispatch")'
        PROVE  worker'[tick'[j].token] # "alive" /\ tick'[j].token # claim'.pid
    <3>1. CASE j = k
      <4>1. worker[minted + 1] # "alive"
        BY <1>1 DEF LiveInv, TokensAreOwn
      <4> QED BY <1>1, <1>2, <1>3, <1>5, <3>1, <4>1
    <3>2. CASE j # k
      <4>1. tick'[j] = tick[j] /\ At(j, "dispatch") /\ Dispatching(j)
        BY <1>5, <2>5, <3>2 DEF At, Dispatching
      <4>2. tick[j].token \in 1..minted /\ worker[tick[j].token] # "alive"
        BY <4>1 DEF LiveInv, TokensAreOwn
      <4> QED BY <1>1, <1>2, <1>3, <4>1, <4>2
    <3> QED BY <3>1, <3>2
  <2> QED BY <2>1, <2>2, <2>3, <2>4, <2>5 DEF TokensAreOwn
<1>8. \A t \in 1..minted : GoneForGood(t) => GoneForGood(t)'
  BY <1>1, <1>3, <1>5 DEF GoneForGood, At
<1>9. \A t \in 1..minted, l \in Nat : LapsedForGood(t, l)'
  BY <1>1, <1>2 DEF LapsedForGood
<1>10. ReleasesAreSound'
  <2> SUFFICES ASSUME NEW j \in Ticker, At(j, "decided")', tick'[j].delta.release
               PROVE  SoundRelease(j)'
    BY DEF ReleasesAreSound
  <2>1. tick'[j] = tick[j] /\ SoundRelease(j)
    BY <1>5 DEF LiveInv, ReleasesAreSound, At
  <2> QED BY <1>0, <1>1, <1>8, <1>9, <2>1, SoundRemains
<1> QED BY <1>7, <1>10 DEF LiveInv

LEMMA SpawnKeeps ==
  ASSUME TypeOK, TypeOK', LiveInv, NEW k \in Ticker, DispatchSpawns(k)
  PROVE  LiveInv'
<1> DEFINE own == tick[k].token
<1>1. minted \in Nat /\ 1..minted \subseteq Token /\ UNCHANGED <<minted, claim>>
  BY LiveTypes DEF DispatchSpawns, storeVars
<1>2. At(k, "dispatch") /\ Dispatching(k) /\ own \in 1..minted
  BY DEF DispatchSpawns, Dispatching, At, LiveInv, TokensAreOwn
<1>3. /\ tick'[k].pc = "fastfail" /\ tick'[k].token = own
      /\ \A j \in Ticker \ {k} : tick'[j] = tick[j]
  <2>1. Goto(k, "fastfail", own) /\ "fastfail" \in {"idle", "reap", "dispatch", "fastfail"}
    BY DEF DispatchSpawns
  <2> QED BY <2>1, GotoIs
<1>4. \A t \in Token \ {own} : worker'[t] = worker[t]
  BY DEF DispatchSpawns, TypeOK, SupervisorTypeOK
<1>5. \A j \in Ticker \ {k} : Dispatching(j) => tick[j].token \in 1..minted /\ tick[j].token # own
  BY <1>2 DEF LiveInv, TokensAreOwn
<1> HIDE DEF own
<1>6. TokensAreOwn'
  <2>1. claim'.token <= minted'
    BY <1>1 DEF LiveInv, TokensAreOwn
  <2>2. \A t \in Token : t > minted' => worker'[t] # "alive"
    BY <1>1, <1>2, <1>4 DEF LiveInv, TokensAreOwn
  <2>3. \A j \in Ticker : Dispatching(j)' => tick'[j].token \in 1..minted'
    BY <1>1, <1>2, <1>3, <1>5 DEF Dispatching
  <2>4. \A i, j \in Ticker :
          i # j /\ Dispatching(i)' /\ Dispatching(j)' => tick'[i].token # tick'[j].token
    <3> SUFFICES ASSUME NEW i \in Ticker, NEW j \in Ticker, i # j, Dispatching(i)', Dispatching(j)'
                 PROVE  tick'[i].token # tick'[j].token
      OBVIOUS
    <3>1. CASE i = k
      BY <1>3, <1>5, <3>1 DEF Dispatching
    <3>2. CASE j = k
      BY <1>3, <1>5, <3>2 DEF Dispatching
    <3>3. CASE i # k /\ j # k
      BY <1>3, <3>3 DEF LiveInv, TokensAreOwn, Dispatching
    <3> QED BY <3>1, <3>2, <3>3
  <2>5. ASSUME NEW j \in Ticker, At(j, "dispatch")'
        PROVE  worker'[tick'[j].token] # "alive" /\ tick'[j].token # claim'.pid
    <3>1. j # k /\ tick'[j] = tick[j] /\ At(j, "dispatch") /\ Dispatching(j)
      BY <1>3, <2>5 DEF At, Dispatching
    <3>2. worker[tick[j].token] # "alive" /\ tick[j].token # claim.pid
      BY <3>1 DEF LiveInv, TokensAreOwn
    <3> QED BY <1>1, <1>4, <1>5, <3>1, <3>2
  <2> QED BY <2>1, <2>2, <2>3, <2>4, <2>5 DEF TokensAreOwn
<1>7. ASSUME NEW t \in 1..minted, GoneForGood(t) PROVE GoneForGood(t)'
  <2>1. t # own
    BY <1>2, <1>7 DEF GoneForGood, own
  <2> QED BY <1>1, <1>3, <1>4, <1>7, <2>1 DEF GoneForGood, At
<1>8. \A t, l : LapsedForGood(t, l) => LapsedForGood(t, l)'
  BY <1>1 DEF LapsedForGood
<1>9. ReleasesAreSound'
  <2> SUFFICES ASSUME NEW j \in Ticker, At(j, "decided")', tick'[j].delta.release
               PROVE  SoundRelease(j)'
    BY DEF ReleasesAreSound
  <2>1. tick'[j] = tick[j] /\ SoundRelease(j)
    BY <1>3 DEF LiveInv, ReleasesAreSound, At
  <2> QED BY <1>1, <1>7, <1>8, <2>1, SoundRemains
<1> QED BY <1>6, <1>9 DEF LiveInv

LEMMA StampKeeps ==
  ASSUME TypeOK, TypeOK', LiveInv, NEW k \in Ticker, StampPid(k), OpStampPid(tick[k].token)
  PROVE  LiveInv'
<1>1. /\ minted \in Nat /\ UNCHANGED <<minted, worker>>
  BY LiveTypes DEF StampPid, OpStampPid
<1>2. claim \in Claim
  BY ClaimType DEF OpStampPid, TypeOK, StoreTypeOK
<1>3. /\ claim'.token = claim.token /\ claim'.pid = tick[k].token
      /\ claim'.lease = claim.lease /\ claim'.expired = claim.expired
  BY <1>2 DEF OpStampPid, Claim
<1>4. /\ tick'[k].pc = "idle"
      /\ \A j \in Ticker \ {k} : tick'[j] = tick[j]
  BY GotoIs DEF StampPid
<1>5. \A j \in Ticker \ {k} : At(j, "dispatch") => tick[j].token # tick[k].token
  BY DEF LiveInv, TokensAreOwn, StampPid, At, Dispatching
<1>6. TokensAreOwn'
  BY <1>1, <1>3, <1>4, <1>5 DEF LiveInv, TokensAreOwn, Dispatching, At
<1>7. \A t : GoneForGood(t) => GoneForGood(t)'
  BY <1>1, <1>4 DEF GoneForGood, At
<1>8. \A t, l : LapsedForGood(t, l) => LapsedForGood(t, l)'
  BY <1>3 DEF LapsedForGood
<1>9. ReleasesAreSound'
  <2> SUFFICES ASSUME NEW j \in Ticker, At(j, "decided")', tick'[j].delta.release
               PROVE  SoundRelease(j)'
    BY DEF ReleasesAreSound
  <2>1. tick'[j] = tick[j] /\ SoundRelease(j)
    BY <1>4 DEF LiveInv, ReleasesAreSound, At
  <2> QED BY <1>1, <1>7, <1>8, <2>1, SoundRemains
<1> QED BY <1>6, <1>9 DEF LiveInv

-----------------------------------------------------------------------------
(* Live claims: who takes which kind of step                                *)

LEMMA ClaimCalm ==
  ASSUME TypeOK, \/ claim' \in {claim, NoClaim}
                 \/ LeaseRunsOut \/ \E p \in 0..NumPhases : OpExtendLease(p)
  PROVE  CalmToClaim
<1>1. claim.lease \in Nat
  BY LiveTypes
<1>2. CASE claim' \in {claim, NoClaim}
  BY <1>2 DEF CalmToClaim, NoClaim, NewClaim
<1>3. CASE LeaseRunsOut \/ \E p \in 0..NumPhases : OpExtendLease(p)
  <2>1. claim \in Claim
    BY <1>3, ClaimType DEF TypeOK, StoreTypeOK, LeaseRunsOut, OpExtendLease
  <2>2. CASE LeaseRunsOut
    BY <2>1, <2>2 DEF LeaseRunsOut, Claim, CalmToClaim
  <2>3. CASE \E p \in 0..NumPhases : OpExtendLease(p)
    <3>1. claim' = [claim EXCEPT !.lease = @ + 1, !.expired = FALSE]
      BY <2>3 DEF OpExtendLease
    <3>2. /\ claim'.pid = claim.pid /\ claim'.token = claim.token
          /\ claim'.lease = claim.lease + 1
      BY <2>1, <3>1 DEF Claim
    <3> QED BY <1>1, <3>2 DEF CalmToClaim
  <2> QED BY <1>3, <2>2, <2>3
<1> QED BY <1>2, <1>3

LEMMA KillCalm ==
  ASSUME TypeOK, NEW t \in 0..MaxClaims, worker' \in {worker, Kill(t)}
  PROVE  \A w \in Token : worker[w] # "alive" => worker'[w] # "alive"
BY DEF TypeOK, SupervisorTypeOK, Kill

LEMMA CalmTick ==
  ASSUME TypeOK, NEW k \in Ticker,
         \/ TickConflicts(k) \/ TickReaps(k) \/ DispatchFails(k) \/ DispatchNoWorktree(k)
         \/ FastFails(k) \/ TickCrashes(k)
         \/ StampPid(k) /\ UNCHANGED claim
         \/ TickApplies(k) /\ tick[k].delta.start = 0
  PROVE  Calm
<1>1. \A j \in Ticker : tick'[j] = tick[j] \/ tick'[j].pc \in {"idle", "reap"}
  <2>1. \E pc \in {"idle", "reap"}, t \in {0, tick[k].token} : Goto(k, pc, t)
    BY DEF TickConflicts, TickReaps, DispatchFails, DispatchNoWorktree, FastFails, StampPid,
           TickCrashes, TickApplies, AfterApply
  <2>2. PICK pc \in {"idle", "reap"} : \E t \in {0, tick[k].token} : Goto(k, pc, t)
    BY <2>1
  <2>3. tick'[k].pc = pc /\ \A j \in Ticker \ {k} : tick'[j] = tick[j]
    BY <2>2, GotoIs
  <2> QED BY <2>3
<1>2. tick[k].token \in 0..MaxClaims
  BY DEF TypeOK, SupervisorTypeOK, Tick
<1>3. worker' \in {worker, Kill(tick[k].token)}
  BY DEF TickConflicts, TickReaps, DispatchFails, DispatchNoWorktree, FastFails, StampPid,
         TickCrashes, TickApplies
<1>4. minted' = minted /\ claim' \in {claim, NoClaim}
  BY DEF TickConflicts, TickReaps, DispatchFails, DispatchNoWorktree, FastFails, StampPid,
         TickCrashes, TickApplies, ApplyTickDelta, OpAppendEvents, ReleaseRecording,
         PauseRecording, OpReleaseClaim, OpSetStatus, OpStampPid, storeVars
<1> QED BY <1>1, <1>2, <1>3, <1>4, KillCalm, ClaimCalm DEF Calm

LEMMA CalmOther ==
  ASSUME TypeOK, UNCHANGED tick,
         \/ \E t \in Token : WorkerActs(t)
         \/ OperatorActs \/ LeaseRunsOut \/ SomeoneLogs
  PROVE  Calm
<1>1. \A j \in Ticker : tick'[j] = tick[j]
  OBVIOUS
<1>2. minted' = minted
  <2>1. CASE \E t \in Token : WorkerActs(t)
    BY <2>1, WorkerMild DEF Mild
  <2>2. CASE OperatorActs
    BY <2>2, OperatorMild DEF Mild
  <2> QED BY <2>1, <2>2 DEF LeaseRunsOut, SomeoneLogs, OpAppendEvents
<1>3. CalmToClaim
  <2>1. CASE \E t \in Token : WorkerActs(t)
    <3>1. claim' \in {claim, NoClaim}
      BY <2>1 DEF WorkerActs, WorkerCompletes, WorkerBlocks, WorkerSpawnsTask, WorkerFinishesTask,
                  WorkerDies, DaemonReportsDeath, OpReleaseClaim, OpAddBlocker, OpSpawnTask,
                  OpCompleteTask, storeVars
    <3> QED BY <3>1, ClaimCalm
  <2>2. CASE OperatorActs
    <3>1. op.phase \in 0..NumPhases
      BY DEF TypeOK, Op
    <3>2. CASE WritesExtend
      BY <3>1, <3>2, ClaimCalm DEF WritesExtend, storeVars
    <3>3. CASE ~WritesExtend
      <4>1. claim' \in {claim, NoClaim}
        BY <2>2, <3>3
           DEF OperatorActs, LooksToPause, LooksToResume, LooksToExtend, LooksToRelease,
               LooksToRetry, LooksToForceComplete, Looks, OperatorReaps, WritesPause, WritesResume,
               WritesRetry, WritesRelease, WritesForceComplete, OperatorAnswers,
               OperatorFinishesTask, OpSetStatus, OpReleaseAnyClaim, OpAppendEvents,
               OpAnswerBlocker, OpCompleteTask, storeVars
      <4> QED BY <4>1, ClaimCalm
    <3> QED BY <3>2, <3>3
  <2>3. CASE LeaseRunsOut
    BY <2>3, ClaimCalm
  <2>4. CASE SomeoneLogs
    BY <2>4, ClaimCalm DEF SomeoneLogs, OpAppendEvents
  <2> QED BY <2>1, <2>2, <2>3, <2>4
<1>4. \A w \in Token : worker[w] # "alive" => worker'[w] # "alive"
  <2>1. \E t \in 0..MaxClaims : worker' \in {worker, Kill(t)}
    <3>1. CASE \E t \in Token : WorkerActs(t)
      <4>1. \E t \in Token : worker' \in {worker, Kill(t)}
        BY <3>1 DEF WorkerActs, WorkerCompletes, WorkerBlocks, WorkerSpawnsTask,
                    WorkerFinishesTask, WorkerDies, DaemonReportsDeath, WorkerOnly
      <4> QED BY <4>1, MaxClaimsAssumption DEF Token
    <3>2. CASE OperatorActs
      <4>1. worker' \in {worker, Kill(op.kill)}
        BY <3>2 DEF OperatorActs, LooksToPause, LooksToResume, LooksToExtend, LooksToRelease,
               LooksToRetry, LooksToForceComplete, Looks, OperatorReaps, WritesPause, WritesResume,
               WritesRetry, WritesRelease, WritesForceComplete, WritesExtend, Writes,
               OperatorAnswers, OperatorFinishesTask
      <4>2. op.kill \in 0..MaxClaims
        BY DEF TypeOK, Op
      <4> QED BY <4>1, <4>2
    <3>3. CASE LeaseRunsOut \/ SomeoneLogs
      <4>1. worker' = worker /\ 0 \in 0..MaxClaims
        BY <3>3, MaxClaimsAssumption DEF LeaseRunsOut, SomeoneLogs
      <4> QED BY <4>1
    <3> QED BY <3>1, <3>2, <3>3
  <2> QED BY <2>1, KillCalm
<1> QED BY <1>1, <1>2, <1>3, <1>4 DEF Calm

LEMMA LiveInvStep ==
  ASSUME IInv, LiveInv, [Next]_vars
  PROVE  LiveInv'
<1>1. TypeOK /\ TypeOK'
  BY ActorsType DEF IInv
<1>2. CASE UNCHANGED vars
  BY <1>2 DEF vars, storeVars, LiveInv, TokensAreOwn, ReleasesAreSound, SoundRelease,
              Dispatching, At, GoneForGood, LapsedForGood
<1>3. CASE \E t \in Token : WorkerActs(t)
  BY <1>1, <1>3, WorkerMild, CalmOther, CalmKeeps
<1>4. CASE OperatorActs
  BY <1>1, <1>4, OperatorMild, CalmOther, CalmKeeps
<1>5. CASE LeaseRunsOut \/ SomeoneLogs
  <2>1. UNCHANGED tick
    BY <1>5 DEF LeaseRunsOut, SomeoneLogs
  <2> QED BY <1>1, <1>5, <2>1, CalmOther, CalmKeeps
<1>6. ASSUME NEW k \in Ticker, TickerActs(k) \/ TickerCrashes(k) PROVE LiveInv'
  <2>1. CASE TickDecides(k)
    BY <1>1, <2>1, DecideKeeps
  <2>2. CASE TickApplies(k)
    BY <1>1, <2>2, StartKeeps, CalmTick, CalmKeeps
  <2>3. CASE DispatchSpawns(k)
    BY <1>1, <2>3, SpawnKeeps
  <2>4. CASE StampPid(k)
    <3>1. OpStampPid(tick[k].token) \/ UNCHANGED claim
      BY <2>4 DEF StampPid, storeVars
    <3> QED BY <1>1, <2>4, <3>1, StampKeeps, CalmTick, CalmKeeps
  <2>5. CASE \/ TickConflicts(k) \/ TickReaps(k) \/ DispatchFails(k) \/ DispatchNoWorktree(k)
             \/ FastFails(k) \/ TickCrashes(k)
    <3>1. Calm
      BY <1>1, <2>5, CalmTick
    <3> QED BY <1>1, <3>1, CalmKeeps
  <2> QED BY <1>6, <2>1, <2>2, <2>3, <2>4, <2>5 DEF TickerActs, TickerCrashes, TickProceeds
<1> QED BY <1>2, <1>3, <1>4, <1>5, <1>6 DEF Next

\* Of the steps that move a ticker, those that take a claim find its worker
\* dead, not yet born, or out of its lease.
LEMMA LiveClaimKept ==
  ASSUME IInv, LiveInv, [Next]_vars, tick' # tick,
         Claimed, worker[claim.token] = "alive", ~claim.expired
  PROVE  claim'.token = claim.token
<1>1. TypeOK
  BY DEF IInv
<1>2. PICK k \in Ticker : TickerActs(k) \/ TickerCrashes(k)
  <2>1. ~ \E t \in Token : WorkerActs(t)
    BY <1>1, WorkerMild
  <2>2. ~OperatorActs
    BY <1>1, OperatorMild
  <2> QED BY <2>1, <2>2 DEF Next, vars, LeaseRunsOut, SomeoneLogs
<1>3. CASE TickDecides(k)
  BY <1>1, <1>3, DecisionIs DEF storeVars
<1>4. CASE TickConflicts(k) \/ TickReaps(k) \/ DispatchSpawns(k) \/ TickCrashes(k)
  BY <1>4 DEF TickConflicts, TickReaps, OpAppendEvents, DispatchSpawns, TickCrashes, storeVars
<1>5. CASE StampPid(k)
  <2>1. CASE OpStampPid(tick[k].token)
    <3>1. claim \in Claim
      BY <1>1, ClaimType DEF TypeOK, StoreTypeOK
    <3> QED BY <2>1, <3>1 DEF OpStampPid, Claim
  <2> QED BY <1>5, <2>1 DEF StampPid, storeVars
<1>6. CASE DispatchFails(k) \/ DispatchNoWorktree(k) \/ FastFails(k)
  <2>1. worker[tick[k].token] # "alive"
    BY <1>6 DEF DispatchFails, DispatchNoWorktree, FastFails, LiveInv, TokensAreOwn
  <2>2. ~Holds(tick[k].token, tick[k].phase)
    BY <2>1 DEF Holds
  <2>3. claim' = claim
    BY <1>6, <2>2 DEF DispatchFails, DispatchNoWorktree, FastFails, ReleaseRecording,
                      PauseRecording, OpReleaseClaim, OpAppendEvents, OpSetStatus
  <2> QED BY <2>3
<1>7. CASE TickApplies(k)
  <2>1. /\ At(k, "decided") /\ AssertPreconditions(tick[k].pre)
        /\ \/ tick[k].delta.start # 0
           \/ tick[k].delta.start = 0 /\ claim' = IF tick[k].delta.release THEN NoClaim ELSE claim
    BY <1>7 DEF TickApplies, ApplyTickDelta
  <2>2. CASE tick[k].delta.start # 0
    BY <1>7, <2>1, <2>2, AppliedVerdictIsRight DEF Verdict
  <2>3. CASE tick[k].delta.release
    <3>1. PICK t \in 1..minted, p \in 0..NumPhases :
            /\ tick[k].pre.claim = {<<t, p>>}
            /\ \/ tick[k].pre.lease = {} /\ GoneForGood(t)
               \/ \E l \in tick[k].pre.lease : tick[k].pre.lease = {l} /\ LapsedForGood(t, l)
      BY <2>1, <2>3 DEF LiveInv, ReleasesAreSound, SoundRelease
    <3>2. claim.token = t
      <4>1. <<t, p>> = <<claim.token, claim.phase>>
        BY <2>1, <3>1 DEF AssertPreconditions, SeenClaim
      <4> QED BY <4>1
    <3>3. CASE GoneForGood(t)
      BY <3>2, <3>3 DEF GoneForGood
    <3>4. ASSUME NEW l \in tick[k].pre.lease, LapsedForGood(t, l)
          PROVE  FALSE
      <4>1. l = claim.lease
        BY <2>1, <3>4 DEF AssertPreconditions, SeenLease
      <4> QED BY <3>2, <3>4, <4>1 DEF LapsedForGood
    <3> QED BY <3>1, <3>3, <3>4
  <2>4. CASE tick[k].delta.start = 0 /\ ~tick[k].delta.release
    BY <2>1, <2>4
  <2> QED BY <2>2, <2>3, <2>4
<1> QED BY <1>2, <1>3, <1>4, <1>5, <1>6, <1>7 DEF TickerActs, TickerCrashes, TickProceeds

\* What a release rests on is still true when it is written, and no token is
\* dispatched twice.
THEOREM LiveInductive == Spec => []LiveInv
<1>1. Init => LiveInv
  <2>1. Init => /\ \A k \in Ticker : tick[k].pc = "idle"
                /\ \A t \in Token : worker[t] = "none"
    BY DEF Init, SupervisorInit, IdleTick
  <2>2. Init => claim.token = 0 /\ minted = 0
    BY DEF Init, StoreInit, NoClaim, NewClaim
  <2> QED BY <2>1, <2>2 DEF LiveInv, TokensAreOwn, ReleasesAreSound, Dispatching, At
<1>2. IInv /\ LiveInv /\ [Next]_vars => LiveInv'
  BY LiveInvStep
<1> QED BY <1>1, <1>2, Inductive, PTL DEF Spec

\* No step of a tick or a dispatch takes the claim of a worker that is alive and
\* within its lease, however old the snapshot is the release was decided on.
THEOREM LiveClaimsSurvive == Spec => LiveClaimSurvivesTicks
<1> DEFINE Kept == tick' # tick /\ Claimed /\ worker[claim.token] = "alive" /\ ~claim.expired
                     => claim'.token = claim.token
<1>1. IInv /\ LiveInv /\ [Next]_vars => [Kept]_vars
  BY LiveClaimKept
<1> QED BY <1>1, Inductive, LiveInductive, PTL DEF Spec, LiveClaimSurvivesTicks

-----------------------------------------------------------------------------
(* The claim seen from outside                                              *)

Claims == INSTANCE ClaimTable WITH Plan <- {0}, holder <- [p \in {0} |-> claim.token]
ClaimStep == [Claims!Next]_(Claims!claimTable)

\* What a step may do to the plan's row of the table.
LEMMA RowMoves ==
  ASSUME \/ UNCHANGED minted /\ claim'.token \in {0, claim.token}
         \/ claim.token = 0 /\ minted' = minted + 1 /\ claim'.token = minted + 1
  PROVE  ClaimStep
<1>1. CASE UNCHANGED minted /\ claim'.token = claim.token
  BY <1>1 DEF ClaimStep, Claims!claimTable
<1>2. CASE UNCHANGED minted /\ claim'.token = 0 /\ claim.token # 0
  BY <1>2 DEF ClaimStep, Claims!Next, Claims!GiveUp
<1>3. CASE claim.token = 0 /\ minted' = minted + 1 /\ claim'.token = minted + 1
  BY <1>3 DEF ClaimStep, Claims!Next, Claims!Take
<1> QED BY <1>1, <1>2, <1>3

LEMMA StepKeepsClaims == IInv /\ [Next]_vars => ClaimStep
<1> SUFFICES ASSUME IInv, [Next]_vars PROVE ClaimStep
  OBVIOUS
<1>1. NoClaim.token = 0 /\ \A p : NewClaim(minted + 1, p).token = minted + 1
  BY DEF NoClaim, NewClaim
<1>2. TypeOK
  BY DEF IInv
<1>3. CASE Mild
  <2>1. UNCHANGED minted /\ claim'.token \in {0, claim.token}
    BY <1>3 DEF Mild, MildToClaim, Claimed
  <2> QED BY <2>1, RowMoves
<1>4. ASSUME NEW k \in Ticker, TickDecides(k) PROVE ClaimStep
  <2>1. UNCHANGED <<claim, minted>>
    BY <1>4 DEF TickDecides, TickLeaseExpired, TickWorkerDead, TickEscalate, TickConsume,
                TickHalt, TickDispatch, TickDone, Decide, storeVars
  <2> QED BY <2>1, RowMoves
<1>5. ASSUME NEW k \in Ticker, TickApplies(k) PROVE ClaimStep
  <2>1. CASE tick[k].delta.start = 0
    <3>1. claim' \in {claim, NoClaim}
      BY <1>5, <2>1, ApplyEffect
    <3>2. UNCHANGED minted
      BY <1>5, <2>1, Zenon DEF TickApplies, ApplyTickDelta
    <3> QED BY <1>1, <3>1, <3>2, RowMoves
  <2>2. CASE tick[k].delta.start # 0
    <3>1. minted' = minted + 1 /\ claim'.token = minted + 1
      BY <1>1, <1>5, <2>2, ApplyEffect
    <3>2. claim.token = 0
      BY <1>5, <2>2, AppliedVerdictIsRight DEF Verdict, TickApplies, Claimed
    <3> QED BY <3>1, <3>2, RowMoves
  <2> QED BY <2>1, <2>2
<1> QED BY <1>2, <1>3, <1>4, <1>5, StepKinds

\* Tickers that race for a dispatch, callbacks, daemons and the operator keep to
\* the table of claims (ClaimTable): a claim is made only where there is none when
\* it is written, however old the snapshot is that found none.
THEOREM KeepsClaims == Spec => Claims!Spec
<1>1. Init => Claims!Init
  BY DEF Init, StoreInit, NoClaim, NewClaim, Claims!Init
<1>2. IInv /\ [Next]_vars => [Claims!Next]_(Claims!claimTable)
  BY StepKeepsClaims DEF ClaimStep
<1> QED BY <1>1, <1>2, Inductive, PTL DEF Spec, Claims!Spec
=============================================================================
