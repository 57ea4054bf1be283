----------------------------- MODULE PlanStore -----------------------------
(***************************************************************************)
(* The plan database of clu (plan_store.py): the rows of ONE plan and the   *)
(* write transactions against them.  Every operator Op... below is one      *)
(* BEGIN IMMEDIATE transaction, so it is one atomic step; who runs it, and  *)
(* what that process read beforehand, belongs to the modules that extend    *)
(* this one.                                                                *)
(*                                                                          *)
(* The event log is kept as the three things the program derives from it:   *)
(* the largest event id, the set of completed phases and, per phase, the    *)
(* claim tokens that count against its attempt budget.                      *)
(***************************************************************************)
EXTENDS Integers, Sequences, FiniteSets

CONSTANTS
  NumPhases,     \* phases in the plan file's Sessions index, in file order
  MaxClaims      \* bound: claim tokens a behaviour may mint

ASSUME NumPhasesAssumption == NumPhases \in Nat \ {0}
ASSUME MaxClaimsAssumption == MaxClaims \in Nat \ {0}

Phase  == 1..NumPhases
Token  == 1..MaxClaims    \* state.claim_phase mints a fresh random token
Status == {"running", "paused", "halted", "done"}

BlockerState == {"open", "answered", "consumed"}
Blocker == [phase : Phase, state : BlockerState]
Task    == [phase : Phase, state : {"pending", "done"}]

\* The event types some decision reads back; every other event is "note".
EventType == {"phase_started", "phase_completed", "retry_requested",
              "attempts_reset", "systemic_failure", "quota_death", "note"}
Event == [type : EventType, phase : 0..NumPhases, token : 0..MaxClaims]

Ev(type, p, t) == [type |-> type, phase |-> p, token |-> t]
Note == Ev("note", 0, 0)

VARIABLES
  status,      \* plans.status
  claim,       \* the plan's row in claims, or NoClaim
  minted,      \* how many tokens have been minted: the next one is minted + 1
  maxEvent,    \* MAX(events.id) of this plan
  completed,   \* phases with a phase_completed event
  spent,       \* per phase, the tokens attempts_for_phase counts
  blockers,    \* rows of blockers, in id order (q-1, q-2, ...)
  tasks        \* rows of spawned_tasks, in id order

storeVars == <<status, claim, minted, maxEvent, completed, spent, blockers, tasks>>

\* A claim row.  pid is the token of the worker whose pid is stamped (0: none
\* yet), lease counts the writes of lease_expires, expired says that
\* lease_expires has passed.
Claim == [token : Token, phase : Phase, pid : 0..MaxClaims, lease : Nat,
          expired : BOOLEAN]
NewClaim(t, p) == [token |-> t, phase |-> p, pid |-> 0, lease |-> 0, expired |-> FALSE]
NoClaim == NewClaim(0, 0)

Claimed     == claim.token # 0
Holds(t, p) == Claimed /\ claim.token = t /\ claim.phase = p   \* _CLAIM_CAS

OpenBlockers == {b \in DOMAIN blockers : blockers[b].state = "open"}
PendingTasks == {i \in DOMAIN tasks : tasks[i].state = "pending"}

StoreInit ==
  /\ status = "running"
  /\ claim = NoClaim
  /\ minted = 0
  /\ maxEvent = 0
  /\ completed = {}
  /\ spent = [p \in Phase |-> {}]
  /\ blockers = <<>>
  /\ tasks = <<>>

-----------------------------------------------------------------------------
(* Events and what is derived from them                                     *)

Logs(evts, types, p) == \E e \in evts : e.type \in types /\ e.phase = p
TokensIn(evts, types, p) ==
  {t \in Token : \E e \in evts : e.type \in types /\ e.phase = p /\ e.token = t}

\* Plausible bug: a retry is recorded where the tick's high-water mark, MAX(id),
\* does not look.
InsertEventsRetryUnseen(evts) ==
  /\ maxEvent' = IF \A e \in evts : e.type = "retry_requested" THEN maxEvent ELSE maxEvent + 1
  /\ completed' = completed \cup {p \in Phase : Logs(evts, {"phase_completed"}, p)}
  /\ spent' = [p \in Phase |->
       IF Logs(evts, {"retry_requested", "attempts_reset"}, p) THEN {}
       ELSE (spent[p] \cup TokensIn(evts, {"phase_started"}, p))
              \ TokensIn(evts, {"systemic_failure", "quota_death"}, p)]

\* One transaction appends evts: the ids grow past every earlier id, and the
\* projections completed_phase_ids and attempts_for_phase move accordingly.
InsertEvents(evts) ==
  /\ maxEvent' = IF evts = {} THEN maxEvent ELSE maxEvent + 1
  /\ completed' = completed \cup {p \in Phase : Logs(evts, {"phase_completed"}, p)}
  /\ spent' = [p \in Phase |->
       IF Logs(evts, {"retry_requested", "attempts_reset"}, p) THEN {}
       ELSE (spent[p] \cup TokensIn(evts, {"phase_started"}, p))
              \ TokensIn(evts, {"systemic_failure", "quota_death"}, p)]

AttemptsForPhase(p) == Cardinality(spent[p])

-----------------------------------------------------------------------------
(* Token-guarded and operator transactions                                  *)

\* op_release_claim with a token and a phase: compare-and-set.
OpReleaseClaim(t, p, evts) ==
  /\ Holds(t, p)
  /\ claim' = NoClaim
  /\ InsertEvents(evts)
  /\ UNCHANGED <<status, minted, blockers, tasks>>

\* op_release_claim without them: whatever claim is there goes.
OpReleaseAnyClaim(evts) ==
  /\ claim' = NoClaim
  /\ InsertEvents(evts)
  /\ UNCHANGED <<status, minted, blockers, tasks>>

OpAppendEvents(evts) ==
  /\ InsertEvents(evts)
  /\ UNCHANGED <<status, claim, minted, blockers, tasks>>

\* Plausible bug: the stamp goes to whatever claim is there.
OpStampPidUnguarded(t) ==
  /\ Claimed
  /\ claim' = [claim EXCEPT !.pid = t]
  /\ UNCHANGED <<status, minted, maxEvent, completed, spent, blockers, tasks>>

\* The dispatcher's stamp: compare-and-set on the token alone.
OpStampPid(t) ==
  /\ Claimed /\ claim.token = t
  /\ claim' = [claim EXCEPT !.pid = t]
  /\ UNCHANGED <<status, minted, maxEvent, completed, spent, blockers, tasks>>

\* Plausible bug: the question is recorded and the release is left to a
\* transaction of its own.
OpAddBlockerKeepingClaim(t, p) ==
  /\ Holds(t, p)
  /\ blockers' = Append(blockers, [phase |-> p, state |-> "open"])
  /\ InsertEvents({Note})
  /\ UNCHANGED <<status, claim, minted, tasks>>

\* clu block: the release and the question are one transaction.
OpAddBlocker(t, p) ==
  /\ Holds(t, p)
  /\ claim' = NoClaim
  /\ blockers' = Append(blockers, [phase |-> p, state |-> "open"])
  /\ InsertEvents({Note})
  /\ UNCHANGED <<status, minted, tasks>>

OpAnswerBlocker(b) ==
  /\ b \in OpenBlockers
  /\ blockers' = [blockers EXCEPT ![b].state = "answered"]
  /\ InsertEvents({Note})
  /\ UNCHANGED <<status, claim, minted, tasks>>

OpSpawnTask(t, p) ==
  /\ Holds(t, p)
  /\ tasks' = Append(tasks, [phase |-> p, state |-> "pending"])
  /\ InsertEvents({Note})
  /\ UNCHANGED <<status, claim, minted, blockers>>

\* Idempotent on a finished task, so only the pending case changes anything.
OpCompleteTask(i) ==
  /\ i \in PendingTasks
  /\ tasks' = [tasks EXCEPT ![i].state = "done"]
  /\ InsertEvents({Note})
  /\ UNCHANGED <<status, claim, minted, blockers>>

\* op_set_status asks nothing of the current status; released says whether the
\* caller's token and phase released the claim in the same transaction.
OpSetStatus(s, evts, released) ==
  /\ status' = s
  /\ claim' = IF released THEN NoClaim ELSE claim
  /\ InsertEvents(evts)
  /\ UNCHANGED <<minted, blockers, tasks>>

\* Compare-and-set on the phase; the new expiry is in the future.
OpExtendLease(p) ==
  /\ Claimed /\ claim.phase = p
  /\ claim' = [claim EXCEPT !.lease = @ + 1, !.expired = FALSE]
  /\ InsertEvents({Note})
  /\ UNCHANGED <<status, minted, blockers, tasks>>

-----------------------------------------------------------------------------
(* The supervisor's snapshot -> detect -> apply                             *)

\* TickPreconditions.  Each field is an option: {} is UNCHECKED, a singleton
\* is the value the tick observed.  blockers holds <<id, state>> pairs.
Preconditions == [claim    : SUBSET ((0..MaxClaims) \X (0..NumPhases)),
                  lease    : SUBSET Nat,
                  maxEvent : SUBSET Nat,
                  blockers : SUBSET (Nat \X BlockerState),
                  status   : SUBSET Status]
NoPre == [claim |-> {}, lease |-> {}, maxEvent |-> {}, blockers |-> {}, status |-> {}]

\* What snapshot_with_preconditions observed: TickDelta's require_... methods
\* each copy one of these into the preconditions of a decision.
SeenClaim   == {<<claim.token, claim.phase>>}
SeenLease   == {claim.lease}
SeenLog     == {maxEvent}
SeenStatus  == {status}
SeenBlockers(B) == {<<b, blockers[b].state>> : b \in B}

AssertPreconditions(pre) ==
  /\ pre.claim \subseteq SeenClaim
  /\ pre.lease # {} => Claimed /\ pre.lease \subseteq SeenLease
  /\ pre.maxEvent \subseteq SeenLog
  /\ pre.blockers \subseteq SeenBlockers(DOMAIN blockers)
  /\ pre.status \subseteq SeenStatus

\* TickDelta: everything one tick decided to write.  status "" and start 0
\* mean that the decision leaves the status alone and claims no phase.
Delta == [release : BOOLEAN, status : Status \cup {""}, consume : SUBSET Nat,
          start : 0..NumPhases, events : SUBSET Event]
NoDelta == [release |-> FALSE, status |-> "", consume |-> {}, start |-> 0, events |-> {}]

\* Plausible bug: the status is written though the delta leaves it alone.
ApplyTickDeltaStatusAlways(delta) ==
  /\ status' = delta.status
  /\ claim' = IF delta.release THEN NoClaim ELSE claim
  /\ InsertEvents(delta.events)
  /\ UNCHANGED <<minted, blockers, tasks>>

\* The write half of apply_tick_delta.  A dispatch mints its token and its
\* phase_started event in the same transaction (_claim_in_txn).
ApplyTickDelta(delta) ==
  /\ blockers' = [b \in DOMAIN blockers |->
        IF b \in delta.consume THEN [blockers[b] EXCEPT !.state = "consumed"]
                               ELSE blockers[b]]
  /\ status' = IF delta.status = "" THEN status ELSE delta.status
  /\ \/ /\ delta.start # 0
        /\ minted < MaxClaims
        /\ minted' = minted + 1
        /\ claim' = NewClaim(minted + 1, delta.start)
        /\ InsertEvents(delta.events
                          \cup {Ev("phase_started", delta.start, minted + 1)})
     \/ /\ delta.start = 0
        /\ claim' = IF delta.release THEN NoClaim ELSE claim
        /\ InsertEvents(delta.events)
        /\ UNCHANGED minted
  /\ UNCHANGED tasks

-----------------------------------------------------------------------------
StoreTypeOK ==
  /\ status \in Status
  /\ claim \in Claim \cup {NoClaim}
  /\ minted \in 0..MaxClaims
  /\ maxEvent \in Nat
  /\ completed \in SUBSET Phase
  /\ spent \in [Phase -> SUBSET Token]
  /\ blockers \in Seq(Blocker)
  /\ tasks \in Seq(Task)
=============================================================================
