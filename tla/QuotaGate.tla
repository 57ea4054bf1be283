----------------------------- MODULE QuotaGate -----------------------------
(***************************************************************************)
(* The quota pause of one project (quota.py): a worker that the account's   *)
(* usage limit killed pauses every plan of the project until the limit      *)
(* resets; then one plan goes first, the canary, and the rest follow when   *)
(* it has lived for a while.                                                *)
(*                                                                          *)
(* The pause is one row of the project's database.  It is written and       *)
(* judged in transactions of their own, apart from those that release or    *)
(* make a claim, by the ticks of every plan and by the daemons the workers  *)
(* leave behind.  Times are kept as what is left of them.                   *)
(***************************************************************************)
EXTENDS Integers, FiniteSets

CONSTANTS
  Plan,          \* plans of the project, each with a phase to dispatch
  Nobody,        \* no canary
  Day,           \* the length of a day
  Reset,         \* the time of day at which the message says the limit resets
  Buffer,        \* PAUSE_BUFFER_SEC
  Window,        \* CANARY_WINDOW_SEC
  MaxClaims,     \* bound: claims a behaviour may make
  MaxDeaths,     \* bound: workers the quota kills
  MaxFaults      \* bound: crashes, busy or unreadable databases, operator commands

ASSUME NobodyAssumption == Nobody \notin Plan
ASSUME TimesAssumption ==
  Day \in Nat \ {0} /\ Reset \in 0..(Day - 1) /\ Buffer \in Nat /\ Window \in Nat \ {0}
ASSUME BoundsAssumption == MaxClaims \in Nat /\ MaxDeaths \in Nat /\ MaxFaults \in Nat

VARIABLES
  clock,     \* time of day
  pause,     \* the row of table quota, or NoPause
  claim,     \* per plan, the token of its claim, 0 if none
  fate,      \* per token, what its worker came to
  minted,    \* claims made
  forgiven,  \* tokens with a quota_death event
  proc,      \* the processes: a tick and a daemon for every plan
  left,      \* what is left of the bounds on the environment
  probes,    \* observed: plans the pause let through since it was written, ...
  recorded   \* ... and tokens whose death has written a pause

vars == <<clock, pause, claim, fate, minted, forgiven, proc, left, probes, recorded>>

Token == 1..MaxClaims
Far   == Day + Buffer
Stuck == Far + 1                     \* paused_until is NULL
Pause == [until : 0..Stuck, canary : Plan \cup {Nobody}, deadline : 0..Window]
NoPause == [until |-> -1, canary |-> Nobody, deadline |-> 0]
Paused  == pause # NoPause
NewPause(until) == [until |-> until, canary |-> Nobody, deadline |-> 0]

\* "limit" and "garbled" are deaths by quota, with a reset time in the log or
\* one nobody can parse; "gone" is every other end of a worker.
Fate == {"none", "runs", "limit", "garbled", "gone"}
QuotaDeaths == {"limit", "garbled"}

Process == Plan \X {"tick", "daemon"}
PC == {"idle", "gate", "pass", "fastfail", "record", "release"}
Proc == [pc : PC, token : 0..MaxClaims, fast : BOOLEAN, seen : Pause \cup {NoPause}]
Idle == [pc |-> "idle", token |-> 0, fast |-> FALSE, seen |-> NoPause]
At(k, pc) == proc[k].pc = pc
Goto(k, pc, t, fast) ==
  proc' = [proc EXCEPT ![k] = [Idle EXCEPT !.pc = pc, !.token = t, !.fast = fast]]
Ends(k) == proc' = [proc EXCEPT ![k] = Idle]

Init ==
  /\ clock = 0
  /\ pause = NoPause
  /\ claim = [p \in Plan |-> 0]
  /\ fate = [t \in Token |-> "none"]
  /\ minted = 0
  /\ forgiven = {}
  /\ proc = [k \in Process |-> Idle]
  /\ left = [deaths |-> MaxDeaths, faults |-> MaxFaults]
  /\ probes = {} /\ recorded = {}

planVars == <<claim, fate, minted, forgiven>>

-----------------------------------------------------------------------------
(* A death is seen, the pause is written, the claim is released             *)

\* The supervisor (a lease that lapsed, a pid that is gone) or the daemon
\* reads the claim and the tail of its worker's log.
SeesDeath(k, p) ==
  /\ At(k, "idle")
  /\ claim[p] # 0 /\ fate[claim[p]] # "runs"
  /\ Goto(k, IF fate[claim[p]] \in QuotaDeaths THEN "record" ELSE "release",
          claim[p], FALSE)
  /\ UNCHANGED <<clock, pause, planVars, left, probes, recorded>>

\* The dispatcher waits for its worker; if it died with a quota message the
\* same record is made, otherwise it is a failed dispatch.
SeesFastFail(k) ==
  LET t == proc[k].token IN
  /\ At(k, "fastfail")
  /\ \/ fate[t] \in QuotaDeaths /\ Goto(k, "record", t, TRUE)
     \/ fate[t] = "gone" /\ Goto(k, "release", t, TRUE)
     \/ fate[t] \in {"runs", "gone"} /\ Ends(k)
  /\ UNCHANGED <<clock, pause, planVars, left, probes, recorded>>

\* Plausible bug: a reset time that is over for today is not tomorrow's.
UntilResetToday == Reset - clock

\* parse_reset: the next time the clock shows the reset time, counted from now
\* and not from when the worker died.
UntilReset == IF Reset > clock THEN Reset - clock ELSE Day - clock + Reset

\* record_quota_pause: the row is replaced, whatever it was.
RecordsPause(k) ==
  LET t == proc[k].token IN
  /\ At(k, "record")
  /\ pause' = NewPause(IF fate[t] = "limit" THEN UntilReset + Buffer ELSE Stuck)
  /\ Goto(k, "release", t, proc[k].fast)
  /\ probes' = {} /\ recorded' = recorded \cup {t}
  /\ UNCHANGED <<clock, planVars, left>>

\* Plausible bug: the plan's events are written before the project's pause.
ReleasesFirst(k, p) ==
  LET t == proc[k].token IN
  /\ proc[k].pc \in {"record", "release"}
  /\ claim' = IF claim[p] = t THEN [claim EXCEPT ![p] = 0] ELSE claim
  /\ forgiven' = IF claim[p] = t /\ fate[t] \in QuotaDeaths THEN forgiven \cup {t} ELSE forgiven
  /\ Ends(k)
  /\ UNCHANGED <<clock, pause, fate, minted, left, probes, recorded>>

\* The release is a compare-and-set, and the events that forgive the attempt go
\* with it; only the dispatcher's are written without the release if the claim
\* has moved.
Releases(k, p) ==
  LET t == proc[k].token
      ours == claim[p] = t
  IN /\ At(k, "release")
     /\ claim' = IF ours THEN [claim EXCEPT ![p] = 0] ELSE claim
     /\ forgiven' = IF fate[t] \in QuotaDeaths /\ (ours \/ proc[k].fast)
                    THEN forgiven \cup {t} ELSE forgiven
     /\ Ends(k)
     /\ UNCHANGED <<clock, pause, fate, minted, left, probes, recorded>>

-----------------------------------------------------------------------------
(* The gate                                                                 *)

\* A tick whose plan has a phase to dispatch asks the gate: first one read, and
\* without a row nothing more.
AsksGate(k, p) ==
  /\ At(k, "idle") /\ claim[p] = 0
  /\ proc' = [proc EXCEPT ![k] = [Idle EXCEPT !.pc = IF Paused THEN "gate" ELSE "pass",
                                              !.seen = pause]]
  /\ UNCHANGED <<clock, pause, planVars, left, probes, recorded>>

Lets(k, p) == Goto(k, "pass", 0, FALSE)
Holds(k)   == Ends(k) /\ UNCHANGED <<pause, probes>>

\* Plausible bug: the canary asks whether it is the canary before it asks
\* whether its window is over.
JudgesCanaryFirst(k, p, row) ==
  \/ row = NoPause /\ Lets(k, p) /\ UNCHANGED <<pause, probes>>
  \/ row # NoPause /\ row.until > 0 /\ Holds(k)
  \/ /\ row.until = 0 /\ row.canary = Nobody
     /\ pause' = [row EXCEPT !.canary = p, !.deadline = Window]
     /\ probes' = probes \cup {p}
     /\ Lets(k, p)
  \/ /\ row.until = 0 /\ row.canary = p
     /\ Lets(k, p)
     /\ UNCHANGED <<pause, probes>>
  \/ /\ row.until = 0 /\ row.canary \notin {p, Nobody} /\ row.deadline = 0
     /\ pause' = NoPause /\ probes' = {}
     /\ Lets(k, p)
  \/ /\ row.until = 0 /\ row.canary \notin {p, Nobody} /\ row.deadline > 0
     /\ Holds(k)

\* What the gate does with a row: what row it reads is what the callers differ in.
Judges(k, p, row) ==
  \/ row = NoPause /\ Lets(k, p) /\ UNCHANGED <<pause, probes>>
  \/ row # NoPause /\ row.until > 0 /\ Holds(k)
  \/ /\ row.until = 0 /\ row.canary = Nobody
     /\ pause' = [row EXCEPT !.canary = p, !.deadline = Window]
     /\ probes' = probes \cup {p}
     /\ Lets(k, p)
  \/ /\ row.until = 0 /\ row.canary # Nobody /\ row.deadline = 0
     /\ pause' = NoPause /\ probes' = {}
     /\ Lets(k, p)
  \/ /\ row.until = 0 /\ row.canary = p /\ row.deadline > 0
     /\ Lets(k, p)
     /\ UNCHANGED <<pause, probes>>
  \/ /\ row.until = 0 /\ row.canary \notin {p, Nobody} /\ row.deadline > 0
     /\ Holds(k)

\* Plausible bug: the row is judged as the first read found it.
GateDecidesStale(k, p) ==
  /\ At(k, "gate")
  /\ Judges(k, p, proc[k].seen)
  /\ UNCHANGED <<clock, planVars, left, recorded>>

\* _decide_in_txn: the row is read again where it may be written.
GateDecides(k, p) ==
  /\ At(k, "gate")
  /\ Judges(k, p, pause)
  /\ UNCHANGED <<clock, planVars, left, recorded>>

Faults == left.faults > 0 /\ left' = [left EXCEPT !.faults = @ - 1]

\* A store that cannot be read, or a row whose fields cannot, lets the plan through
\* and writes nothing, whichever of the two reads it is.
GateDegrades(k, p) ==
  /\ At(k, "gate") \/ (At(k, "idle") /\ claim[p] = 0)
  /\ Faults /\ Lets(k, p)
  /\ UNCHANGED <<clock, pause, planVars, probes, recorded>>

\* The claim is made if the plan is still unclaimed; apply_tick_delta may also
\* refuse because something was logged meanwhile.
Dispatches(k, p) ==
  /\ At(k, "pass")
  /\ \/ /\ claim[p] = 0 /\ minted < MaxClaims
        /\ minted' = minted + 1
        /\ claim' = [claim EXCEPT ![p] = minted + 1]
        /\ fate' = [fate EXCEPT ![minted + 1] = "runs"]
        /\ Goto(k, "fastfail", minted + 1, FALSE)
     \/ /\ Ends(k)
        /\ UNCHANGED <<claim, fate, minted>>
  /\ UNCHANGED <<clock, pause, forgiven, left, probes, recorded>>

-----------------------------------------------------------------------------
(* The environment                                                          *)

WorkerCompletes(p) ==
  /\ claim[p] # 0 /\ fate[claim[p]] = "runs"
  /\ fate' = [fate EXCEPT ![claim[p]] = "gone"]
  /\ claim' = [claim EXCEPT ![p] = 0]
  /\ UNCHANGED <<clock, pause, minted, forgiven, proc, left, probes, recorded>>

WorkerDies(t) ==
  /\ fate[t] = "runs"
  /\ \/ fate' = [fate EXCEPT ![t] = "gone"] /\ UNCHANGED left
     \/ /\ left.deaths > 0 /\ left' = [left EXCEPT !.deaths = @ - 1]
        /\ \E how \in QuotaDeaths : fate' = [fate EXCEPT ![t] = how]
  /\ UNCHANGED <<clock, pause, claim, minted, forgiven, proc, probes, recorded>>

Less(n) == IF n > 0 THEN n - 1 ELSE 0
TimePasses ==
  /\ clock' = (clock + 1) % Day
  /\ pause' = IF Paused
              THEN [pause EXCEPT !.until = IF @ = Stuck THEN @ ELSE Less(@),
                                 !.deadline = Less(@)]
              ELSE pause
  /\ UNCHANGED <<planVars, proc, left, probes, recorded>>

\* A process dies, or its database is busy (the gate idles, the tick is lost).
Crashes(k) ==
  /\ ~At(k, "idle")
  /\ Faults /\ Ends(k)
  /\ UNCHANGED <<clock, pause, planVars, probes, recorded>>

\* clu quota clear
OperatorClears ==
  /\ Paused
  /\ Faults /\ pause' = NoPause /\ probes' = {}
  /\ UNCHANGED <<clock, planVars, proc, recorded>>

-----------------------------------------------------------------------------
Ticks(p) == LET k == <<p, "tick">> IN
  \/ SeesDeath(k, p) \/ RecordsPause(k) \/ Releases(k, p)
  \/ AsksGate(k, p) \/ GateDecides(k, p) \/ GateDegrades(k, p)
  \/ Dispatches(k, p) \/ SeesFastFail(k)
DaemonReports(p) == LET k == <<p, "daemon">> IN
  SeesDeath(k, p) \/ RecordsPause(k) \/ Releases(k, p)

Next ==
  \/ \E p \in Plan : Ticks(p) \/ DaemonReports(p) \/ WorkerCompletes(p)
  \/ \E t \in Token : WorkerDies(t)
  \/ \E k \in Process : Crashes(k)
  \/ TimePasses \/ OperatorClears

Spec == Init /\ [][Next]_vars

\* Cron ticks every plan and a tick ends; daemons and workers owe nothing.
FairSpec == Spec /\ WF_vars(TimePasses) /\ \A p \in Plan : WF_vars(Ticks(p))

-----------------------------------------------------------------------------
\* Every variable keeps its type.
TypeOK ==
  /\ clock \in 0..(Day - 1)
  /\ pause \in Pause \cup {NoPause}
  /\ claim \in [Plan -> 0..MaxClaims]
  /\ fate \in [Token -> Fate]
  /\ minted \in 0..MaxClaims
  /\ forgiven \subseteq Token /\ recorded \subseteq Token
  /\ proc \in [Process -> Proc]
  /\ left \in [deaths : 0..MaxDeaths, faults : 0..MaxFaults]
  /\ probes \subseteq Plan

\* While a pause stands at most one plan was let through it, the one whose name
\* it carries: plans that ask at the same moment do not all go first, and one
\* that asked before a new pause was written does not pass the new one.  (A gate that
\* cannot read the pause lets its plan through unseen: GateDegrades.)
OneProbe == probes = (IF Paused THEN {pause.canary} \ {Nobody} ELSE {})

\* An attempt is forgiven only once the pause it calls for was written: no crash
\* in between leaves a phase that is dispatched into the limit for ever.
ForgivenWasRecorded == forgiven \subseteq recorded

\* A pause with a reset time ends: it is lifted, replaced by a stuck one, or all
\* plans have a worker.
PausesEnd ==
  (Paused /\ pause.until # Stuck)
    ~> ~Paused \/ pause.until = Stuck \/ \A p \in Plan : claim[p] # 0
=============================================================================
