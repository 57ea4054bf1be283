----------------------------- MODULE Watchdogs -----------------------------
(***************************************************************************)
(* What watches over a worker while it holds its plan's claim: its heartbeat *)
(* daemon (heartbeat_daemon.py), the notices a supervisor tick emits beside   *)
(* its decision (supervisor.py: stalled claim, stuck tool, idle worker,       *)
(* stalled phase), and the worker's own words (clu activity, clu quiet-span). *)
(*                                                                           *)
(* A tick reads the claim, looks at the processes for a while, and writes     *)
(* what it decided if the claim fields it relied on have not moved.  Ages are *)
(* kept as which side of their threshold they are on.  The plan is running    *)
(* throughout and its next claim is made by some tick (PlanLifecycle models   *)
(* the rest of the decision).                                                 *)
(***************************************************************************)
EXTENDS Integers, FiniteSets

CONSTANTS
  Ticker,        \* ticks that may overlap: from cron, pushed by a callback
  Need,          \* samples that span worker_idle_window_minutes
  StrikeLimit,   \* STRIKE_LIMIT
  MaxClaims,     \* bound: claims a behaviour may make
  MaxCalls,      \* bound: tool calls and quiet spans of a worker
  MaxFaults      \* bound: crashes, busy databases, unreadable ps, late crons

ASSUME ThresholdsAssumption == Need \in Nat \ {0} /\ StrikeLimit \in Nat \ {0}
ASSUME BoundsAssumption ==
  MaxClaims \in Nat \ {0} /\ MaxCalls \in Nat /\ MaxFaults \in Nat

VARIABLES
  claim,     \* the row of table claims, or NoClaim
  minted,    \* claims made
  worker,    \* per token, what its worker is doing
  daemon,    \* per token, its heartbeat daemon
  proc,      \* the ticks
  used,      \* what is used up of the bounds
  told,      \* observed: what the log says of the claim, ...
  repeated   \* ... and what it says twice

vars == <<claim, minted, worker, daemon, proc, used, told, repeated>>

Token == 1..MaxClaims
Stamp == {"none", "fresh", "old"}
\* heart is "start" while last_heartbeat_at = started_at.  n samples of the
\* processor clock stand without a hole and alike; busy says that the clock has
\* moved since the last.  A tool call past its threshold may have left a process
\* that hangs.
Claim ==
  [token : Token, expired : BOOLEAN, heart : {"start", "fresh", "old"},
   stalled : BOOLEAN, tool : Stamp, hung : BOOLEAN, stuck : BOOLEAN,
   span : {"none", "active", "over"}, n : 0..Need, busy : BOOLEAN,
   idle : BOOLEAN, failing : BOOLEAN]
NewClaim(t) ==
  [token |-> t, expired |-> FALSE, heart |-> "start", stalled |-> FALSE,
   tool |-> "none", hung |-> FALSE, stuck |-> FALSE, span |-> "none",
   n |-> 0, busy |-> FALSE, idle |-> FALSE, failing |-> FALSE]
NoClaim == [NewClaim(1) EXCEPT !.token = 0]
Claimed == claim.token # 0
Worker == {"none", "works", "wedged", "dead"}
Daemon == [on : BOOLEAN, strikes : 0..StrikeLimit]

\* A tick between its look and its write: the token it saw, what it says, the
\* samples it would write (0 if it took none), whether it saw the tool and the
\* span unset, and what has moved since of the fields it relies on.  worked and
\* overtaken are observed: a step of the worker, a tool call since the look.
Notice == {"stalled_claim", "stuck", "idle", "stalled", "failing", "lease_expired", "dead"}
Field  == {"claim", "expired", "heart", "stalled", "tool", "span", "samples", "idle", "stuck"}
Proc == [pc : {"off", "apply"}, token : 0..MaxClaims, says : SUBSET Notice, n : 0..Need,
         unset : SUBSET {"tool", "span"}, moved : SUBSET Field,
         worked : BOOLEAN, overtaken : BOOLEAN]
Off == [pc |-> "off", token |-> 0, says |-> {}, n |-> 0, unset |-> {}, moved |-> {},
        worked |-> FALSE, overtaken |-> FALSE]
Void == [Off EXCEPT !.pc = "apply", !.moved = {"claim"}]

Init ==
  /\ claim = NoClaim /\ minted = 0
  /\ worker = [t \in Token |-> "none"]
  /\ daemon = [t \in Token |-> [on |-> FALSE, strikes |-> 0]]
  /\ proc = [k \in Ticker |-> Off]
  /\ used = [calls |-> 0, faults |-> 0]
  /\ told = {} /\ repeated = {}

Fault == used.faults < MaxFaults /\ used' = [used EXCEPT !.faults = @ + 1]

\* Plausible bugs: the samples are written back without asking whether they
\* moved; a marker is written without asking whether it is set.
RequiresSamplesNot(p) ==
  {"claim"} \cup
  (IF "idle" \in p.says THEN {"tool", "span", "idle"} ELSE {}) \cup
  (IF "stuck" \in p.says THEN {"tool", "span", "stuck"} ELSE {}) \cup
  (IF "stalled" \in p.says THEN {"heart", "stalled"} ELSE {}) \cup
  (IF "stalled_claim" \in p.says THEN {"expired", "stalled"} ELSE {}) \cup
  (IF "lease_expired" \in p.says THEN {"expired"} ELSE {})
RequiresMarkersNot(p) ==
  {"claim"} \cup
  (IF p.n > 0 THEN {"samples"} ELSE {}) \cup
  (IF p.says \cap {"idle", "stuck"} # {} THEN {"tool", "span"} ELSE {}) \cup
  (IF "stalled" \in p.says THEN {"heart"} ELSE {}) \cup
  (IF p.says \cap {"stalled_claim", "lease_expired"} # {} THEN {"expired"} ELSE {})

\* What each part of a tick's delta asks to find unmoved.
Requires(p) ==
  {"claim"} \cup
  (IF p.n > 0 THEN {"samples"} ELSE {}) \cup
  (IF "idle" \in p.says THEN {"tool", "span", "idle"} ELSE {}) \cup
  (IF "stuck" \in p.says THEN {"tool", "span", "stuck"} ELSE {}) \cup
  (IF "stalled" \in p.says THEN {"heart", "stalled"} ELSE {}) \cup
  (IF "stalled_claim" \in p.says THEN {"expired", "stalled"} ELSE {}) \cup
  (IF "lease_expired" \in p.says THEN {"expired"} ELSE {})

\* The fields F are written, and of them those in cleared to nothing.  Stamps
\* are times and never come back; a cleared field may be what the tick saw.  A
\* delta that cannot be applied any more is kept as one that will not be.
After(p, F, cleared) ==
  LET moved == ((p.moved \cup F) \ (cleared \cap p.unset)) \cap Requires(p) IN
  IF p.pc = "off" THEN p
  ELSE IF moved \subseteq p.unset THEN [p EXCEPT !.moved = moved] ELSE Void
Moves(F, cleared) == proc' = [k \in Ticker |-> After(proc[k], F, cleared)]
Logs(S) ==
  /\ told' = told \cup S
  /\ repeated' = repeated \cup (S \cap told)

-----------------------------------------------------------------------------
(* The worker's words: each is compared with the token of the claim          *)

\* op_heartbeat
OpHeartbeat(t) == IF claim.token = t THEN [claim EXCEPT !.heart = "fresh"] ELSE claim

\* clu activity --start-bash.  A tool call voids the samples and re-arms the
\* idle notice; a process an earlier call left hanging is no longer looked at.
\* The stamp is dropped if the database stays busy.
StartsTool(t) ==
  /\ worker[t] = "works" /\ claim.token = t /\ used.calls < MaxCalls
  /\ used' = [used EXCEPT !.calls = @ + 1]
  /\ claim' = [claim EXCEPT !.tool = "fresh", !.hung = FALSE, !.stuck = FALSE,
                            !.n = 0, !.busy = TRUE, !.idle = FALSE]
  /\ proc' = [k \in Ticker |->
       LET p == After(proc[k], {"tool", "samples"}, {}) IN
       [p EXCEPT !.overtaken = @ \/ "idle" \in p.says]]
  /\ told' = told \ {"idle", "stuck"}
  /\ UNCHANGED <<minted, worker, daemon, repeated>>

\* clu activity --end-bash: the hook does not fire for a command that failed.
EndsTool(t) ==
  /\ worker[t] = "works" /\ claim.token = t /\ claim.tool # "none"
  /\ claim' = [claim EXCEPT !.tool = "none", !.hung = FALSE, !.stuck = FALSE]
  /\ Moves({"tool"}, {"tool"})
  /\ told' = told \ {"stuck"}
  /\ UNCHANGED <<minted, worker, daemon, used, repeated>>

\* clu quiet-span and clu quiet-span --end
DeclaresSpan(t) ==
  /\ worker[t] = "works" /\ claim.token = t
  /\ \/ /\ used.calls < MaxCalls
        /\ used' = [used EXCEPT !.calls = @ + 1]
        /\ claim' = [claim EXCEPT !.span = "active"]
        /\ Moves({"span"}, {})
     \/ /\ claim.span # "none" /\ UNCHANGED used
        /\ claim' = [claim EXCEPT !.span = "none"]
        /\ Moves({"span"}, {"span"})
  /\ UNCHANGED <<minted, worker, daemon, told, repeated>>

\* Processor time is used, by the worker or a tool it runs.
Works(t) ==
  /\ worker[t] = "works" /\ claim.token = t
  /\ claim' = [claim EXCEPT !.busy = TRUE]
  /\ proc' = [k \in Ticker |-> [proc[k] EXCEPT !.worked = @ \/ proc[k].n > 0]]
  /\ UNCHANGED <<minted, worker, daemon, used, told, repeated>>

WedgesOrDies(t) ==
  /\ worker[t] \in {"works", "wedged"}
  /\ \/ worker[t] = "works" /\ claim.token = t /\ worker' = [worker EXCEPT ![t] = "wedged"]
     \/ worker' = [worker EXCEPT ![t] = "dead"]
  /\ UNCHANGED <<claim, minted, daemon, proc, used, told, repeated>>

\* The claim goes, and with it what the log said of its holder's state.
Releases(says) ==
  /\ claim' = NoClaim
  /\ told' = (told \cap {"dead", "lease_expired"}) \cup says
  /\ repeated' = repeated \cup (told \cap says)

\* clu complete or clu block
Completes(t) ==
  /\ worker[t] = "works" /\ claim.token = t
  /\ worker' = [worker EXCEPT ![t] = "dead"]
  /\ Releases({}) /\ Moves({"claim"}, {})
  /\ UNCHANGED <<minted, daemon, used>>

-----------------------------------------------------------------------------
(* The heartbeat daemon                                                      *)

\* tick_once: a ping lands, or finds the claim another's and ends the daemon.
DaemonPings(t) ==
  /\ daemon[t].on /\ worker[t] # "dead"
  /\ claim' = OpHeartbeat(t)
  /\ IF claim.token = t
     THEN Moves({"heart"}, {}) /\ daemon' = [daemon EXCEPT ![t].strikes = 0]
     ELSE UNCHANGED proc /\ daemon' = [daemon EXCEPT ![t] = [on |-> FALSE, strikes |-> 0]]
  /\ UNCHANGED <<minted, worker, used, told, repeated>>

\* A ping that fails any other way is a strike; the strike that reaches the
\* limit reports, once per claim (if_unset), unless the report fails as well.
DaemonStrikes(t) ==
  LET n == daemon[t].strikes + 1 IN
  /\ daemon[t].on /\ worker[t] # "dead" /\ n <= StrikeLimit
  /\ Fault
  /\ daemon' = [daemon EXCEPT ![t].strikes = n]
  /\ \/ /\ n = StrikeLimit /\ claim.token = t /\ ~claim.failing
        /\ claim' = [claim EXCEPT !.failing = TRUE] /\ Logs({"failing"})
     \/ UNCHANGED <<claim, told, repeated>>
  /\ UNCHANGED <<minted, worker, proc>>

\* The worker is gone: its death is reported and its claim released, if it is
\* still its claim; the daemon ends whatever came of it.
DaemonReportsDeath(t) ==
  /\ daemon[t].on /\ worker[t] = "dead"
  /\ daemon' = [daemon EXCEPT ![t] = [on |-> FALSE, strikes |-> 0]]
  /\ \/ /\ claim.token = t
        /\ Releases({"dead"}) /\ Moves({"claim"}, {}) /\ UNCHANGED used
     \/ /\ claim.token # t
        /\ UNCHANGED <<claim, proc, told, repeated, used>>
     \/ /\ Fault
        /\ UNCHANGED <<claim, proc, told, repeated>>
  /\ UNCHANGED <<minted, worker>>

-----------------------------------------------------------------------------
(* A tick                                                                    *)

\* The claim is the next one's: made on a plan without one, its worker spawned
\* and its daemon started by the worker's first step.
Dispatches ==
  /\ ~Claimed /\ minted < MaxClaims
  /\ minted' = minted + 1
  /\ claim' = NewClaim(minted + 1)
  /\ worker' = [worker EXCEPT ![minted + 1] = "works"]
  /\ daemon' = [daemon EXCEPT ![minted + 1].on = TRUE]
  /\ Moves({"claim"}, {})
  /\ told' = {}
  /\ UNCHANGED <<used, repeated>>

\* Plausible bug: a marker is believed for as long as it is there.
MarkerSuppressesAlways == claim.tool # "none"

\* activity_marker_suppresses
MarkerSuppresses == claim.tool = "fresh"

\* append_cpu_sample and worker_idle_window_satisfied: a sample continues the
\* run, or begins a new one where the clock moved or the run had a hole.
Run == IF claim.n > 0 /\ ~claim.busy
       THEN IF claim.n < Need THEN claim.n + 1 ELSE Need
       ELSE 1

\* _emit_stalled_claim_notify reads the lease and not the heartbeat.
StalledClaim == claim.expired /\ ~claim.stalled

\* _emit_stuck_tool: a process of the tool call, past the threshold and idle
StuckTool == claim.tool = "old" /\ claim.hung /\ ~claim.stuck

\* _emit_worker_idle, of a claim of which n samples are alike
WorkerIdle(n) ==
  ~MarkerSuppresses /\ claim.span # "active" /\ n = Need /\ ~claim.idle

\* _detect_stalled comes after the lapsed lease and the dead worker, and looks at
\* the marker that the stalled-claim notice sets.
Stalled == claim.heart = "old" /\ ~claim.stalled

\* What a tick says.
Saying(n) ==
  LET dead == worker[claim.token] = "dead" IN
  {x \in {"stalled_claim"} : StalledClaim} \cup {x \in {"stuck"} : StuckTool} \cup
  {x \in {"idle"} : WorkerIdle(n)} \cup {x \in {"lease_expired"} : claim.expired} \cup
  {x \in {"dead"} : ~claim.expired /\ dead} \cup
  {x \in {"stalled"} : ~claim.expired /\ ~dead /\ Stalled}

\* The look, which takes a sample of the processor clock unless a tool call is
\* on or ps fails or the worker is dead; one with nothing to write is not kept.
Looks(k, n) ==
  LET says == Saying(IF n > 0 THEN n ELSE claim.n) IN
  /\ says # {} \/ n > 0
  /\ proc' = [proc EXCEPT ![k] =
       [Off EXCEPT !.pc = "apply", !.token = claim.token, !.says = says, !.n = n,
          !.unset = {f \in {"tool", "span"} : "idle" \in says /\ claim[f] = "none"}]]
  /\ UNCHANGED <<claim, minted, worker, daemon, told, repeated>>
Samples == ~MarkerSuppresses /\ worker[claim.token] # "dead"
Decides(k) ==
  /\ proc[k].pc = "off" /\ Claimed
  /\ Looks(k, IF Samples THEN Run ELSE 0)
  /\ UNCHANGED used
DecidesBlind(k) ==
  /\ proc[k].pc = "off" /\ Claimed
  /\ Samples /\ Fault
  /\ Looks(k, 0)

\* A marker is a value: it has moved if it is set now.
Holds(p) == (p.moved \cup {f \in {"stalled", "idle", "stuck"} : claim[f]}) \cap Requires(p) = {}

Written(p) ==
  [claim EXCEPT
     !.stalled = @ \/ p.says \cap {"stalled_claim", "stalled"} # {},
     !.idle = @ \/ "idle" \in p.says, !.stuck = @ \/ "stuck" \in p.says,
     !.n = IF p.n > 0 THEN p.n ELSE @, !.busy = IF p.n > 0 THEN p.worked ELSE @]

\* The write, whole or not at all.
Applies(k) ==
  LET p == proc[k]
      ends == p.says \cap {"lease_expired", "dead"} # {}
      F == (IF p.n > 0 THEN {"samples"} ELSE {}) \cup (IF ends THEN {"claim"} ELSE {})
  IN /\ p.pc = "apply"
     /\ IF Holds(p)
        THEN /\ IF ends THEN Releases(p.says) ELSE claim' = Written(p) /\ Logs(p.says)
             /\ proc' = [j \in Ticker |-> IF j = k THEN Off ELSE After(proc[j], F, {})]
        ELSE proc' = [proc EXCEPT ![k] = Off] /\ UNCHANGED <<claim, told, repeated>>
     /\ UNCHANGED <<minted, worker, daemon, used>>

\* The tick dies, or finds the database busy.
Crashes(k) ==
  /\ proc[k].pc = "apply" /\ Fault
  /\ proc' = [proc EXCEPT ![k] = Off]
  /\ UNCHANGED <<claim, minted, worker, daemon, told, repeated>>

-----------------------------------------------------------------------------
(* Time                                                                      *)

Ages(c) ==
  /\ Claimed /\ claim' = c /\ claim' # claim
  /\ UNCHANGED <<minted, worker, daemon, proc, told, repeated>>
\* The threshold is several intervals of the daemon, so its pings have failed.
HeartAges ==
  /\ Claimed /\ (daemon[claim.token].on => daemon[claim.token].strikes = StrikeLimit)
  /\ Ages([claim EXCEPT !.heart = IF @ = "fresh" THEN "old" ELSE @]) /\ UNCHANGED used
ToolAges == \E h \in BOOLEAN :
  /\ claim.tool = "fresh"
  /\ Ages([claim EXCEPT !.tool = "old", !.hung = h]) /\ UNCHANGED used
SpanEnds == Ages([claim EXCEPT !.span = IF @ = "active" THEN "over" ELSE @]) /\ UNCHANGED used
LeaseEnds == Ages([claim EXCEPT !.expired = TRUE]) /\ UNCHANGED used
\* No tick for longer than worker_idle_max_sample_gap: the run is broken.
CronIsLate == Ages([claim EXCEPT !.n = 0]) /\ Fault

-----------------------------------------------------------------------------
Next ==
  \/ \E t \in Token :
       \/ StartsTool(t) \/ EndsTool(t) \/ DeclaresSpan(t) \/ Works(t)
       \/ WedgesOrDies(t) \/ Completes(t)
       \/ DaemonPings(t) \/ DaemonStrikes(t) \/ DaemonReportsDeath(t)
  \/ \E k \in Ticker : Decides(k) \/ DecidesBlind(k) \/ Applies(k) \/ Crashes(k)
  \/ Dispatches \/ HeartAges \/ ToolAges \/ SpanEnds \/ LeaseEnds \/ CronIsLate

Spec == Init /\ [][Next]_vars

\* Ticks come and end, and time passes; workers and daemons owe nothing, and
\* nothing forces the lease to end before the watchdogs speak.
FairSpec ==
  /\ Spec
  /\ \A k \in Ticker : WF_vars(Decides(k)) /\ WF_vars(Applies(k))
  /\ WF_vars(ToolAges) /\ WF_vars(SpanEnds)

-----------------------------------------------------------------------------
Writes(k) == proc[k].pc = "apply" /\ proc'[k] = Off /\ (claim' # claim \/ told' # told)
Says(k, x) == Writes(k) /\ x \in proc[k].says

\* A claim is reported stalled, idle, stuck, failing or dead once, whoever races
\* for the report; an idle or stuck report again only for another tool call.
NoticeOnce == repeated = {}

\* What a notice says is true where it is written, not where it was decided: a
\* heartbeat, a quiet span, a tool call or a change of claim in between voids it.
NoticesAreCurrent ==
  [][\A k \in Ticker :
       /\ Writes(k) => claim.token = proc[k].token
       /\ Says(k, "idle") => /\ claim.tool # "fresh" /\ claim.span # "active"
                             /\ proc[k].n > 0 => ~proc[k].overtaken
       /\ Says(k, "stuck") => claim.tool = "old" /\ claim.hung
       /\ Says(k, "stalled") => claim.heart = "old"
       /\ Says(k, "dead") => worker[claim.token] = "dead"]_vars

\* A worker that wedges is reported idle or its claim ends, whatever tool call
\* or quiet span it left open.
WedgedIsReported ==
  \A t \in Token :
    (claim.token = t /\ worker[t] = "wedged") ~> (claim.token # t \/ claim.idle)

=============================================================================
