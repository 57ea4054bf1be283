------------------------- MODULE Watchdogs_proofs -------------------------
(***************************************************************************)
(* The safety theorems of Watchdogs, for every set of ticks, every          *)
(* threshold and every number of claims, calls and faults.                  *)
(*                                                                          *)
(* A tick that is about to write is alive as long as the claim has not      *)
(* moved.  The invariant says of every live one that what it would say is   *)
(* still true of the claim, apart from the fields it has found unset and    *)
(* that have moved since, which its write asks for again; and of the log,   *)
(* that whatever it says of the claim's holder is marked on the claim.  So  *)
(* a write that finds its fields unmoved says what is true, and what is     *)
(* marked is not said again.                                                *)
(***************************************************************************)
EXTENDS Watchdogs, TLAPS

\* The record of a claim, or of none: its token is 0.
ClaimRow ==
  [token : 0..MaxClaims, expired : BOOLEAN, heart : {"start", "fresh", "old"},
   stalled : BOOLEAN, tool : Stamp, hung : BOOLEAN, stuck : BOOLEAN,
   span : {"none", "active", "over"}, n : 0..Need, busy : BOOLEAN,
   idle : BOOLEAN, failing : BOOLEAN]

Typed ==
  /\ claim \in ClaimRow /\ minted \in 0..MaxClaims
  /\ worker \in [Token -> Worker] /\ proc \in [Ticker -> Proc]

Alive(p) == p.pc = "apply" /\ "claim" \notin p.moved

\* What a delta looks like, whatever has happened since.
Shape(p) ==
  /\ p.says \subseteq Notice \ {"failing"}
  /\ "stuck" \in p.says => "tool" \notin p.unset

\* A live delta is about the claim c that stands and says what is still true of
\* it and of the workers w.
Sound(c, w, p) ==
  /\ c.token # 0 /\ c.token = p.token
  /\ "idle" \in p.says => /\ "tool" \notin p.moved => c.tool # "fresh"
                          /\ "span" \notin p.moved => c.span # "active"
                          /\ p.n > 0 => ~p.overtaken
  /\ "stuck" \in p.says => c.tool = "old" /\ c.hung
  /\ "stalled" \in p.says => c.heart = "old"
  /\ "dead" \in p.says => w[c.token] = "dead"

TicksAreSound ==
  \A k \in Ticker : Shape(proc[k]) /\ (Alive(proc[k]) => Sound(claim, worker, proc[k]))

\* What the log says of the claim that stands is marked on it.
ToldIsMarked ==
  Claimed => /\ told \cap {"lease_expired", "dead"} = {}
             /\ told \cap {"stalled_claim", "stalled"} # {} => claim.stalled
             /\ "idle" \in told => claim.idle
             /\ "stuck" \in told => claim.stuck
             /\ "failing" \in told => claim.failing

IInv == Typed /\ TicksAreSound /\ ToldIsMarked /\ NoticeOnce

-----------------------------------------------------------------------------
(* Types and updates                                                         *)

LEMMA OffType == Off \in Proc /\ Void \in Proc /\ Shape(Off) /\ ~Alive(Off) /\ Void.pc = "apply"
                 /\ Shape(Void) /\ ~Alive(Void) /\ Void # Off /\ Off.pc = "off"
<1>1. Off \in Proc /\ Off.pc = "off" /\ Off.says = {}
  BY BoundsAssumption, ThresholdsAssumption DEF Off, Proc
<1>2. Void \in Proc /\ Void.pc = "apply" /\ Void.says = {} /\ Void.moved = {"claim"}
  <2>1. {"claim"} \in SUBSET Field
    BY DEF Field
  <2>2. \A m \in SUBSET Field : [Off EXCEPT !.pc = "apply", !.moved = m] \in Proc
    BY <1>1 DEF Proc
  <2>3. Void \in Proc
    BY <2>1, <2>2 DEF Void
  <2> QED BY <1>1, <2>3 DEF Void, Off
<1> QED BY <1>1, <1>2 DEF Shape, Alive

LEMMA RequiresHas ==
  ASSUME NEW p \in Proc
  PROVE  /\ "claim" \in Requires(p)
         /\ p.n > 0 => "samples" \in Requires(p)
         /\ "idle" \in p.says => {"tool", "span", "idle"} \subseteq Requires(p)
         /\ "stuck" \in p.says => {"tool", "stuck"} \subseteq Requires(p)
         /\ "stalled" \in p.says => {"heart", "stalled"} \subseteq Requires(p)
         /\ "stalled_claim" \in p.says => "stalled" \in Requires(p)
         /\ Requires(p) \subseteq Field
BY DEF Requires, Field

LEMMA ProcFields ==
  ASSUME NEW p \in Proc
  PROVE  /\ p.pc \in {"off", "apply"} /\ p.unset \subseteq {"tool", "span"} /\ p.moved \subseteq Field
         /\ p.says \subseteq Notice /\ p.n \in 0..Need
         /\ \A m \in SUBSET Field : LET q == [p EXCEPT !.moved = m] IN
              /\ q \in Proc /\ q.moved = m /\ q.pc = p.pc /\ q.token = p.token /\ q.says = p.says
              /\ q.n = p.n /\ q.unset = p.unset /\ q.overtaken = p.overtaken
BY DEF Proc

\* What a write of the fields F does to a delta that waits.
LEMMA AfterEffect ==
  ASSUME NEW p \in Proc, NEW F \in SUBSET Field, NEW cleared, Shape(p)
  PROVE  LET q == After(p, F, cleared) IN
         /\ q \in Proc /\ Shape(q) /\ q.pc = p.pc
         /\ Alive(q) => /\ Alive(p) /\ "claim" \notin F
                        /\ q.token = p.token /\ q.says = p.says /\ q.n = p.n
                        /\ q.unset = p.unset /\ q.overtaken = p.overtaken
                        /\ q.moved = ((p.moved \cup F) \ (cleared \cap p.unset)) \cap Requires(p)
                        /\ q.moved \subseteq p.unset
<1> DEFINE m == ((p.moved \cup F) \ (cleared \cap p.unset)) \cap Requires(p)
           q == After(p, F, cleared)
<1>1. m \in SUBSET Field
  BY RequiresHas
<1>2. CASE p.pc = "off"
  <2>1. q = p
    BY <1>2 DEF After
  <2> QED BY <1>2, <2>1 DEF Alive
<1>3. CASE p.pc # "off" /\ ~(m \subseteq p.unset)
  <2>1. q = Void
    BY <1>3 DEF After
  <2>2. p.pc = "apply"
    BY <1>3, ProcFields
  <2> QED BY <2>1, <2>2, OffType
<1>4. CASE p.pc # "off" /\ m \subseteq p.unset
  <2>1. q = [p EXCEPT !.moved = m]
    BY <1>4 DEF After
  <2> HIDE DEF q
  <2>2. "claim" \in Requires(p) /\ "claim" \notin p.unset
    BY RequiresHas, ProcFields
  <2>3. "claim" \notin p.moved \cup F
    BY <1>4, <2>2
  <2> HIDE DEF m
  <2>4. q \in Proc /\ q.moved = m /\ q.pc = p.pc /\ q.token = p.token /\ q.says = p.says
        /\ q.n = p.n /\ q.unset = p.unset /\ q.overtaken = p.overtaken
    BY <1>1, <2>1, ProcFields
  <2>5. p.pc = "apply"
    BY <1>4, ProcFields
  <2>6. Shape(q)
    BY <2>4 DEF Shape
  <2> QED BY <1>4, <2>3, <2>4, <2>5, <2>6 DEF q, m, Alive
<1> QED BY <1>2, <1>3, <1>4

\* What a step that writes the fields F must keep of the claim and of the worker.
Keeps(c, w, d, v, F, cleared) ==
  /\ c.token # 0 => d.token = c.token
  /\ d.tool = "fresh" => (c.tool = "fresh" \/ "tool" \in F) /\ "tool" \notin cleared
  /\ d.span = "active" => (c.span = "active" \/ "span" \in F) /\ "span" \notin cleared
  /\ c.tool = "old" /\ c.hung => (d.tool = "old" /\ d.hung) \/ "tool" \in F
  /\ c.heart = "old" => d.heart = "old" \/ "heart" \in F
  /\ w[c.token] = "dead" => v[c.token] = "dead"

LEMMA SoundAfter ==
  ASSUME NEW c, NEW w, NEW d, NEW v, NEW p \in Proc, Shape(p), Alive(p) => Sound(c, w, p),
         NEW F \in SUBSET Field, NEW cleared,
         "claim" \in F \/ Keeps(c, w, d, v, F, cleared),
         Alive(After(p, F, cleared))
  PROVE  Sound(d, v, After(p, F, cleared))
<1> DEFINE q == After(p, F, cleared)
<1>1. /\ Alive(p) /\ "claim" \notin F
      /\ q.token = p.token /\ q.says = p.says /\ q.n = p.n
      /\ q.unset = p.unset /\ q.overtaken = p.overtaken
      /\ q.moved = ((p.moved \cup F) \ (cleared \cap p.unset)) \cap Requires(p)
      /\ q.moved \subseteq p.unset
  BY AfterEffect
<1> HIDE DEF q
<1>2. Sound(c, w, p) /\ Keeps(c, w, d, v, F, cleared)
  BY <1>1
<1>3. d.token # 0 /\ d.token = q.token
  BY <1>1, <1>2 DEF Sound, Keeps
<1>4. ASSUME "idle" \in q.says
      PROVE  /\ "tool" \notin q.moved => d.tool # "fresh"
             /\ "span" \notin q.moved => d.span # "active"
             /\ q.n > 0 => ~q.overtaken
  <2>1. {"tool", "span"} \subseteq Requires(p)
    BY <1>1, <1>4, RequiresHas
  <2>2. /\ "tool" \notin p.moved => c.tool # "fresh"
        /\ "span" \notin p.moved => c.span # "active"
        /\ q.n > 0 => ~q.overtaken
    BY <1>1, <1>2, <1>4 DEF Sound
  <2> QED BY <1>1, <1>2, <2>1, <2>2 DEF Keeps
<1>5. ASSUME "stuck" \in q.says PROVE d.tool = "old" /\ d.hung
  <2>1. "tool" \in Requires(p) /\ "tool" \notin p.unset
    BY <1>1, <1>5, RequiresHas DEF Shape
  <2>2. "tool" \notin F
    BY <1>1, <2>1
  <2> QED BY <1>1, <1>2, <1>5, <2>2 DEF Sound, Keeps
<1>6. ASSUME "stalled" \in q.says PROVE d.heart = "old"
  <2>1. "heart" \in Requires(p) /\ "heart" \notin p.unset
    BY <1>1, <1>6, RequiresHas, ProcFields
  <2>2. "heart" \notin F
    BY <1>1, <2>1
  <2> QED BY <1>1, <1>2, <1>6, <2>2 DEF Sound, Keeps
<1>7. "dead" \in q.says => v[d.token] = "dead"
  BY <1>1, <1>2 DEF Sound, Keeps
<1>8. Sound(d, v, q)
  BY <1>3, <1>4, <1>5, <1>6, <1>7 DEF Sound
<1> QED BY <1>8 DEF q

\* A step that writes F: the delta of the tick that takes it, if one does, is gone.
LEMMA TicksMove ==
  ASSUME IInv, NEW F \in SUBSET Field, NEW cleared,
         proc' = [k \in Ticker |-> proc'[k]],
         \A k \in Ticker : proc'[k] = After(proc[k], F, cleared) \/ proc'[k] = Off,
         "claim" \in F \/ Keeps(claim, worker, claim', worker', F, cleared)
  PROVE  proc' \in [Ticker -> Proc] /\ TicksAreSound'
<1>1. \A k \in Ticker : proc[k] \in Proc
  BY DEF IInv, Typed
<1>2. ASSUME NEW k \in Ticker
      PROVE  /\ After(proc[k], F, cleared) \in Proc /\ Shape(After(proc[k], F, cleared))
             /\ Alive(After(proc[k], F, cleared))
                  => Sound(claim', worker', After(proc[k], F, cleared))
  BY <1>1, AfterEffect, SoundAfter DEF IInv, TicksAreSound
<1>3. \A k \in Ticker : /\ proc'[k] \in Proc /\ Shape(proc'[k])
                        /\ Alive(proc'[k]) => Sound(claim', worker', proc'[k])
  BY <1>2, OffType
<1>4. proc' \in [Ticker -> Proc]
  BY <1>3
<1> QED BY <1>3, <1>4 DEF TicksAreSound

LEMMA MovesEffect ==
  ASSUME IInv, NEW F \in SUBSET Field, NEW cleared, Moves(F, cleared),
         "claim" \in F \/ Keeps(claim, worker, claim', worker', F, cleared)
  PROVE  proc' \in [Ticker -> Proc] /\ TicksAreSound'
<1>1. proc' = [k \in Ticker |-> proc'[k]] /\ \A k \in Ticker : proc'[k] = After(proc[k], F, cleared)
  BY DEF Moves
<1> QED BY <1>1, TicksMove

\* A step that moves nothing the ticks rely on.
LEMMA TicksStay ==
  ASSUME IInv, proc' \in [Ticker -> Proc],
         \A k \in Ticker : /\ proc'[k].pc = proc[k].pc /\ proc'[k].token = proc[k].token
                           /\ proc'[k].says = proc[k].says /\ proc'[k].n = proc[k].n
                           /\ proc'[k].moved = proc[k].moved /\ proc'[k].unset = proc[k].unset
                           /\ proc'[k].overtaken = proc[k].overtaken,
         Keeps(claim, worker, claim', worker', {}, {})
  PROVE  TicksAreSound'
BY DEF IInv, TicksAreSound, Shape, Alive, Sound, Keeps

-----------------------------------------------------------------------------
(* Steps that say nothing                                                    *)

\* The claim stays, whatever is written on it, and so do its markers.
LEMMA InvMarks ==
  ASSUME IInv, claim' \in ClaimRow, claim'.token = claim.token,
         claim'.stalled = claim.stalled, claim'.failing = claim.failing,
         "idle" \in told' /\ claim.idle => claim'.idle,
         "stuck" \in told' /\ claim.stuck => claim'.stuck,
         told' \subseteq told, repeated' = repeated
  PROVE  ToldIsMarked' /\ NoticeOnce'
<1>1. ToldIsMarked'
  BY DEF IInv, ToldIsMarked, Claimed
<1> QED BY <1>1 DEF IInv, NoticeOnce

LEMMA ClaimFields ==
  ASSUME IInv
  PROVE  /\ claim \in ClaimRow /\ claim.token \in 0..MaxClaims /\ claim.n \in 0..Need
         /\ claim.tool \in Stamp /\ claim.hung \in BOOLEAN
BY DEF IInv, Typed, ClaimRow

LEMMA InvStartsTool ==
  ASSUME IInv, NEW t \in Token, StartsTool(t)
  PROVE  IInv'
<1> DEFINE F == {"tool", "samples"}
<1>1. /\ claim' \in ClaimRow /\ claim'.token = claim.token /\ claim'.tool = "fresh"
      /\ claim'.span = claim.span /\ claim'.heart = claim.heart
      /\ claim'.stalled = claim.stalled /\ claim'.failing = claim.failing
  <2>1. claim' = [claim EXCEPT !.tool = "fresh", !.hung = FALSE, !.stuck = FALSE,
                               !.n = 0, !.busy = TRUE, !.idle = FALSE]
    BY DEF StartsTool
  <2>2. claim \in ClaimRow /\ 0 \in 0..Need
    BY ClaimFields, ThresholdsAssumption
  <2>3. claim' \in ClaimRow
    BY <2>1, <2>2 DEF ClaimRow, Stamp
  <2> QED BY <2>1, <2>2, <2>3 DEF ClaimRow
<1>2. told' = told \ {"idle", "stuck"} /\ UNCHANGED <<minted, worker, repeated>>
  BY DEF StartsTool
<1>3. Keeps(claim, worker, claim', worker', F, {})
  BY <1>1, <1>2 DEF Keeps
<1>4. ASSUME NEW k \in Ticker
      PROVE  /\ proc'[k] \in Proc /\ Shape(proc'[k])
             /\ Alive(proc'[k]) => Sound(claim', worker', proc'[k])
  <2> DEFINE p == proc[k]
             none == {}
             q == After(p, F, none)
             r == [q EXCEPT !.overtaken = @ \/ "idle" \in q.says]
  <2>1. p \in Proc /\ Shape(p) /\ (Alive(p) => Sound(claim, worker, p)) /\ F \in SUBSET Field
    BY DEF IInv, Typed, TicksAreSound, Field
  <2>2. proc'[k] = r
    BY DEF StartsTool
  <2>3. Keeps(claim, worker, claim', worker', F, none)
    BY <1>3
  <2> HIDE DEF p, F, none
  <2>4. /\ q \in Proc /\ Shape(q) /\ q.pc = p.pc
        /\ Alive(q) => /\ Alive(p) /\ q.token = p.token /\ q.says = p.says /\ q.n = p.n
                       /\ q.moved = ((p.moved \cup F) \ (none \cap p.unset)) \cap Requires(p)
                       /\ q.moved \subseteq p.unset
    BY <2>1, AfterEffect
  <2>5. Alive(q) => Sound(claim', worker', q)
    BY <2>1, <2>3, SoundAfter
  <2> HIDE DEF q
  <2>6. r \in Proc /\ r.pc = q.pc /\ r.moved = q.moved /\ r.token = q.token
        /\ r.says = q.says /\ r.n = q.n /\ r.unset = q.unset
    BY <2>4 DEF Proc
  <2>7. Alive(q) => ~(q.n > 0)
    <3> SUFFICES ASSUME Alive(q), q.n > 0 PROVE FALSE
      OBVIOUS
    <3>1. "samples" \in Requires(p) /\ "samples" \notin p.unset
      BY <2>1, <2>4, RequiresHas, ProcFields
    <3>2. "samples" \in q.moved
      BY <2>4, <3>1 DEF F, none
    <3> QED BY <2>4, <3>1, <3>2
  <2> HIDE DEF r
  <2>8. Shape(r) /\ (Alive(r) => Sound(claim', worker', r))
    BY <2>4, <2>5, <2>6, <2>7 DEF Shape, Alive, Sound
  <2> QED BY <2>2, <2>6, <2>8
<1>5. proc' \in [Ticker -> Proc]
  BY <1>4 DEF StartsTool
<1>6. Typed' /\ TicksAreSound'
  BY <1>1, <1>2, <1>4, <1>5 DEF IInv, Typed, TicksAreSound
<1>7. ToldIsMarked' /\ NoticeOnce'
  BY <1>1, <1>2, InvMarks
<1> QED BY <1>6, <1>7 DEF IInv

LEMMA InvEndsTool ==
  ASSUME IInv, NEW t \in Token, EndsTool(t)
  PROVE  IInv'
<1>1. /\ claim' \in ClaimRow /\ claim'.token = claim.token /\ claim'.tool = "none"
      /\ claim'.span = claim.span /\ claim'.heart = claim.heart /\ claim'.idle = claim.idle
      /\ claim'.stalled = claim.stalled /\ claim'.failing = claim.failing
  <2>1. claim' = [claim EXCEPT !.tool = "none", !.hung = FALSE, !.stuck = FALSE]
    BY DEF EndsTool
  <2> QED BY <2>1, ClaimFields DEF ClaimRow, Stamp
<1>2. told' = told \ {"stuck"} /\ UNCHANGED <<minted, worker, repeated>> /\ Moves({"tool"}, {"tool"})
  BY DEF EndsTool
<1>3. Keeps(claim, worker, claim', worker', {"tool"}, {"tool"})
  BY <1>1, <1>2 DEF Keeps
<1>4. proc' \in [Ticker -> Proc] /\ TicksAreSound'
  <2>1. {"tool"} \in SUBSET Field
    BY DEF Field
  <2> QED BY <1>2, <1>3, <2>1, MovesEffect
<1>5. ToldIsMarked' /\ NoticeOnce'
  BY <1>1, <1>2, InvMarks
<1> QED BY <1>1, <1>2, <1>4, <1>5 DEF IInv, Typed

LEMMA InvDeclaresSpan ==
  ASSUME IInv, NEW t \in Token, DeclaresSpan(t)
  PROVE  IInv'
<1>1. PICK s \in {"active", "none"} : claim' = [claim EXCEPT !.span = s]
        /\ Moves({"span"}, IF s = "none" THEN {"span"} ELSE {})
  BY DEF DeclaresSpan
<1>2. /\ claim' \in ClaimRow /\ claim'.token = claim.token /\ claim'.tool = claim.tool
      /\ claim'.hung = claim.hung /\ claim'.stuck = claim.stuck
      /\ claim'.span = s /\ claim'.heart = claim.heart /\ claim'.idle = claim.idle
      /\ claim'.stalled = claim.stalled /\ claim'.failing = claim.failing
  BY <1>1, ClaimFields DEF ClaimRow
<1>3. UNCHANGED <<minted, worker, told, repeated>>
  BY DEF DeclaresSpan
<1>4. proc' \in [Ticker -> Proc] /\ TicksAreSound'
  <2> DEFINE cleared == IF s = "none" THEN {"span"} ELSE {}
  <2>1. {"span"} \in SUBSET Field
    BY DEF Field
  <2>2. Keeps(claim, worker, claim', worker', {"span"}, cleared)
    BY <1>2, <1>3 DEF Keeps
  <2>3. Moves({"span"}, cleared)
    BY <1>1
  <2> HIDE DEF cleared
  <2> QED BY <2>1, <2>2, <2>3, MovesEffect
<1>5. ToldIsMarked' /\ NoticeOnce'
  BY <1>2, <1>3, InvMarks
<1> QED BY <1>2, <1>3, <1>4, <1>5 DEF IInv, Typed

LEMMA InvWorks ==
  ASSUME IInv, NEW t \in Token, Works(t)
  PROVE  IInv'
<1>1. claim' = [claim EXCEPT !.busy = TRUE] /\ UNCHANGED <<minted, worker, told, repeated>>
  BY DEF Works
<1>2. /\ claim' \in ClaimRow /\ claim'.token = claim.token /\ claim'.tool = claim.tool
      /\ claim'.hung = claim.hung /\ claim'.stuck = claim.stuck
      /\ claim'.span = claim.span /\ claim'.heart = claim.heart /\ claim'.idle = claim.idle
      /\ claim'.stalled = claim.stalled /\ claim'.failing = claim.failing
  BY <1>1, ClaimFields DEF ClaimRow
<1>3. \A k \in Ticker : proc[k] \in Proc
                        /\ proc'[k] = [proc[k] EXCEPT !.worked = @ \/ proc[k].n > 0]
  BY DEF Works, IInv, Typed
<1>4. \A k \in Ticker : /\ proc'[k] \in Proc
                        /\ proc'[k].pc = proc[k].pc /\ proc'[k].token = proc[k].token
                        /\ proc'[k].says = proc[k].says /\ proc'[k].n = proc[k].n
                        /\ proc'[k].moved = proc[k].moved /\ proc'[k].unset = proc[k].unset
                        /\ proc'[k].overtaken = proc[k].overtaken
  <2> SUFFICES ASSUME NEW k \in Ticker
               PROVE  /\ proc'[k] \in Proc
                      /\ proc'[k].pc = proc[k].pc /\ proc'[k].token = proc[k].token
                      /\ proc'[k].says = proc[k].says /\ proc'[k].n = proc[k].n
                      /\ proc'[k].moved = proc[k].moved /\ proc'[k].unset = proc[k].unset
                      /\ proc'[k].overtaken = proc[k].overtaken
    OBVIOUS
  <2> DEFINE b == proc[k].worked \/ proc[k].n > 0
  <2>1. proc[k] \in Proc /\ proc'[k] = [proc[k] EXCEPT !.worked = b]
    BY <1>3
  <2>2. b \in BOOLEAN
    OBVIOUS
  <2> HIDE DEF b
  <2> QED BY <2>1, <2>2 DEF Proc
<1>5. proc' \in [Ticker -> Proc]
  BY <1>4 DEF Works
<1>6. TicksAreSound'
  <2>1. Keeps(claim, worker, claim', worker', {}, {})
    BY <1>1, <1>2 DEF Keeps
  <2> QED BY <1>4, <1>5, <2>1, TicksStay
<1>7. ToldIsMarked' /\ NoticeOnce'
  BY <1>1, <1>2, InvMarks
<1> QED BY <1>1, <1>2, <1>5, <1>6, <1>7 DEF IInv, Typed

LEMMA InvWedgesOrDies ==
  ASSUME IInv, NEW t \in Token, WedgesOrDies(t)
  PROVE  IInv'
<1>1. UNCHANGED <<claim, minted, proc, told, repeated>>
      /\ (worker' = [worker EXCEPT ![t] = "wedged"] \/ worker' = [worker EXCEPT ![t] = "dead"])
      /\ worker[t] # "dead"
  BY DEF WedgesOrDies
<1>2. worker' \in [Token -> Worker] /\ \A u \in Token : worker[u] = "dead" => worker'[u] = "dead"
  BY <1>1 DEF IInv, Typed, Worker
<1>3. TicksAreSound'
  <2>1. ASSUME NEW k \in Ticker, Alive(proc[k]) PROVE Sound(claim, worker', proc[k])
    <3>1. claim.token \in Token /\ Sound(claim, worker, proc[k])
      BY <2>1, ClaimFields DEF IInv, TicksAreSound, Sound, Token
    <3> QED BY <1>2, <3>1 DEF Sound
  <2> QED BY <1>1, <2>1 DEF IInv, TicksAreSound
<1> QED BY <1>1, <1>2, <1>3 DEF IInv, Typed, ToldIsMarked, Claimed, NoticeOnce

\* A lapse of time makes no field fresh again and moves no marker.
LEMMA InvAges ==
  ASSUME IInv, NEW c \in ClaimRow, Ages(c), Claimed,
         c.token = claim.token, c.stalled = claim.stalled, c.failing = claim.failing,
         c.idle = claim.idle, c.stuck = claim.stuck,
         c.tool = "fresh" => claim.tool = "fresh",
         c.span = "active" => claim.span = "active",
         claim.tool = "old" => c.tool = "old" /\ c.hung = claim.hung,
         claim.heart = "old" => c.heart = "old"
  PROVE  IInv'
<1>1. claim' = c /\ UNCHANGED <<minted, worker, proc, told, repeated>>
  BY DEF Ages
<1>2. proc' \in [Ticker -> Proc] /\ TicksAreSound'
  <2>1. Keeps(claim, worker, claim', worker', {}, {})
    BY <1>1 DEF Keeps
  <2>2. proc' \in [Ticker -> Proc]
    BY <1>1 DEF IInv, Typed
  <2> QED BY <1>1, <2>1, <2>2, TicksStay
<1>3. ToldIsMarked' /\ NoticeOnce'
  BY <1>1, InvMarks
<1> QED BY <1>1, <1>2, <1>3 DEF IInv, Typed

LEMMA InvTime ==
  ASSUME IInv, HeartAges \/ ToolAges \/ SpanEnds \/ LeaseEnds \/ CronIsLate
  PROVE  IInv'
<1>1. claim \in ClaimRow /\ claim.tool \in Stamp
  BY ClaimFields
<1>2. CASE HeartAges
  <2> DEFINE h == IF claim.heart = "fresh" THEN "old" ELSE claim.heart
             c == [claim EXCEPT !.heart = h]
  <2>1. h \in {"start", "fresh", "old"} /\ (claim.heart = "old" => h = "old")
    BY <1>1 DEF ClaimRow
  <2>2. Ages(c) /\ Claimed
    BY <1>2 DEF HeartAges
  <2> HIDE DEF h
  <2>3. /\ c \in ClaimRow /\ c.token = claim.token /\ c.stalled = claim.stalled
        /\ c.failing = claim.failing /\ c.idle = claim.idle /\ c.stuck = claim.stuck
        /\ c.tool = claim.tool /\ c.span = claim.span /\ c.hung = claim.hung /\ c.heart = h
    BY <1>1, <2>1 DEF ClaimRow
  <2> HIDE DEF c
  <2> QED BY <2>1, <2>2, <2>3, InvAges
<1>3. CASE ToolAges
  <2>1. PICK h \in BOOLEAN : claim.tool = "fresh" /\ Ages([claim EXCEPT !.tool = "old", !.hung = h])
    BY <1>3 DEF ToolAges
  <2> DEFINE c == [claim EXCEPT !.tool = "old", !.hung = h]
  <2>2. /\ c \in ClaimRow /\ c.token = claim.token /\ c.stalled = claim.stalled
        /\ c.failing = claim.failing /\ c.idle = claim.idle /\ c.stuck = claim.stuck
        /\ c.tool = "old" /\ c.span = claim.span /\ c.heart = claim.heart
    BY <1>1 DEF ClaimRow, Stamp
  <2>3. Ages(c) /\ Claimed
    BY <2>1 DEF Ages
  <2> HIDE DEF c
  <2> QED BY <2>1, <2>2, <2>3, InvAges
<1>4. CASE SpanEnds
  <2> DEFINE s == IF claim.span = "active" THEN "over" ELSE claim.span
             c == [claim EXCEPT !.span = s]
  <2>1. s \in {"none", "active", "over"} /\ s # "active"
    BY <1>1 DEF ClaimRow
  <2>2. Ages(c) /\ Claimed
    BY <1>4 DEF SpanEnds, Ages
  <2> HIDE DEF s
  <2>3. /\ c \in ClaimRow /\ c.token = claim.token /\ c.stalled = claim.stalled
        /\ c.failing = claim.failing /\ c.idle = claim.idle /\ c.stuck = claim.stuck
        /\ c.tool = claim.tool /\ c.span = s /\ c.hung = claim.hung /\ c.heart = claim.heart
    BY <1>1, <2>1 DEF ClaimRow
  <2> HIDE DEF c
  <2> QED BY <2>1, <2>2, <2>3, InvAges
<1>5. CASE LeaseEnds
  <2> DEFINE c == [claim EXCEPT !.expired = TRUE]
  <2>1. /\ c \in ClaimRow /\ c.token = claim.token /\ c.stalled = claim.stalled
        /\ c.failing = claim.failing /\ c.idle = claim.idle /\ c.stuck = claim.stuck
        /\ c.tool = claim.tool /\ c.span = claim.span /\ c.hung = claim.hung /\ c.heart = claim.heart
    BY <1>1 DEF ClaimRow
  <2>2. Ages(c) /\ Claimed
    BY <1>5 DEF LeaseEnds, Ages
  <2> HIDE DEF c
  <2> QED BY <2>1, <2>2, InvAges
<1>6. CASE CronIsLate
  <2> DEFINE c == [claim EXCEPT !.n = 0]
  <2>1. 0 \in 0..Need
    BY ThresholdsAssumption
  <2>2. /\ c \in ClaimRow /\ c.token = claim.token /\ c.stalled = claim.stalled
        /\ c.failing = claim.failing /\ c.idle = claim.idle /\ c.stuck = claim.stuck
        /\ c.tool = claim.tool /\ c.span = claim.span /\ c.hung = claim.hung /\ c.heart = claim.heart
    BY <1>1, <2>1 DEF ClaimRow
  <2>3. Ages(c) /\ Claimed
    BY <1>6 DEF CronIsLate, Ages
  <2> HIDE DEF c
  <2> QED BY <2>2, <2>3, InvAges
<1> QED BY <1>2, <1>3, <1>4, <1>5, <1>6

-----------------------------------------------------------------------------
(* Steps that end a claim or make one                                        *)

LEMMA NoClaimType == NoClaim \in ClaimRow /\ NoClaim.token = 0
<1>1. NewClaim(1) \in ClaimRow
  BY BoundsAssumption, ThresholdsAssumption DEF NewClaim, ClaimRow, Stamp
<1>2. 0 \in 0..MaxClaims
  BY BoundsAssumption
<1> QED BY <1>1, <1>2 DEF NoClaim, ClaimRow

\* What a release says of a claim that stands has not been said of it before.
LEMMA InvReleases ==
  ASSUME IInv, NEW says, Releases(says), told \cap says = {}
  PROVE  claim' \in ClaimRow /\ ToldIsMarked' /\ NoticeOnce'
<1>1. claim' \in ClaimRow /\ ~Claimed'
  BY NoClaimType DEF Releases, Claimed
<1> QED BY <1>1 DEF Releases, IInv, ToldIsMarked, NoticeOnce

LEMMA DeathUntold ==
  ASSUME IInv, Claimed
  PROVE  told \cap {"dead", "lease_expired"} = {}
BY DEF IInv, ToldIsMarked

LEMMA InvCompletes ==
  ASSUME IInv, NEW t \in Token, Completes(t)
  PROVE  IInv'
<1>1. Releases({}) /\ Moves({"claim"}, {}) /\ minted' = minted
      /\ worker' = [worker EXCEPT ![t] = "dead"]
  BY DEF Completes
<1>2. worker' \in [Token -> Worker]
  BY <1>1 DEF IInv, Typed, Worker
<1>3. {"claim"} \in SUBSET Field
  BY DEF Field
<1>4. proc' \in [Ticker -> Proc] /\ TicksAreSound'
  BY <1>1, <1>3, MovesEffect
<1>5. claim' \in ClaimRow /\ ToldIsMarked' /\ NoticeOnce'
  BY <1>1, InvReleases
<1> QED BY <1>1, <1>2, <1>4, <1>5 DEF IInv, Typed

LEMMA InvDaemonPings ==
  ASSUME IInv, NEW t \in Token, DaemonPings(t)
  PROVE  IInv'
<1>1. UNCHANGED <<minted, worker, told, repeated>>
  BY DEF DaemonPings
<1>2. CASE claim.token = t
  <2>1. claim' = [claim EXCEPT !.heart = "fresh"] /\ Moves({"heart"}, {})
    BY <1>2 DEF DaemonPings, OpHeartbeat
  <2>2. /\ claim' \in ClaimRow /\ claim'.token = claim.token /\ claim'.tool = claim.tool
        /\ claim'.hung = claim.hung /\ claim'.stuck = claim.stuck
        /\ claim'.span = claim.span /\ claim'.idle = claim.idle
        /\ claim'.stalled = claim.stalled /\ claim'.failing = claim.failing
    BY <2>1, ClaimFields DEF ClaimRow
  <2>3. proc' \in [Ticker -> Proc] /\ TicksAreSound'
    <3>1. {"heart"} \in SUBSET Field
      BY DEF Field
    <3>2. Keeps(claim, worker, claim', worker', {"heart"}, {})
      BY <1>1, <2>2 DEF Keeps
    <3> QED BY <2>1, <3>1, <3>2, MovesEffect
  <2>4. ToldIsMarked' /\ NoticeOnce'
    BY <1>1, <2>2, InvMarks
  <2> QED BY <1>1, <2>2, <2>3, <2>4 DEF IInv, Typed
<1>3. CASE claim.token # t
  <2>1. UNCHANGED <<claim, proc>>
    BY <1>3 DEF DaemonPings, OpHeartbeat
  <2> QED BY <1>1, <2>1 DEF IInv, Typed, TicksAreSound, ToldIsMarked, Claimed, NoticeOnce
<1> QED BY <1>2, <1>3

LEMMA InvDaemonStrikes ==
  ASSUME IInv, NEW t \in Token, DaemonStrikes(t)
  PROVE  IInv'
<1>1. UNCHANGED <<minted, worker, proc>>
  BY DEF DaemonStrikes
<1>2. CASE UNCHANGED <<claim, told, repeated>>
  BY <1>1, <1>2 DEF IInv, Typed, TicksAreSound, ToldIsMarked, Claimed, NoticeOnce
<1>3. CASE /\ claim.token = t /\ ~claim.failing
           /\ claim' = [claim EXCEPT !.failing = TRUE] /\ Logs({"failing"})
  <2>1. /\ claim' \in ClaimRow /\ claim'.token = claim.token /\ claim'.tool = claim.tool
        /\ claim'.hung = claim.hung /\ claim'.stuck = claim.stuck
        /\ claim'.span = claim.span /\ claim'.idle = claim.idle /\ claim'.heart = claim.heart
        /\ claim'.stalled = claim.stalled /\ claim'.failing
    BY <1>3, ClaimFields DEF ClaimRow
  <2>2. TicksAreSound' /\ proc' \in [Ticker -> Proc]
    <3>1. Keeps(claim, worker, claim', worker', {}, {})
      BY <1>1, <2>1 DEF Keeps
    <3>2. proc' \in [Ticker -> Proc]
      BY <1>1 DEF IInv, Typed
    <3> QED BY <1>1, <3>1, <3>2, TicksStay
  <2>3. Claimed /\ "failing" \notin told
    BY <1>3 DEF IInv, ToldIsMarked, Claimed, Token
  <2>4. told' = told \cup {"failing"} /\ repeated' = repeated
    BY <1>3, <2>3 DEF Logs
  <2>5. ToldIsMarked' /\ NoticeOnce'
    BY <2>1, <2>3, <2>4 DEF IInv, ToldIsMarked, NoticeOnce, Claimed
  <2> QED BY <1>1, <2>1, <2>2, <2>5 DEF IInv, Typed
<1> QED BY <1>2, <1>3 DEF DaemonStrikes

LEMMA InvDaemonReportsDeath ==
  ASSUME IInv, NEW t \in Token, DaemonReportsDeath(t)
  PROVE  IInv'
<1>1. UNCHANGED <<minted, worker>>
  BY DEF DaemonReportsDeath
<1>2. CASE UNCHANGED <<claim, proc, told, repeated>>
  BY <1>1, <1>2 DEF IInv, Typed, TicksAreSound, ToldIsMarked, Claimed, NoticeOnce
<1>3. CASE claim.token = t /\ Releases({"dead"}) /\ Moves({"claim"}, {})
  <2>1. Claimed
    BY <1>3 DEF Claimed, Token
  <2>2. {"claim"} \in SUBSET Field
    BY DEF Field
  <2>3. proc' \in [Ticker -> Proc] /\ TicksAreSound'
    BY <1>3, <2>2, MovesEffect
  <2>4. claim' \in ClaimRow /\ ToldIsMarked' /\ NoticeOnce'
    BY <1>3, <2>1, DeathUntold, InvReleases
  <2> QED BY <1>1, <2>3, <2>4 DEF IInv, Typed
<1> QED BY <1>2, <1>3 DEF DaemonReportsDeath

LEMMA InvDispatches ==
  ASSUME IInv, Dispatches
  PROVE  IInv'
<1>1. minted' = minted + 1 /\ claim' = NewClaim(minted + 1) /\ Moves({"claim"}, {})
      /\ worker' = [worker EXCEPT ![minted + 1] = "works"] /\ told' = {} /\ repeated' = repeated
  BY DEF Dispatches
<1>2. minted' \in 0..MaxClaims /\ minted + 1 \in 0..MaxClaims
  BY <1>1, BoundsAssumption DEF Dispatches, IInv, Typed
<1>3. claim' \in ClaimRow
  BY <1>1, <1>2, ThresholdsAssumption DEF NewClaim, ClaimRow, Stamp
<1>4. worker' \in [Token -> Worker]
  BY <1>1 DEF IInv, Typed, Worker
<1>5. {"claim"} \in SUBSET Field
  BY DEF Field
<1>6. proc' \in [Ticker -> Proc] /\ TicksAreSound'
  BY <1>1, <1>5, MovesEffect
<1>7. ToldIsMarked' /\ NoticeOnce'
  BY <1>1 DEF IInv, ToldIsMarked, NoticeOnce
<1> QED BY <1>1, <1>2, <1>3, <1>4, <1>6, <1>7 DEF IInv, Typed

-----------------------------------------------------------------------------
(* A tick                                                                    *)

LEMMA RunType ==
  ASSUME IInv
  PROVE  Run \in 0..Need
BY ClaimFields, ThresholdsAssumption DEF Run

\* What a tick says is true of the claim it looks at.
LEMMA SayingIsTrue ==
  ASSUME NEW m
  PROVE  /\ Saying(m) \subseteq Notice \ {"failing"}
         /\ "idle" \in Saying(m) => claim.tool # "fresh" /\ claim.span # "active"
         /\ "stuck" \in Saying(m) => claim.tool = "old" /\ claim.hung
         /\ "stalled" \in Saying(m) => claim.heart = "old"
         /\ "dead" \in Saying(m) => worker[claim.token] = "dead"
BY DEF Saying, Notice, StalledClaim, StuckTool, WorkerIdle, MarkerSuppresses, Stalled

LEMMA InvLooks ==
  ASSUME IInv, NEW k \in Ticker, NEW n \in 0..Need, Looks(k, n), Claimed
  PROVE  IInv'
<1> DEFINE says == Saying(IF n > 0 THEN n ELSE claim.n)
           unset == {f \in {"tool", "span"} : "idle" \in says /\ claim[f] = "none"}
           r == [Off EXCEPT !.pc = "apply", !.token = claim.token, !.says = says, !.n = n,
                            !.unset = unset]
<1>1. proc' = [proc EXCEPT ![k] = r] /\ UNCHANGED <<claim, minted, worker, told, repeated>>
  BY DEF Looks
<1>2. /\ says \subseteq Notice \ {"failing"} /\ unset \subseteq {"tool", "span"}
      /\ "idle" \in says => claim.tool # "fresh" /\ claim.span # "active"
      /\ "stuck" \in says => claim.tool = "old" /\ claim.hung
      /\ "stalled" \in says => claim.heart = "old"
      /\ "dead" \in says => worker[claim.token] = "dead"
      /\ "tool" \in unset => claim.tool = "none"
  BY SayingIsTrue
<1> HIDE DEF says, unset
<1>3. /\ r \in Proc /\ r.token = claim.token /\ r.says = says /\ r.n = n
      /\ r.unset = unset /\ r.moved = {} /\ r.overtaken = FALSE
  <2>1. claim.token \in 0..MaxClaims /\ says \in SUBSET Notice /\ unset \in SUBSET {"tool", "span"}
    BY <1>2, ClaimFields
  <2> QED BY <2>1 DEF Off, Proc
<1> HIDE DEF r
<1>4. Shape(r) /\ Sound(claim, worker, r)
  BY <1>2, <1>3 DEF Shape, Sound, Claimed
<1>5. proc' \in [Ticker -> Proc] /\ proc'[k] = r /\ \A j \in Ticker : j # k => proc'[j] = proc[j]
  BY <1>1, <1>3 DEF IInv, Typed
<1>6. TicksAreSound'
  BY <1>1, <1>4, <1>5 DEF IInv, TicksAreSound
<1> QED BY <1>1, <1>5, <1>6 DEF IInv, Typed, ToldIsMarked, Claimed, NoticeOnce

LEMMA InvDecides ==
  ASSUME IInv, NEW k \in Ticker, Decides(k) \/ DecidesBlind(k)
  PROVE  IInv'
<1>1. 0 \in 0..Need
  BY ThresholdsAssumption
<1> QED BY <1>1, RunType, InvLooks DEF Decides, DecidesBlind

LEMMA InvCrashes ==
  ASSUME IInv, NEW k \in Ticker, proc' = [proc EXCEPT ![k] = Off],
         UNCHANGED <<claim, minted, worker, told, repeated>>
  PROVE  IInv'
<1>1. proc' \in [Ticker -> Proc] /\ proc'[k] = Off /\ \A j \in Ticker : j # k => proc'[j] = proc[j]
  BY OffType DEF IInv, Typed
<1>2. TicksAreSound'
  BY <1>1, OffType DEF IInv, TicksAreSound
<1> QED BY <1>1, <1>2 DEF IInv, Typed, ToldIsMarked, Claimed, NoticeOnce

\* A delta that holds is alive and says what is true, and nothing that is marked.
LEMMA HoldsMeans ==
  ASSUME IInv, NEW k \in Ticker, proc[k].pc = "apply", Holds(proc[k])
  PROVE  LET p == proc[k] IN
         /\ Claimed /\ claim.token = p.token /\ Sound(claim, worker, p)
         /\ "idle" \in p.says => "tool" \notin p.moved /\ "span" \notin p.moved
         /\ p.says \subseteq Notice \ {"failing"} /\ told \cap p.says = {}
<1> DEFINE p == proc[k]
<1>1. p \in Proc /\ Shape(p) /\ (Alive(p) => Sound(claim, worker, p))
  BY DEF IInv, Typed, TicksAreSound
<1> HIDE DEF p
<1>2. /\ p.moved \cap Requires(p) = {}
      /\ \A f \in {"stalled", "idle", "stuck"} : claim[f] => f \notin Requires(p)
  BY DEF Holds, p
<1>3. Alive(p)
  BY <1>1, <1>2, RequiresHas DEF Alive, p
<1>4. Sound(claim, worker, p) /\ claim.token # 0 /\ claim.token = p.token
  BY <1>1, <1>3 DEF Sound
<1>5. "idle" \in p.says => "tool" \notin p.moved /\ "span" \notin p.moved
  BY <1>1, <1>2, RequiresHas
<1>6. p.says \subseteq Notice \ {"failing"}
  BY <1>1 DEF Shape
<1>7. told \cap p.says = {}
  <2>1. /\ told \cap {"lease_expired", "dead"} = {}
        /\ told \cap {"stalled_claim", "stalled"} # {} => claim.stalled
        /\ "idle" \in told => claim.idle
        /\ "stuck" \in told => claim.stuck
    BY <1>4 DEF IInv, ToldIsMarked, Claimed
  <2>2. /\ "idle" \in p.says => ~claim.idle
        /\ "stuck" \in p.says => ~claim.stuck
        /\ p.says \cap {"stalled_claim", "stalled"} # {} => ~claim.stalled
    BY <1>1, <1>2, RequiresHas
  <2> QED BY <1>6, <2>1, <2>2 DEF Notice
<1> QED BY <1>4, <1>5, <1>6, <1>7 DEF Claimed, p

LEMMA WrittenKeeps ==
  ASSUME IInv, NEW p \in Proc, claim' = Written(p)
  PROVE  /\ claim' \in ClaimRow /\ claim'.token = claim.token /\ claim'.tool = claim.tool
         /\ claim'.hung = claim.hung /\ claim'.span = claim.span /\ claim'.heart = claim.heart
         /\ claim'.failing = claim.failing
         /\ claim'.stalled = (claim.stalled \/ p.says \cap {"stalled_claim", "stalled"} # {})
         /\ claim'.idle = (claim.idle \/ "idle" \in p.says)
         /\ claim'.stuck = (claim.stuck \/ "stuck" \in p.says)
<1> DEFINE stalled == claim.stalled \/ p.says \cap {"stalled_claim", "stalled"} # {}
           idle == claim.idle \/ "idle" \in p.says
           stuck == claim.stuck \/ "stuck" \in p.says
           n == IF p.n > 0 THEN p.n ELSE claim.n
           busy == IF p.n > 0 THEN p.worked ELSE claim.busy
<1>1. claim' = [claim EXCEPT !.stalled = stalled, !.idle = idle, !.stuck = stuck,
                             !.n = n, !.busy = busy]
  BY DEF Written
<1>2. claim \in ClaimRow
  BY DEF IInv, Typed
<1>3. stalled \in BOOLEAN /\ idle \in BOOLEAN /\ stuck \in BOOLEAN
  OBVIOUS
<1>4. n \in 0..Need
  BY <1>2, ProcFields DEF ClaimRow
<1>5. busy \in BOOLEAN
  BY <1>2 DEF ClaimRow, Proc
<1>6. /\ claim' \in ClaimRow /\ claim'.token = claim.token /\ claim'.tool = claim.tool
      /\ claim'.hung = claim.hung /\ claim'.span = claim.span /\ claim'.heart = claim.heart
      /\ claim'.failing = claim.failing
      /\ claim'.stalled = stalled /\ claim'.idle = idle /\ claim'.stuck = stuck
  <2> HIDE DEF stalled, idle, stuck, n, busy
  <2> QED BY <1>1, <1>2, <1>3, <1>4, <1>5 DEF ClaimRow
<1> QED BY <1>6

LEMMA InvApplies ==
  ASSUME IInv, NEW k \in Ticker, Applies(k)
  PROVE  IInv'
<1> DEFINE p == proc[k]
           ends == p.says \cap {"lease_expired", "dead"} # {}
           F == (IF p.n > 0 THEN {"samples"} ELSE {}) \cup (IF ends THEN {"claim"} ELSE {})
<1>1. p \in Proc /\ p.pc = "apply" /\ UNCHANGED <<minted, worker>> /\ F \in SUBSET Field
  BY DEF Applies, IInv, Typed, Field
<1>2. CASE ~Holds(p)
  <2>1. proc' = [proc EXCEPT ![k] = Off] /\ UNCHANGED <<claim, told, repeated>>
    BY <1>2 DEF Applies
  <2> QED BY <1>1, <2>1, InvCrashes
<1>3. CASE Holds(p)
  <2>1. /\ Claimed /\ told \cap p.says = {} /\ p.says \subseteq Notice \ {"failing"}
    BY <1>1, <1>3, HoldsMeans
  <2>2. proc' = [j \in Ticker |-> IF j = k THEN Off ELSE After(proc[j], F, {})]
    BY <1>3 DEF Applies
  <2> HIDE DEF F
  <2>3. /\ proc' = [j \in Ticker |-> proc'[j]]
        /\ \A j \in Ticker : proc'[j] = After(proc[j], F, {}) \/ proc'[j] = Off
    BY <2>2
  <2>4. CASE ends
    <3>1. Releases(p.says)
      BY <1>3, <2>4 DEF Applies
    <3>2. "claim" \in F
      BY <2>4 DEF F
    <3>3. proc' \in [Ticker -> Proc] /\ TicksAreSound'
      BY <1>1, <2>3, <3>2, TicksMove
    <3>4. claim' \in ClaimRow /\ ToldIsMarked' /\ NoticeOnce'
      BY <2>1, <3>1, InvReleases
    <3> QED BY <1>1, <3>3, <3>4 DEF IInv, Typed
  <2>5. CASE ~ends
    <3>1. claim' = Written(p) /\ Logs(p.says)
      BY <1>3, <2>5 DEF Applies
    <3>2. /\ claim' \in ClaimRow /\ claim'.token = claim.token /\ claim'.tool = claim.tool
          /\ claim'.hung = claim.hung /\ claim'.span = claim.span /\ claim'.heart = claim.heart
          /\ claim'.failing = claim.failing
          /\ claim'.stalled = (claim.stalled \/ p.says \cap {"stalled_claim", "stalled"} # {})
          /\ claim'.idle = (claim.idle \/ "idle" \in p.says)
          /\ claim'.stuck = (claim.stuck \/ "stuck" \in p.says)
      BY <1>1, <3>1, WrittenKeeps
    <3> HIDE DEF p
    <3>3. Keeps(claim, worker, claim', worker', F, {})
      BY <1>1, <3>2 DEF Keeps
    <3>4. proc' \in [Ticker -> Proc] /\ TicksAreSound'
      BY <1>1, <2>3, <3>3, TicksMove
    <3>5. told' = told \cup p.says /\ repeated' = repeated
      BY <2>1, <3>1 DEF Logs
    <3>6. ToldIsMarked'
      BY <2>1, <2>5, <3>2, <3>5 DEF IInv, ToldIsMarked, Claimed
    <3> QED BY <1>1, <3>2, <3>4, <3>5, <3>6 DEF IInv, Typed, NoticeOnce
  <2> QED BY <2>4, <2>5
<1> QED BY <1>2, <1>3

-----------------------------------------------------------------------------
(* The theorems                                                              *)

LEMMA InitInv == Init => IInv
<1> SUFFICES ASSUME Init PROVE IInv
  OBVIOUS
<1>1. \A k \in Ticker : proc[k] = Off
  BY DEF Init
<1>2. Typed
  <2>1. proc \in [Ticker -> Proc]
    BY OffType DEF Init
  <2>2. claim \in ClaimRow /\ minted \in 0..MaxClaims /\ worker \in [Token -> Worker]
    BY NoClaimType, BoundsAssumption DEF Init, Worker
  <2> QED BY <2>1, <2>2 DEF Typed
<1>3. TicksAreSound
  BY <1>1, OffType DEF TicksAreSound
<1>4. ToldIsMarked /\ NoticeOnce
  BY NoClaimType DEF Init, ToldIsMarked, Claimed, NoticeOnce
<1> QED BY <1>2, <1>3, <1>4 DEF IInv

LEMMA StepInv == IInv /\ [Next]_vars => IInv'
<1> SUFFICES ASSUME IInv, [Next]_vars PROVE IInv'
  OBVIOUS
<1>1. ASSUME NEW t \in Token,
             \/ StartsTool(t) \/ EndsTool(t) \/ DeclaresSpan(t) \/ Works(t)
             \/ WedgesOrDies(t) \/ Completes(t)
             \/ DaemonPings(t) \/ DaemonStrikes(t) \/ DaemonReportsDeath(t)
      PROVE  IInv'
  BY <1>1, InvStartsTool, InvEndsTool, InvDeclaresSpan, InvWorks, InvWedgesOrDies, InvCompletes,
     InvDaemonPings, InvDaemonStrikes, InvDaemonReportsDeath
<1>2. ASSUME NEW k \in Ticker, Decides(k) \/ DecidesBlind(k) \/ Applies(k) PROVE IInv'
  BY <1>2, InvDecides, InvApplies
<1>3. ASSUME NEW k \in Ticker, Crashes(k) PROVE IInv'
  BY <1>3, InvCrashes DEF Crashes
<1>4. CASE Dispatches
  BY <1>4, InvDispatches
<1>5. CASE HeartAges \/ ToolAges \/ SpanEnds \/ LeaseEnds \/ CronIsLate
  BY <1>5, InvTime
<1>6. CASE UNCHANGED vars
  BY <1>6 DEF vars, IInv, Typed, TicksAreSound, ToldIsMarked, Claimed, NoticeOnce
<1> QED BY <1>1, <1>2, <1>3, <1>4, <1>5, <1>6 DEF Next

\* The invariant all the theorems below rest on holds in every reachable state.
THEOREM Inductive == Spec => []IInv
<1> QED BY InitInv, StepInv, PTL DEF Spec

\* Whatever ticks and daemons race for a report of a claim, the log has it once.
THEOREM ToldOnce == Spec => []NoticeOnce
<1>1. IInv => NoticeOnce
  BY DEF IInv
<1> QED BY <1>1, Inductive, PTL

\* Only the write of a tick ends its delta and changes the claim or the log.
LEMMA WritersApply ==
  ASSUME IInv, [Next]_vars, NEW k \in Ticker, Writes(k)
  PROVE  Applies(k) /\ Holds(proc[k])
<1>1. proc[k].pc = "apply" /\ proc'[k] = Off /\ (claim' # claim \/ told' # told) /\ Off.pc = "off"
      /\ proc \in [Ticker -> Proc]
  BY OffType DEF Writes, IInv, Typed
<1>2. ASSUME NEW F \in SUBSET Field, NEW cleared
      PROVE  /\ After(proc[k], F, cleared) # Off
             /\ After(proc[k], F, cleared).pc = "apply" /\ After(proc[k], F, cleared) \in Proc
  <2>1. Shape(proc[k]) /\ proc[k] \in Proc
    BY <1>1 DEF IInv, TicksAreSound
  <2>2. After(proc[k], F, cleared).pc = "apply" /\ After(proc[k], F, cleared) \in Proc
    BY <1>1, <2>1, AfterEffect
  <2> QED BY <1>1, <2>2
<1>3. ASSUME NEW F \in SUBSET Field, NEW cleared, Moves(F, cleared) PROVE FALSE
  <2>1. proc'[k] = After(proc[k], F, cleared)
    BY <1>3 DEF Moves
  <2> QED BY <1>1, <1>2, <2>1
<1>4. proc' # proc
  BY <1>1
<1>5. \A F \in {{"tool"}, {"span"}, {"heart"}, {"claim"}, {"tool", "samples"}} : F \in SUBSET Field
  BY DEF Field
<1>6. ASSUME NEW t \in Token PROVE ~StartsTool(t)
  <2> SUFFICES ASSUME StartsTool(t) PROVE FALSE
    OBVIOUS
  <2> DEFINE F == {"tool", "samples"}
             none == {}
             q == After(proc[k], F, none)
  <2>1. proc'[k] = [q EXCEPT !.overtaken = @ \/ "idle" \in q.says]
    BY DEF StartsTool
  <2>2. F \in SUBSET Field
    BY <1>5
  <2> HIDE DEF F, none
  <2>3. q.pc = "apply" /\ q \in Proc
    BY <1>2, <2>2
  <2> HIDE DEF q
  <2>4. proc'[k].pc = "apply"
    BY <2>1, <2>3 DEF Proc
  <2> QED BY <1>1, <2>4
<1>7. ASSUME NEW t \in Token PROVE ~Works(t)
  <2> SUFFICES ASSUME Works(t) PROVE FALSE
    OBVIOUS
  <2>1. proc'[k] = [proc[k] EXCEPT !.worked = @ \/ proc[k].n > 0] /\ proc[k] \in Proc
    BY <1>1 DEF Works
  <2>2. proc'[k].pc = "apply"
    BY <1>1, <2>1 DEF Proc
  <2> QED BY <1>1, <2>2
<1>8. ASSUME NEW t \in Token
      PROVE  ~(EndsTool(t) \/ DeclaresSpan(t) \/ Completes(t) \/ DaemonPings(t) \/ DaemonReportsDeath(t))
  BY <1>3, <1>4, <1>5 DEF EndsTool, DeclaresSpan, Completes, DaemonPings, DaemonReportsDeath
<1>9. ASSUME NEW t \in Token PROVE ~(WedgesOrDies(t) \/ DaemonStrikes(t))
  BY <1>4 DEF WedgesOrDies, DaemonStrikes
<1>10. ~Dispatches
  BY <1>3, <1>5 DEF Dispatches
<1>11. ~(HeartAges \/ ToolAges \/ SpanEnds \/ LeaseEnds \/ CronIsLate \/ UNCHANGED vars)
  BY <1>4 DEF HeartAges, ToolAges, SpanEnds, LeaseEnds, CronIsLate, Ages, vars
<1>12. ASSUME NEW j \in Ticker PROVE ~(Decides(j) \/ DecidesBlind(j) \/ Crashes(j))
  BY <1>1 DEF Decides, DecidesBlind, Looks, Crashes
<1>13. PICK j \in Ticker : Applies(j)
  BY <1>6, <1>7, <1>8, <1>9, <1>10, <1>11, <1>12 DEF Next
<1>14. Holds(proc[j])
  BY <1>1, <1>13 DEF Applies
<1>15. j = k
  <2> SUFFICES ASSUME j # k PROVE FALSE
    OBVIOUS
  <2> DEFINE F == (IF proc[j].n > 0 THEN {"samples"} ELSE {})
                  \cup (IF proc[j].says \cap {"lease_expired", "dead"} # {} THEN {"claim"} ELSE {})
  <2>1. F \in SUBSET Field
    BY DEF Field
  <2>2. proc'[k] = After(proc[k], F, {})
    BY <1>13, <1>14 DEF Applies
  <2> HIDE DEF F
  <2> QED BY <1>1, <1>2, <2>1, <2>2
<1> QED BY <1>13, <1>14, <1>15

\* What a tick writes about a claim is true of the claim that stands when it
\* writes: the preconditions of the delta are enough.
THEOREM NoticesCurrent == Spec => NoticesAreCurrent
<1> DEFINE Current == \A k \in Ticker :
             /\ Writes(k) => claim.token = proc[k].token
             /\ Says(k, "idle") => /\ claim.tool # "fresh" /\ claim.span # "active"
                                   /\ proc[k].n > 0 => ~proc[k].overtaken
             /\ Says(k, "stuck") => claim.tool = "old" /\ claim.hung
             /\ Says(k, "stalled") => claim.heart = "old"
             /\ Says(k, "dead") => worker[claim.token] = "dead"
<1>1. IInv /\ [Next]_vars => Current
  <2> SUFFICES ASSUME IInv, [Next]_vars, NEW k \in Ticker, Writes(k)
               PROVE  /\ claim.token = proc[k].token
                      /\ "idle" \in proc[k].says =>
                           /\ claim.tool # "fresh" /\ claim.span # "active"
                           /\ proc[k].n > 0 => ~proc[k].overtaken
                      /\ "stuck" \in proc[k].says => claim.tool = "old" /\ claim.hung
                      /\ "stalled" \in proc[k].says => claim.heart = "old"
                      /\ "dead" \in proc[k].says => worker[claim.token] = "dead"
    BY DEF Says
  <2>1. proc[k].pc = "apply" /\ Holds(proc[k])
    BY WritersApply DEF Writes
  <2>2. /\ claim.token = proc[k].token /\ Sound(claim, worker, proc[k])
        /\ "idle" \in proc[k].says => "tool" \notin proc[k].moved /\ "span" \notin proc[k].moved
    BY <2>1, HoldsMeans
  <2> QED BY <2>2 DEF Sound
<1> QED BY <1>1, Inductive, PTL DEF Spec, NoticesAreCurrent

-----------------------------------------------------------------------------
(* The claim seen from outside                                              *)

Claims == INSTANCE ClaimTable WITH Plan <- {0}, holder <- [p \in {0} |-> claim.token]
ClaimStep == [Claims!Next]_(Claims!claimTable)

\* What a step may do to the plan's row of the table.
LEMMA RowMoves ==
  ASSUME \/ UNCHANGED minted /\ claim'.token \in {0, claim.token}
         \/ claim.token = 0 /\ minted' = minted + 1 /\ claim'.token = minted + 1
  PROVE  ClaimStep
<1>1. CASE UNCHANGED minted /\ claim'.token = claim.token
  BY <1>1 DEF ClaimStep, Claims!claimTable
<1>2. CASE UNCHANGED minted /\ claim'.token = 0 /\ claim.token # 0
  BY <1>2 DEF ClaimStep, Claims!Next, Claims!GiveUp
<1>3. CASE claim.token = 0 /\ minted' = minted + 1 /\ claim'.token = minted + 1
  BY <1>3 DEF ClaimStep, Claims!Next, Claims!Take
<1> QED BY <1>1, <1>2, <1>3

LEMMA StepKeepsClaims == IInv /\ [Next]_vars => ClaimStep
<1> SUFFICES ASSUME IInv, [Next]_vars PROVE ClaimStep
  OBVIOUS
<1>1. NoClaim.token = 0 /\ NewClaim(minted + 1).token = minted + 1
  BY NoClaimType DEF NewClaim
<1> DEFINE Same == UNCHANGED minted /\ claim'.token = claim.token
           Gone == UNCHANGED minted /\ claim' = NoClaim
<1>2. claim \in ClaimRow
  BY DEF IInv, Typed
<1>3. CASE Dispatches
  <2>1. claim.token = 0 /\ minted' = minted + 1 /\ claim'.token = minted + 1
    BY <1>1, <1>3 DEF Dispatches, Claimed
  <2> QED BY <2>1, RowMoves
<1>4. ASSUME NEW t \in Token, StartsTool(t) \/ EndsTool(t) \/ DeclaresSpan(t) \/ Works(t)
      PROVE  Same
  BY <1>2, <1>4 DEF StartsTool, EndsTool, DeclaresSpan, Works, ClaimRow
<1>5. ASSUME NEW t \in Token, WedgesOrDies(t) \/ DaemonPings(t) \/ DaemonStrikes(t)
      PROVE  Same
  BY <1>2, <1>5 DEF WedgesOrDies, DaemonPings, OpHeartbeat, DaemonStrikes, ClaimRow
<1>6. ASSUME NEW t \in Token, Completes(t) \/ DaemonReportsDeath(t)
      PROVE  Same \/ Gone
  BY <1>6 DEF Completes, DaemonReportsDeath, Releases
<1>7. ASSUME NEW k \in Ticker, Decides(k) \/ DecidesBlind(k) \/ Applies(k) \/ Crashes(k)
      PROVE  Same \/ Gone
  <2>1. CASE Decides(k) \/ DecidesBlind(k) \/ Crashes(k)
    BY <2>1 DEF Decides, DecidesBlind, Looks, Crashes
  <2>2. CASE Applies(k)
    <3>1. UNCHANGED minted /\ claim' \in {claim, NoClaim, Written(proc[k])}
      BY <2>2 DEF Applies, Releases
    <3>2. Written(proc[k]).token = claim.token
      BY <1>2 DEF Written, ClaimRow
    <3> QED BY <3>1, <3>2
  <2> QED BY <1>7, <2>1, <2>2
<1>8. ASSUME HeartAges \/ ToolAges \/ SpanEnds \/ LeaseEnds \/ CronIsLate
      PROVE  Same
  <2>1. CASE HeartAges
    BY <1>2, <2>1 DEF HeartAges, Ages, ClaimRow
  <2>2. CASE ToolAges
    BY <1>2, <2>2 DEF ToolAges, Ages, ClaimRow
  <2>3. CASE SpanEnds
    BY <1>2, <2>3 DEF SpanEnds, Ages, ClaimRow
  <2>4. CASE LeaseEnds \/ CronIsLate
    BY <1>2, <2>4 DEF LeaseEnds, CronIsLate, Ages, ClaimRow
  <2> QED BY <1>8, <2>1, <2>2, <2>3, <2>4
<1>9. UNCHANGED vars => Same
  BY DEF vars
<1>10. Dispatches \/ Same \/ Gone
  BY <1>4, <1>5, <1>6, <1>7, <1>8, <1>9 DEF Next
<1> QED BY <1>1, <1>3, <1>10, RowMoves

\* Heartbeats, notices and reports of a death keep to the table of claims
\* (ClaimTable).
THEOREM KeepsClaims == Spec => Claims!Spec
<1>1. Init => Claims!Init
  BY NoClaimType DEF Init, Claims!Init
<1>2. IInv /\ [Next]_vars => [Claims!Next]_(Claims!claimTable)
  BY StepKeepsClaims DEF ClaimStep
<1> QED BY <1>1, <1>2, Inductive, PTL DEF Spec, Claims!Spec
=============================================================================
