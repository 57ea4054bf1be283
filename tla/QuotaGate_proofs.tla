------------------------- MODULE QuotaGate_proofs -------------------------
(***************************************************************************)
(* The safety theorems of QuotaGate, for every set of plans, every length   *)
(* of the day, the buffer and the window, and every number of claims,       *)
(* deaths and faults.                                                       *)
(*                                                                          *)
(* An attempt is forgiven where its claim is released, by a process that    *)
(* may have been told of the death long before: the invariant follows the   *)
(* token it carries.  A token is minted once and what its worker came to is *)
(* final, so a process that is about to release one either carries a death  *)
(* that needs no pause or has written the pause itself.                     *)
(***************************************************************************)
EXTENDS QuotaGate, TLAPS

Minted == 1..minted

\* What became of a worker is known of the minted tokens only, and they are the
\* only ones claimed or carried by a process that has seen a death.
TokensAreMinted ==
  /\ \A t \in Token : t \notin Minted => fate[t] = "none"
  /\ \A t \in Token : t \in Minted => fate[t] # "none"
  /\ \A p \in Plan : claim[p] # 0 => claim[p] \in Minted
  /\ \A k \in Process : proc[k].pc \in {"fastfail", "record", "release"} => proc[k].token \in Minted

\* A process that will forgive has recorded, or has nothing to forgive.
CarriedDeaths ==
  \A k \in Process :
    /\ At(k, "record") => fate[proc[k].token] \in QuotaDeaths
    /\ At(k, "release") => fate[proc[k].token] = "gone" \/ proc[k].token \in recorded

IInv == TypeOK /\ TokensAreMinted /\ CarriedDeaths /\ OneProbe /\ ForgivenWasRecorded

-----------------------------------------------------------------------------
(* Types                                                                     *)

PlanTypeOK ==
  /\ claim \in [Plan -> 0..MaxClaims] /\ fate \in [Token -> Fate]
  /\ minted \in 0..MaxClaims /\ forgiven \subseteq Token

LEMMA IdleType ==
  /\ Idle \in Proc /\ Idle.pc = "idle" /\ Idle.token = 0
  /\ \A p \in Plan : <<p, "tick">> \in Process /\ <<p, "daemon">> \in Process
BY BoundsAssumption DEF Idle, Proc, PC, Process

LEMMA GotoType ==
  ASSUME TypeOK, NEW k \in Process, NEW pc \in PC, NEW t \in 0..MaxClaims, NEW fast \in BOOLEAN,
         Goto(k, pc, t, fast)
  PROVE  /\ proc' \in [Process -> Proc] /\ proc'[k].pc = pc /\ proc'[k].token = t
         /\ \A j \in Process : j # k => proc'[j] = proc[j]
<1> DEFINE q == [Idle EXCEPT !.pc = pc, !.token = t, !.fast = fast]
<1>1. q \in Proc /\ q.pc = pc /\ q.token = t
  BY IdleType DEF Proc, Idle
<1>2. proc' = [proc EXCEPT ![k] = q]
  BY DEF Goto
<1> HIDE DEF q
<1> QED BY <1>1, <1>2 DEF TypeOK

LEMMA EndsType ==
  ASSUME TypeOK, NEW k \in Process, Ends(k)
  PROVE  /\ proc' \in [Process -> Proc] /\ proc'[k].pc = "idle"
         /\ \A j \in Process : j # k => proc'[j] = proc[j]
BY IdleType DEF TypeOK, Ends

LEMMA ProcFields ==
  ASSUME TypeOK, NEW k \in Process
  PROVE  /\ proc[k].pc \in PC /\ proc[k].token \in 0..MaxClaims /\ proc[k].fast \in BOOLEAN
BY DEF TypeOK, Proc

LEMMA PauseTypes ==
  /\ \A row \in Pause : row # NoPause /\ row.until \in 0..Stuck /\ row.canary \in Plan \cup {Nobody}
                        /\ row.deadline \in 0..Window
  /\ NoPause.until = -1 /\ Stuck \in Nat /\ Far \in Nat
  /\ \A u \in 0..Stuck : NewPause(u) \in Pause /\ NewPause(u).canary = Nobody
  /\ \A row \in Pause, p \in Plan :
       /\ [row EXCEPT !.canary = p, !.deadline = Window] \in Pause
       /\ [row EXCEPT !.canary = p, !.deadline = Window].canary = p
  /\ \A row \in Pause, u \in 0..Stuck, d \in 0..Window :
       /\ [row EXCEPT !.until = u, !.deadline = d] \in Pause
       /\ [row EXCEPT !.until = u, !.deadline = d].canary = row.canary
<1> USE TimesAssumption
<1>1. Stuck \in Nat /\ Far \in Nat
  BY DEF Stuck, Far
<1>2. NoPause.until = -1
  BY DEF NoPause
<1>3. \A row \in Pause : row # NoPause /\ row.until \in 0..Stuck
                         /\ row.canary \in Plan \cup {Nobody} /\ row.deadline \in 0..Window
  <2> SUFFICES ASSUME NEW row \in Pause
               PROVE  row # NoPause /\ row.until \in 0..Stuck
                      /\ row.canary \in Plan \cup {Nobody} /\ row.deadline \in 0..Window
    OBVIOUS
  <2>1. row.until \in 0..Stuck /\ row.canary \in Plan \cup {Nobody} /\ row.deadline \in 0..Window
    BY DEF Pause
  <2> QED BY <1>2, <2>1
<1>4. \A u \in 0..Stuck : NewPause(u) \in Pause /\ NewPause(u).canary = Nobody
  BY DEF NewPause, Pause
<1>5. \A row \in Pause, p \in Plan :
        /\ [row EXCEPT !.canary = p, !.deadline = Window] \in Pause
        /\ [row EXCEPT !.canary = p, !.deadline = Window].canary = p
  <2>1. Window \in 0..Window
    OBVIOUS
  <2> QED BY <2>1 DEF Pause
<1>6. \A row \in Pause, u \in 0..Stuck, d \in 0..Window :
        /\ [row EXCEPT !.until = u, !.deadline = d] \in Pause
        /\ [row EXCEPT !.until = u, !.deadline = d].canary = row.canary
  BY DEF Pause
<1> QED BY <1>1, <1>2, <1>3, <1>4, <1>5, <1>6

LEMMA PauseFields ==
  ASSUME TypeOK
  PROVE  /\ ~Paused => pause.until # 0
         /\ Paused => /\ pause \in Pause /\ pause.until \in 0..Stuck
                      /\ pause.deadline \in 0..Window
<1>1. ~Paused => pause.until # 0
  BY DEF Paused, NoPause
<1>2. Paused => pause \in Pause
  BY DEF TypeOK, Paused
<1>3. \A row \in Pause : row.until \in 0..Stuck /\ row.deadline \in 0..Window
  BY DEF Pause
<1> QED BY <1>1, <1>2, <1>3

LEMMA StuckIsFar == Stuck \in Nat /\ Stuck \in 0..Stuck /\ 0 \in 0..Stuck
<1>1. Stuck \in Nat
  BY PauseTypes
<1> QED BY <1>1

-----------------------------------------------------------------------------
(* Steps of a process                                                        *)

\* What a process may carry after its step.
MayCarry(k) ==
  LET q == proc'[k] IN
  /\ q.pc \in {"fastfail", "record", "release"} => q.token \in Minted
  /\ q.pc = "record" => fate[q.token] \in QuotaDeaths
  /\ q.pc = "release" => fate[q.token] = "gone" \/ q.token \in recorded'

LEMMA InvCarries ==
  ASSUME IInv, NEW k \in Process, MayCarry(k),
         \A j \in Process : j # k => proc'[j] = proc[j],
         UNCHANGED <<fate, minted>>, recorded \subseteq recorded',
         \A p \in Plan : claim'[p] \in {claim[p], 0}
  PROVE  TokensAreMinted' /\ CarriedDeaths'
<1>1. TokensAreMinted'
  <2>1. \A j \in Process : proc'[j].pc \in {"fastfail", "record", "release"}
                            => proc'[j].token \in Minted
    BY DEF MayCarry, IInv, TokensAreMinted
  <2>2. \A p \in Plan : claim'[p] # 0 => claim'[p] \in Minted
    BY DEF IInv, TokensAreMinted
  <2> QED BY <2>1, <2>2 DEF IInv, TokensAreMinted, Minted
<1>2. CarriedDeaths'
  <2> SUFFICES ASSUME NEW j \in Process
               PROVE  /\ proc'[j].pc = "record" => fate[proc'[j].token] \in QuotaDeaths
                      /\ proc'[j].pc = "release" => \/ fate[proc'[j].token] = "gone"
                                                    \/ proc'[j].token \in recorded'
    BY DEF CarriedDeaths, At
  <2>1. CASE j = k
    BY <2>1 DEF MayCarry
  <2>2. CASE j # k
    BY <2>2 DEF IInv, CarriedDeaths, At
  <2> QED BY <2>1, <2>2
<1> QED BY <1>1, <1>2

\* A process that writes nothing but its own state.
LEMMA InvLooks ==
  ASSUME IInv, NEW k \in Process, MayCarry(k), proc' \in [Process -> Proc],
         \A j \in Process : j # k => proc'[j] = proc[j],
         UNCHANGED <<clock, pause, planVars, probes, recorded>>,
         left' \in [deaths : 0..MaxDeaths, faults : 0..MaxFaults]
  PROVE  IInv'
<1>1. TypeOK'
  BY DEF IInv, TypeOK, planVars
<1>2. TokensAreMinted' /\ CarriedDeaths'
  BY InvCarries DEF planVars
<1>3. OneProbe' /\ ForgivenWasRecorded'
  BY DEF IInv, OneProbe, ForgivenWasRecorded, Paused, planVars
<1> QED BY <1>1, <1>2, <1>3 DEF IInv

LEMMA CarriedFate ==
  ASSUME IInv, NEW t \in Minted
  PROVE  t \in Token /\ fate[t] \in Fate /\ fate[t] # "none"
<1>1. t \in Token
  BY BoundsAssumption DEF IInv, TypeOK, Minted, Token
<1> QED BY <1>1 DEF IInv, TypeOK, TokensAreMinted

LEMMA InvSeesDeath ==
  ASSUME IInv, NEW k \in Process, NEW p \in Plan, SeesDeath(k, p)
  PROVE  IInv'
<1> DEFINE t == claim[p]
           pc == IF fate[t] \in QuotaDeaths THEN "record" ELSE "release"
<1>1. TypeOK /\ t \in Minted /\ t \in 0..MaxClaims /\ pc \in PC
  BY DEF IInv, SeesDeath, TokensAreMinted, TypeOK, PC
<1>2. fate[t] \in Fate \ {"none", "runs"}
  BY <1>1, CarriedFate DEF SeesDeath
<1>3. fate[t] \in QuotaDeaths \/ fate[t] = "gone"
  BY <1>2 DEF Fate, QuotaDeaths
<1>4. Goto(k, pc, t, FALSE)
  BY DEF SeesDeath
<1> HIDE DEF t
<1>5. /\ proc' \in [Process -> Proc] /\ proc'[k].pc = pc /\ proc'[k].token = t
      /\ \A j \in Process : j # k => proc'[j] = proc[j]
  <2> HIDE DEF pc
  <2> QED BY <1>1, <1>4, GotoType
<1>6. MayCarry(k)
  BY <1>1, <1>3, <1>5 DEF MayCarry
<1>7. UNCHANGED <<clock, pause, planVars, probes, recorded>> /\ left' = left
  BY DEF SeesDeath
<1>8. left' \in [deaths : 0..MaxDeaths, faults : 0..MaxFaults]
  BY <1>7 DEF IInv, TypeOK
<1> QED BY <1>5, <1>6, <1>7, <1>8, InvLooks

LEMMA InvSeesFastFail ==
  ASSUME IInv, NEW k \in Process, SeesFastFail(k)
  PROVE  IInv'
<1> DEFINE t == proc[k].token
<1>1. TypeOK /\ t \in Minted /\ t \in 0..MaxClaims
  BY ProcFields DEF IInv, SeesFastFail, TokensAreMinted, At
<1>2. UNCHANGED <<clock, pause, planVars, probes, recorded>> /\ left' = left
  BY DEF SeesFastFail
<1>3. left' \in [deaths : 0..MaxDeaths, faults : 0..MaxFaults]
  BY <1>2 DEF IInv, TypeOK
<1>4. "record" \in PC /\ "release" \in PC
  BY DEF PC
<1>5. /\ proc' \in [Process -> Proc] /\ MayCarry(k)
      /\ \A j \in Process : j # k => proc'[j] = proc[j]
  <2>1. CASE fate[t] \in QuotaDeaths /\ Goto(k, "record", t, TRUE)
    BY <1>1, <1>4, <2>1, GotoType DEF MayCarry
  <2>2. CASE fate[t] = "gone" /\ Goto(k, "release", t, TRUE)
    BY <1>1, <1>4, <2>2, GotoType DEF MayCarry
  <2>3. CASE Ends(k)
    BY <1>1, <2>3, EndsType DEF MayCarry
  <2> QED BY <2>1, <2>2, <2>3 DEF SeesFastFail
<1> QED BY <1>2, <1>3, <1>5, InvLooks

LEMMA InvAsksGate ==
  ASSUME IInv, NEW k \in Process, NEW p \in Plan, AsksGate(k, p)
  PROVE  IInv'
<1> DEFINE q == [Idle EXCEPT !.pc = IF Paused THEN "gate" ELSE "pass", !.seen = pause]
<1>1. q \in Proc /\ q.pc \in {"gate", "pass"}
  BY IdleType DEF Proc, PC, Idle, IInv, TypeOK
<1>2. proc' = [proc EXCEPT ![k] = q]
  BY DEF AsksGate
<1> HIDE DEF q
<1>3. /\ proc' \in [Process -> Proc] /\ MayCarry(k)
      /\ \A j \in Process : j # k => proc'[j] = proc[j]
  BY <1>1, <1>2 DEF IInv, TypeOK, MayCarry
<1>4. UNCHANGED <<clock, pause, planVars, probes, recorded>> /\ left' = left
  BY DEF AsksGate
<1>5. left' \in [deaths : 0..MaxDeaths, faults : 0..MaxFaults]
  BY <1>4 DEF IInv, TypeOK
<1> QED BY <1>3, <1>4, <1>5, InvLooks

LEMMA FaultsType ==
  ASSUME TypeOK, Faults
  PROVE  left' \in [deaths : 0..MaxDeaths, faults : 0..MaxFaults]
BY BoundsAssumption DEF TypeOK, Faults

LEMMA InvGateDegrades ==
  ASSUME IInv, NEW k \in Process, NEW p \in Plan, GateDegrades(k, p)
  PROVE  IInv'
<1>1. TypeOK /\ Goto(k, "pass", 0, FALSE) /\ Faults
      /\ UNCHANGED <<clock, pause, planVars, probes, recorded>>
  BY DEF IInv, GateDegrades, Lets
<1>2. "pass" \in PC /\ 0 \in 0..MaxClaims
  BY BoundsAssumption DEF PC
<1>3. /\ proc' \in [Process -> Proc] /\ MayCarry(k)
      /\ \A j \in Process : j # k => proc'[j] = proc[j]
  BY <1>1, <1>2, GotoType DEF MayCarry
<1> QED BY <1>1, <1>3, FaultsType, InvLooks

LEMMA InvCrashes ==
  ASSUME IInv, NEW k \in Process, Crashes(k)
  PROVE  IInv'
<1>1. TypeOK /\ Ends(k) /\ Faults
  BY DEF IInv, Crashes
<1>2. /\ proc' \in [Process -> Proc] /\ MayCarry(k)
      /\ \A j \in Process : j # k => proc'[j] = proc[j]
  BY <1>1, EndsType DEF MayCarry
<1> QED BY <1>1, <1>2, FaultsType, InvLooks DEF Crashes

-----------------------------------------------------------------------------
(* Steps that write the pause                                                *)

\* The pause is recorded before the process can forgive.
LEMMA InvRecordsPause ==
  ASSUME IInv, NEW k \in Process, RecordsPause(k)
  PROVE  IInv'
<1> DEFINE t == proc[k].token
           until == IF fate[t] = "limit" THEN UntilReset + Buffer ELSE Stuck
<1>1. TypeOK /\ t \in Minted /\ t \in 0..MaxClaims /\ t \in Token /\ proc[k].fast \in BOOLEAN
  BY ProcFields, CarriedFate DEF IInv, RecordsPause, TokensAreMinted, At
<1>2. until \in 0..Stuck
  <2>1. UntilReset \in 0..Day
    BY <1>1, TimesAssumption DEF UntilReset, TypeOK
  <2>2. UntilReset + Buffer \in 0..Stuck
    BY <2>1, TimesAssumption DEF Stuck, Far
  <2> HIDE DEF t
  <2> QED BY <2>2, StuckIsFar
<1>3. pause' = NewPause(until) /\ Goto(k, "release", t, proc[k].fast)
      /\ probes' = {} /\ recorded' = recorded \cup {t}
      /\ UNCHANGED <<clock, claim, fate, minted, forgiven, left>>
  BY DEF RecordsPause, planVars
<1> HIDE DEF t, until
<1>4. pause' \in Pause /\ pause'.canary = Nobody /\ pause' # NoPause
  BY <1>2, <1>3, PauseTypes
<1>5. /\ proc' \in [Process -> Proc] /\ proc'[k].pc = "release" /\ proc'[k].token = t
      /\ \A j \in Process : j # k => proc'[j] = proc[j]
  <2>1. "release" \in PC
    BY DEF PC
  <2> QED BY <1>1, <1>3, <2>1, GotoType
<1>6. TypeOK'
  BY <1>1, <1>3, <1>4, <1>5 DEF TypeOK
<1>7. TokensAreMinted' /\ CarriedDeaths'
  <2>1. MayCarry(k)
    BY <1>1, <1>3, <1>5 DEF MayCarry
  <2> QED BY <1>3, <1>5, <2>1, InvCarries
<1>8. OneProbe' /\ ForgivenWasRecorded'
  BY <1>3, <1>4 DEF IInv, OneProbe, ForgivenWasRecorded, Paused
<1> QED BY <1>6, <1>7, <1>8 DEF IInv

\* A plan that is let through either is the canary or lifts the pause.
LEMMA InvGateDecides ==
  ASSUME IInv, NEW k \in Process, NEW p \in Plan, GateDecides(k, p)
  PROVE  IInv'
<1>1. TypeOK /\ Judges(k, p, pause)
      /\ UNCHANGED <<clock, claim, fate, minted, forgiven, left, recorded>>
  BY DEF IInv, GateDecides, planVars
<1>2. Lets(k, p) \/ Ends(k)
  BY <1>1 DEF Judges, Holds
<1>3. /\ proc' \in [Process -> Proc] /\ MayCarry(k)
      /\ \A j \in Process : j # k => proc'[j] = proc[j]
  <2>1. "pass" \in PC /\ 0 \in 0..MaxClaims
    BY BoundsAssumption DEF PC
  <2>2. CASE Lets(k, p)
    BY <1>1, <2>1, <2>2, GotoType DEF Lets, MayCarry
  <2>3. CASE Ends(k)
    BY <1>1, <2>3, EndsType DEF MayCarry
  <2> QED BY <1>2, <2>2, <2>3
<1>4. \/ pause' = pause /\ probes' = probes
      \/ pause' = NoPause /\ probes' = {}
      \/ /\ pause \in Pause /\ pause.canary = Nobody /\ probes' = probes \cup {p}
         /\ pause' = [pause EXCEPT !.canary = p, !.deadline = Window]
  <2>1. pause.until = 0 => pause \in Pause
    BY <1>1, PauseFields DEF Paused
  <2> QED BY <1>1, <2>1 DEF Judges, Holds
<1>5. pause' \in Pause \cup {NoPause} /\ probes' \subseteq Plan /\ OneProbe'
  <2>1. CASE pause' = pause /\ probes' = probes
    BY <1>1, <2>1 DEF IInv, TypeOK, OneProbe, Paused
  <2>2. CASE pause' = NoPause /\ probes' = {}
    BY <2>2 DEF OneProbe, Paused
  <2>3. CASE /\ pause \in Pause /\ pause.canary = Nobody /\ probes' = probes \cup {p}
             /\ pause' = [pause EXCEPT !.canary = p, !.deadline = Window]
    <3>1. pause' \in Pause /\ pause'.canary = p
      BY <2>3, PauseTypes
    <3>2. pause # NoPause /\ pause' # NoPause /\ p # Nobody
      BY <2>3, <3>1, PauseTypes, NobodyAssumption
    <3>3. probes = {}
      BY <2>3, <3>2 DEF IInv, OneProbe, Paused
    <3> QED BY <2>3, <3>1, <3>2, <3>3 DEF OneProbe, Paused
  <2> QED BY <1>4, <2>1, <2>2, <2>3
<1>6. TypeOK'
  BY <1>1, <1>3, <1>5 DEF TypeOK
<1>7. TokensAreMinted' /\ CarriedDeaths'
  BY <1>1, <1>3, InvCarries
<1>8. ForgivenWasRecorded'
  BY <1>1 DEF IInv, ForgivenWasRecorded
<1> QED BY <1>5, <1>6, <1>7, <1>8 DEF IInv

LEMMA ClockType ==
  ASSUME NEW n \in 0..(Day - 1)
  PROVE  (n + 1) % Day \in 0..(Day - 1)
BY TimesAssumption

LEMMA InvTimePasses ==
  ASSUME IInv, TimePasses
  PROVE  IInv'
<1>1. TypeOK /\ UNCHANGED <<claim, fate, minted, forgiven, proc, left, probes, recorded>>
  BY DEF IInv, TimePasses, planVars
<1>2. clock' \in 0..(Day - 1)
  BY <1>1, ClockType DEF TypeOK, TimePasses
<1>3. /\ pause' \in Pause \cup {NoPause}
      /\ Paused' = Paused /\ pause'.canary = pause.canary
  <2>1. CASE ~Paused
    BY <2>1 DEF TimePasses, Paused
  <2>2. CASE Paused
    <3> DEFINE u == IF pause.until = Stuck THEN Stuck ELSE Less(pause.until)
               d == Less(pause.deadline)
               row == [pause EXCEPT !.until = u, !.deadline = d]
    <3>1. pause \in Pause /\ pause.until \in 0..Stuck /\ pause.deadline \in 0..Window
      BY <1>1, <2>2, PauseFields
    <3>2. \A top \in Nat : \A n \in 0..top : Less(n) \in 0..top
      BY DEF Less
    <3>3. u \in 0..Stuck /\ d \in 0..Window
      BY <3>1, <3>2, StuckIsFar, TimesAssumption
    <3>4. pause' = row
      BY <2>2 DEF TimePasses
    <3> HIDE DEF u, d
    <3>5. row \in Pause /\ row.canary = pause.canary
      BY <3>1, <3>3 DEF Pause
    <3> HIDE DEF row
    <3>6. pause' \in Pause /\ pause'.canary = pause.canary
      BY <3>4, <3>5
    <3> QED BY <2>2, <3>6, PauseTypes DEF Paused
  <2> QED BY <2>1, <2>2
<1>4. TypeOK'
  BY <1>1, <1>2, <1>3 DEF TypeOK
<1>5. OneProbe' /\ TokensAreMinted' /\ CarriedDeaths' /\ ForgivenWasRecorded'
  BY <1>1, <1>3 DEF IInv, OneProbe, TokensAreMinted, CarriedDeaths, ForgivenWasRecorded, At, Minted
<1> QED BY <1>4, <1>5 DEF IInv

LEMMA InvOperatorClears ==
  ASSUME IInv, OperatorClears
  PROVE  IInv'
<1>1. TypeOK /\ UNCHANGED <<clock, claim, fate, minted, forgiven, proc, recorded>>
      /\ pause' = NoPause /\ probes' = {} /\ Faults
  BY DEF IInv, OperatorClears, planVars
<1>2. TypeOK'
  BY <1>1, FaultsType DEF TypeOK
<1>3. OneProbe' /\ TokensAreMinted' /\ CarriedDeaths' /\ ForgivenWasRecorded'
  BY <1>1 DEF IInv, OneProbe, TokensAreMinted, CarriedDeaths, ForgivenWasRecorded, At, Minted, Paused
<1> QED BY <1>2, <1>3 DEF IInv

-----------------------------------------------------------------------------
(* Steps that write a claim                                                  *)

LEMMA InvReleases ==
  ASSUME IInv, NEW k \in Process, NEW p \in Plan, Releases(k, p)
  PROVE  IInv'
<1> DEFINE t == proc[k].token
<1>1. TypeOK /\ t \in Token /\ Ends(k)
      /\ UNCHANGED <<clock, pause, fate, minted, left, probes, recorded>>
  BY CarriedFate DEF IInv, Releases, TokensAreMinted, At
<1>2. /\ proc' \in [Process -> Proc] /\ MayCarry(k)
      /\ \A j \in Process : j # k => proc'[j] = proc[j]
  BY <1>1, EndsType DEF MayCarry
<1>3. claim' \in [Plan -> 0..MaxClaims] /\ \A q \in Plan : claim'[q] \in {claim[q], 0}
  BY <1>1, BoundsAssumption DEF Releases, TypeOK
<1>4. forgiven' \subseteq Token /\ forgiven' \subseteq recorded
  <2>1. fate[t] \in QuotaDeaths => t \in recorded
    BY DEF IInv, CarriedDeaths, Releases, At, QuotaDeaths
  <2>2. forgiven' = forgiven \/ (fate[t] \in QuotaDeaths /\ forgiven' = forgiven \cup {t})
    BY DEF Releases
  <2> QED BY <1>1, <2>1, <2>2 DEF IInv, ForgivenWasRecorded, TypeOK
<1>5. TypeOK'
  BY <1>1, <1>2, <1>3, <1>4 DEF TypeOK
<1>6. TokensAreMinted' /\ CarriedDeaths'
  BY <1>1, <1>2, <1>3, InvCarries
<1>7. OneProbe' /\ ForgivenWasRecorded'
  BY <1>1, <1>4 DEF IInv, OneProbe, ForgivenWasRecorded, Paused
<1> QED BY <1>5, <1>6, <1>7 DEF IInv

\* A dispatch mints its token: nothing that is carried is the token's.
LEMMA InvDispatches ==
  ASSUME IInv, NEW k \in Process, NEW p \in Plan, Dispatches(k, p)
  PROVE  IInv'
<1>1. TypeOK /\ UNCHANGED <<clock, pause, forgiven, left, probes, recorded>> /\ minted \in Nat
  BY BoundsAssumption DEF IInv, Dispatches, TypeOK
<1>2. CASE Ends(k) /\ UNCHANGED <<claim, fate, minted>>
  <2>1. /\ proc' \in [Process -> Proc] /\ MayCarry(k)
        /\ \A j \in Process : j # k => proc'[j] = proc[j]
    BY <1>1, <1>2, EndsType DEF MayCarry
  <2>2. left' \in [deaths : 0..MaxDeaths, faults : 0..MaxFaults]
    BY <1>1 DEF TypeOK
  <2> QED BY <1>1, <1>2, <2>1, <2>2, InvLooks DEF planVars
<1>3. CASE /\ claim[p] = 0 /\ minted < MaxClaims
           /\ minted' = minted + 1
           /\ claim' = [claim EXCEPT ![p] = minted + 1]
           /\ fate' = [fate EXCEPT ![minted + 1] = "runs"]
           /\ Goto(k, "fastfail", minted + 1, FALSE)
  <2> DEFINE t == minted + 1
  <2>1. t \in Token /\ t \in 0..MaxClaims /\ t \notin Minted /\ "fastfail" \in PC
        /\ Minted' = Minted \cup {t} /\ Minted \subseteq Token
    BY <1>1, <1>3, BoundsAssumption DEF Token, Minted, PC
  <2>2. /\ minted' = t /\ claim' = [claim EXCEPT ![p] = t]
        /\ fate' = [fate EXCEPT ![t] = "runs"] /\ Goto(k, "fastfail", t, FALSE)
    BY <1>3
  <2> HIDE DEF t
  <2>3. /\ proc' \in [Process -> Proc] /\ proc'[k].pc = "fastfail" /\ proc'[k].token = t
        /\ \A j \in Process : j # k => proc'[j] = proc[j]
    BY <1>1, <2>1, <2>2, GotoType
  <2>4. /\ fate' \in [Token -> Fate] /\ fate'[t] = "runs"
        /\ \A u \in Token : u # t => fate'[u] = fate[u]
    BY <1>1, <2>1, <2>2 DEF TypeOK, Fate
  <2>5. /\ claim' \in [Plan -> 0..MaxClaims] /\ claim'[p] = t
        /\ \A q \in Plan : q # p => claim'[q] = claim[q]
    BY <1>1, <2>1, <2>2 DEF TypeOK
  <2>6. TypeOK'
    BY <1>1, <2>1, <2>2, <2>3, <2>4, <2>5 DEF TypeOK
  <2>7. TokensAreMinted'
    <3>1. \A u \in Token : (u \notin Minted' => fate'[u] = "none") /\ (u \in Minted' => fate'[u] # "none")
      BY <2>1, <2>4 DEF IInv, TokensAreMinted
    <3>2. \A q \in Plan : claim'[q] # 0 => claim'[q] \in Minted'
      BY <2>1, <2>5 DEF IInv, TokensAreMinted
    <3>3. \A j \in Process : proc'[j].pc \in {"fastfail", "record", "release"}
                              => proc'[j].token \in Minted'
      BY <2>1, <2>3 DEF IInv, TokensAreMinted
    <3> QED BY <3>1, <3>2, <3>3 DEF TokensAreMinted
  <2>8. CarriedDeaths'
    <3> SUFFICES ASSUME NEW j \in Process, proc'[j].pc \in {"record", "release"}
                 PROVE  /\ proc'[j].pc = "record" => fate'[proc'[j].token] \in QuotaDeaths
                        /\ proc'[j].pc = "release" => \/ fate'[proc'[j].token] = "gone"
                                                      \/ proc'[j].token \in recorded'
      BY DEF CarriedDeaths, At
    <3>1. proc'[j] = proc[j] /\ proc[j].token \in Minted
      BY <2>3 DEF IInv, TokensAreMinted
    <3>2. fate'[proc[j].token] = fate[proc[j].token]
      BY <2>1, <2>4, <3>1
    <3> QED BY <1>1, <3>1, <3>2 DEF IInv, CarriedDeaths, At
  <2>9. OneProbe' /\ ForgivenWasRecorded'
    BY <1>1 DEF IInv, OneProbe, ForgivenWasRecorded, Paused
  <2> QED BY <2>6, <2>7, <2>8, <2>9 DEF IInv
<1> QED BY <1>2, <1>3 DEF Dispatches

\* What a worker came to is final.
LEMMA InvWorker ==
  ASSUME IInv, NEW t \in Token, NEW how \in {"gone", "limit", "garbled"}, fate[t] = "runs",
         fate' = [fate EXCEPT ![t] = how],
         claim' \in [Plan -> 0..MaxClaims], \A p \in Plan : claim'[p] \in {claim[p], 0},
         UNCHANGED <<clock, pause, minted, forgiven, proc, probes, recorded>>,
         left' \in [deaths : 0..MaxDeaths, faults : 0..MaxFaults]
  PROVE  IInv'
<1>1. /\ fate' \in [Token -> Fate] /\ fate'[t] = how
      /\ \A u \in Token : u # t => fate'[u] = fate[u]
  BY DEF IInv, TypeOK, Fate
<1>2. TypeOK'
  BY <1>1 DEF IInv, TypeOK
<1>3. TokensAreMinted'
  <2>1. Minted' = Minted /\ t \in Minted
    BY DEF Minted, IInv, TokensAreMinted
  <2>2. \A u \in Token : (u \notin Minted => fate'[u] = "none") /\ (u \in Minted => fate'[u] # "none")
    BY <1>1, <2>1 DEF IInv, TokensAreMinted
  <2> QED BY <2>1, <2>2 DEF IInv, TokensAreMinted
<1>4. CarriedDeaths'
  <2> SUFFICES ASSUME NEW j \in Process, proc[j].pc \in {"record", "release"}
               PROVE  /\ proc[j].pc = "record" => fate'[proc[j].token] \in QuotaDeaths
                      /\ proc[j].pc = "release" => \/ fate'[proc[j].token] = "gone"
                                                   \/ proc[j].token \in recorded
    BY DEF CarriedDeaths, At
  <2>1. proc[j].token \in Token
    BY CarriedFate DEF IInv, TokensAreMinted
  <2>2. CASE proc[j].token # t
    BY <1>1, <2>1, <2>2 DEF IInv, CarriedDeaths, At
  <2>3. CASE proc[j].token = t
    BY <1>1, <2>3 DEF IInv, CarriedDeaths, At, QuotaDeaths
  <2> QED BY <2>2, <2>3
<1>5. OneProbe' /\ ForgivenWasRecorded'
  BY DEF IInv, OneProbe, ForgivenWasRecorded, Paused
<1> QED BY <1>2, <1>3, <1>4, <1>5 DEF IInv

LEMMA InvWorkerCompletes ==
  ASSUME IInv, NEW p \in Plan, WorkerCompletes(p)
  PROVE  IInv'
<1>1. claim[p] \in Token
  BY CarriedFate DEF WorkerCompletes, IInv, TokensAreMinted
<1>2. claim' \in [Plan -> 0..MaxClaims] /\ \A q \in Plan : claim'[q] \in {claim[q], 0}
  BY BoundsAssumption DEF WorkerCompletes, IInv, TypeOK
<1>3. left' \in [deaths : 0..MaxDeaths, faults : 0..MaxFaults]
  BY DEF WorkerCompletes, IInv, TypeOK
<1> QED BY <1>1, <1>2, <1>3, InvWorker DEF WorkerCompletes

LEMMA InvWorkerDies ==
  ASSUME IInv, NEW t \in Token, WorkerDies(t)
  PROVE  IInv'
<1>1. PICK how \in {"gone", "limit", "garbled"} : fate' = [fate EXCEPT ![t] = how]
  BY DEF WorkerDies, QuotaDeaths
<1>2. claim' \in [Plan -> 0..MaxClaims] /\ \A q \in Plan : claim'[q] \in {claim[q], 0}
  BY DEF WorkerDies, IInv, TypeOK
<1>3. left' \in [deaths : 0..MaxDeaths, faults : 0..MaxFaults]
  BY BoundsAssumption DEF WorkerDies, IInv, TypeOK
<1> QED BY <1>1, <1>2, <1>3, InvWorker DEF WorkerDies

-----------------------------------------------------------------------------
(* The theorems                                                              *)

LEMMA InitInv == Init => IInv
<1> SUFFICES ASSUME Init PROVE IInv
  OBVIOUS
<1>1. \A k \in Process : proc[k] = Idle
  BY DEF Init
<1>2. Minted = {}
  BY DEF Init, Minted
<1>3. TypeOK
  <2>1. proc \in [Process -> Proc]
    BY IdleType DEF Init
  <2>2. claim \in [Plan -> 0..MaxClaims] /\ fate \in [Token -> Fate] /\ minted \in 0..MaxClaims
    BY BoundsAssumption DEF Init, Fate
  <2>3. clock \in 0..(Day - 1) /\ left \in [deaths : 0..MaxDeaths, faults : 0..MaxFaults]
    BY BoundsAssumption, TimesAssumption DEF Init
  <2> QED BY <2>1, <2>2, <2>3 DEF Init, TypeOK
<1>4. TokensAreMinted
  BY <1>1, <1>2, IdleType DEF Init, TokensAreMinted
<1>5. CarriedDeaths
  BY <1>1, IdleType DEF CarriedDeaths, At
<1>6. OneProbe /\ ForgivenWasRecorded
  BY DEF Init, OneProbe, ForgivenWasRecorded, Paused
<1> QED BY <1>3, <1>4, <1>5, <1>6 DEF IInv

LEMMA StepInv == IInv /\ [Next]_vars => IInv'
<1> SUFFICES ASSUME IInv, [Next]_vars PROVE IInv'
  OBVIOUS
<1>1. ASSUME NEW p \in Plan, NEW k \in Process,
             \/ SeesDeath(k, p) \/ RecordsPause(k) \/ Releases(k, p)
             \/ AsksGate(k, p) \/ GateDecides(k, p) \/ GateDegrades(k, p)
             \/ Dispatches(k, p) \/ SeesFastFail(k)
      PROVE  IInv'
  BY <1>1, InvSeesDeath, InvRecordsPause, InvReleases, InvAsksGate, InvGateDecides,
     InvGateDegrades, InvDispatches, InvSeesFastFail
<1>2. ASSUME NEW p \in Plan, Ticks(p) \/ DaemonReports(p) PROVE IInv'
  BY <1>1, <1>2, IdleType DEF Ticks, DaemonReports
<1>3. ASSUME NEW p \in Plan, WorkerCompletes(p) PROVE IInv'
  BY <1>3, InvWorkerCompletes
<1>4. ASSUME NEW t \in Token, WorkerDies(t) PROVE IInv'
  BY <1>4, InvWorkerDies
<1>5. ASSUME NEW k \in Process, Crashes(k) PROVE IInv'
  BY <1>5, InvCrashes
<1>6. CASE TimePasses \/ OperatorClears
  BY <1>6, InvTimePasses, InvOperatorClears
<1>7. CASE UNCHANGED vars
  BY <1>7 DEF vars, IInv, TypeOK, TokensAreMinted, CarriedDeaths, OneProbe, ForgivenWasRecorded,
              At, Minted, Paused
<1> QED BY <1>2, <1>3, <1>4, <1>5, <1>6, <1>7 DEF Next

\* The invariant all the theorems below rest on holds in every reachable state.
THEOREM Inductive == Spec => []IInv
<1> QED BY InitInv, StepInv, PTL DEF Spec

\* Every variable keeps its type.
THEOREM TypeCorrect == Spec => []TypeOK
<1>1. IInv => TypeOK
  BY DEF IInv
<1> QED BY <1>1, Inductive, PTL

\* However many plans ask the gate at a time, one goes first (quota._decide_in_txn).
THEOREM OneGoesFirst == Spec => []OneProbe
<1>1. IInv => OneProbe
  BY DEF IInv
<1> QED BY <1>1, Inductive, PTL

\* Wherever a tick or a daemon dies, no attempt is forgiven whose pause was not
\* written (quota.record_quota_pause comes before the release).
THEOREM ForgivenRecorded == Spec => []ForgivenWasRecorded
<1>1. IInv => ForgivenWasRecorded
  BY DEF IInv
<1> QED BY <1>1, Inductive, PTL

-----------------------------------------------------------------------------
(* The claims seen from outside                                             *)

Claims == INSTANCE ClaimTable WITH holder <- claim
ClaimStep == [Claims!Next]_(Claims!claimTable)

LEMMA GivesUp ==
  ASSUME NEW p \in Plan, claim' \in {claim, [claim EXCEPT ![p] = 0]}, UNCHANGED minted,
         claim \in [Plan -> 0..MaxClaims]
  PROVE  ClaimStep
<1>1. claim[p] = 0 => [claim EXCEPT ![p] = 0] = claim
  OBVIOUS
<1>2. CASE claim' = claim
  BY <1>2 DEF ClaimStep, Claims!claimTable
<1>3. CASE claim' = [claim EXCEPT ![p] = 0] /\ claim[p] # 0
  BY <1>3 DEF ClaimStep, Claims!Next, Claims!GiveUp
<1> QED BY <1>1, <1>2, <1>3

LEMMA StepKeepsClaims == IInv /\ [Next]_vars => ClaimStep
<1> SUFFICES ASSUME IInv, [Next]_vars PROVE ClaimStep
  OBVIOUS
<1>1. claim \in [Plan -> 0..MaxClaims]
  BY DEF IInv, TypeOK
<1>2. UNCHANGED <<claim, minted>> => ClaimStep
  BY DEF ClaimStep, Claims!claimTable
<1>3. ASSUME NEW k, \/ SeesFastFail(k) \/ RecordsPause(k) \/ Crashes(k)
                    \/ \E p \in Plan : SeesDeath(k, p) \/ AsksGate(k, p) \/ GateDecides(k, p)
                                        \/ GateDegrades(k, p)
      PROVE  ClaimStep
  BY <1>2, <1>3 DEF SeesFastFail, RecordsPause, Crashes, SeesDeath, AsksGate, GateDecides,
                      GateDegrades, planVars
<1>4. ASSUME NEW k, NEW p \in Plan, Releases(k, p) PROVE ClaimStep
  BY <1>1, <1>4, GivesUp DEF Releases
<1>5. ASSUME NEW k, NEW p \in Plan, Dispatches(k, p) PROVE ClaimStep
  <2>1. \/ UNCHANGED <<claim, minted>>
        \/ claim[p] = 0 /\ minted' = minted + 1 /\ claim' = [claim EXCEPT ![p] = minted + 1]
    BY <1>5 DEF Dispatches
  <2> QED BY <1>2, <2>1 DEF ClaimStep, Claims!Next, Claims!Take
<1>6. ASSUME NEW p \in Plan, WorkerCompletes(p) PROVE ClaimStep
  BY <1>1, <1>6, GivesUp DEF WorkerCompletes
<1>7. CASE (\E t \in Token : WorkerDies(t)) \/ TimePasses \/ OperatorClears \/ UNCHANGED vars
  BY <1>2, <1>7 DEF WorkerDies, TimePasses, OperatorClears, planVars, vars
<1>8. ASSUME NEW p \in Plan, Ticks(p) \/ DaemonReports(p) PROVE ClaimStep
  BY <1>3, <1>4, <1>5, <1>8 DEF Ticks, DaemonReports
<1> QED BY <1>3, <1>6, <1>7, <1>8 DEF Next

\* Ticks and daemons of several plans keep to the table of claims (ClaimTable),
\* with deaths that are told late and the dispatcher's own release.
THEOREM KeepsClaims == Spec => Claims!Spec
<1>1. Init => Claims!Init
  BY DEF Init, Claims!Init
<1>2. IInv /\ [Next]_vars => [Claims!Next]_(Claims!claimTable)
  BY StepKeepsClaims DEF ClaimStep
<1> QED BY <1>1, <1>2, Inductive, PTL DEF Spec, Claims!Spec
=============================================================================
