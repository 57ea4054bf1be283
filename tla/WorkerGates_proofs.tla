------------------------ MODULE WorkerGates_proofs ------------------------
(***************************************************************************)
(* The safety theorems of WorkerGates, for every number of claims, commits  *)
(* and commands that run at a time.                                         *)
(*                                                                          *)
(* A stamp may name a commit whose tests fail: one that was HEAD when the   *)
(* tests began and not when they ended.  Every such stamp is mixed, because *)
(* HEAD cannot move but over a checkout that has been touched; the others   *)
(* are Tested wherever they go, from the run that made them to the claim,   *)
(* the snapshot of complete and its release.  The simplify gate and the cap *)
(* rest on tokens: one is minted once, so what was read of a claim by the   *)
(* commands that hold its token was written by the same worker's.           *)
(***************************************************************************)
EXTENDS WorkerGates, TLAPS

Tested(sha, mixed) == sha # Never /\ ~mixed => sha \in good

\* No command runs in the name of a token that is not minted.
TokensAreMinted ==
  /\ claim.token <= minted
  /\ \A c \in Command : proc[c].who <= minted

StampsAreTested ==
  /\ Tested(claim.verify.sha, claim.verify.mixed)
  /\ \A c \in Command :
       /\ Runs(c, "test") /\ ~proc[c].mixed => proc[c].head = head /\ ~dirty
       /\ Runs(c, "stamp") => Tested(proc[c].head, proc[c].mixed)
       /\ Runs(c, "gate") => Tested(proc[c].verify, proc[c].mixed)
       /\ (Runs(c, "size") \/ Runs(c, "release")) /\ ~proc[c].skipVerify
            => proc[c].head # Never /\ Tested(proc[c].head, proc[c].mixed)

AttestsAreOwn ==
  /\ claim.simplify.sha # Never => claim.simplify.by = claim.token
  /\ \A c \in Command :
       /\ (Runs(c, "gate") \/ Runs(c, "size")) /\ proc[c].simplify.sha # Never
            => proc[c].simplify.by = proc[c].who
       /\ Runs(c, "release") /\ proc[c].big /\ Worktree
            => proc[c].simplify = [sha |-> proc[c].head, by |-> proc[c].who]

\* Tasks that were added since a look, if the claim is still held, are its own.
SpawnsHaveRoom ==
  \A c \in Command : Runs(c, "spawn") /\ Holds(c) => tasks - proc[c].since < Cap

IInv == TypeOK /\ TokensAreMinted /\ StampsAreTested /\ AttestsAreOwn /\ SpawnsHaveRoom

-----------------------------------------------------------------------------
(* Types                                                                     *)

ClaimRecord == [token : 0..MaxClaims, verify : Verified, simplify : Attested]

LEMMA ConstantFacts ==
  /\ 0 \in Sha /\ Sha \subseteq Nat /\ Sha \subseteq Named /\ Never \in Named /\ Never \notin Nat
  /\ NoClaim \in ClaimRecord /\ NoClaim.token = 0 /\ NoClaim.verify = Unverified
  /\ NoClaim.simplify = Unattested /\ Unverified \in Verified /\ Unverified.sha = Never
  /\ Unattested \in Attested /\ Unattested.sha = Never
  /\ Claim \subseteq ClaimRecord /\ NoClaim \notin Claim
  /\ \A t \in Token : t \in Nat /\ t > 0 /\ t # Operator
<1> USE BoundsAssumption DEF Sha, Never, Named
<1>1. 0 \in Sha /\ Sha \subseteq Nat /\ Sha \subseteq Named /\ Never \in Named /\ Never \notin Nat
  OBVIOUS
<1>2. Unverified \in Verified /\ Unverified.sha = Never
      /\ Unattested \in Attested /\ Unattested.sha = Never
  BY DEF Unverified, Verified, Unattested, Attested
<1>3. NoClaim \in ClaimRecord /\ NoClaim.token = 0 /\ NoClaim.verify = Unverified
      /\ NoClaim.simplify = Unattested
  BY <1>2 DEF NoClaim, ClaimRecord
<1>4. Claim \subseteq ClaimRecord /\ NoClaim \notin Claim
  BY <1>3 DEF Claim, ClaimRecord, Token
<1>5. \A t \in Token : t \in Nat /\ t > 0 /\ t # Operator
  BY DEF Token, Operator
<1> QED BY <1>1, <1>2, <1>3, <1>4, <1>5

LEMMA IdleFields ==
  /\ Idle \in Proc /\ Idle.pc = "idle" /\ Idle.who = Operator /\ Idle.head = Never
  /\ Idle.verify = Never /\ Idle.simplify = Unattested /\ Idle.mixed = FALSE
  /\ Idle.big = FALSE /\ Idle.since = 0
BY BoundsAssumption, ConstantFacts DEF Idle, Proc, PC, Operator

LEMMA StateFields ==
  ASSUME TypeOK
  PROVE  /\ head \in Sha /\ made \in Nat /\ head <= made /\ tasks \in Nat /\ minted \in Nat
         /\ claim \in ClaimRecord /\ claim.token \in 0..MaxClaims
         /\ claim.verify.sha \in Named /\ claim.verify.mixed \in BOOLEAN
         /\ claim.verify \in Verified /\ claim.simplify \in Attested
         /\ \A t \in 0..MaxClaims : Held(t) => t \in Token /\ t <= claim.token /\ claim \in Claim
<1>1. claim \in ClaimRecord
  BY ConstantFacts DEF TypeOK
<1>2. claim.token \in 0..MaxClaims /\ claim.verify \in Verified /\ claim.simplify \in Attested
  BY <1>1 DEF ClaimRecord
<1>3. claim.verify.sha \in Named /\ claim.verify.mixed \in BOOLEAN
  BY <1>2 DEF Verified
<1>4. head \in Sha /\ made \in Nat /\ head <= made /\ tasks \in Nat /\ minted \in Nat
  BY BoundsAssumption DEF TypeOK, Sha
<1>5. \A t \in 0..MaxClaims : Held(t) => t \in Token /\ t <= claim.token /\ claim \in Claim
  BY ConstantFacts, BoundsAssumption DEF Held, Operator, Token, TypeOK
<1> QED BY <1>1, <1>2, <1>3, <1>4, <1>5

LEMMA ProcFields ==
  ASSUME TypeOK, NEW c \in Command
  PROVE  /\ proc[c] \in Proc /\ proc[c].who \in 0..MaxClaims
         /\ proc[c].head \in Named /\ proc[c].mixed \in BOOLEAN /\ proc[c].verify \in Named
         /\ proc[c].simplify \in Attested
         /\ proc[c].skipVerify \in BOOLEAN /\ proc[c].skipSimplify \in BOOLEAN
         /\ proc[c].big \in BOOLEAN /\ proc[c].since \in Nat
<1>1. proc[c] \in Proc
  BY DEF TypeOK
<1> QED BY <1>1 DEF Proc

\* What taking a step of a command does to the commands.
LEMMA GoesType ==
  ASSUME TypeOK, NEW c \in Command, NEW p \in Proc, Goes(c, p)
  PROVE  /\ proc' \in [Command -> Proc] /\ proc'[c] = p
         /\ \A d \in Command : d # c => proc'[d] = proc[d]
BY DEF TypeOK, Goes

-----------------------------------------------------------------------------
(* Steps of a command that write nothing                                     *)

\* What the invariant asks of a command that goes to p.
Allowed(p) ==
  /\ p.who <= minted
  /\ p.pc = "test" /\ ~p.mixed => p.head = head /\ ~dirty
  /\ p.pc = "stamp" => Tested(p.head, p.mixed)
  /\ p.pc = "gate" => Tested(p.verify, p.mixed)
  /\ p.pc \in {"size", "release"} /\ ~p.skipVerify => p.head # Never /\ Tested(p.head, p.mixed)
  /\ p.pc \in {"gate", "size"} /\ p.simplify.sha # Never => p.simplify.by = p.who
  /\ p.pc = "release" /\ p.big /\ Worktree => p.simplify = [sha |-> p.head, by |-> p.who]
  /\ p.pc = "spawn" /\ Held(p.who) => tasks - p.since < Cap

LEMMA InvIsAllowed ==
  ASSUME IInv, NEW c \in Command
  PROVE  Allowed(proc[c])
BY DEF Allowed, IInv, TokensAreMinted, StampsAreTested, AttestsAreOwn, SpawnsHaveRoom, Runs, Holds

LEMMA AllowedIsInv ==
  ASSUME TypeOK, claim.token <= minted, Tested(claim.verify.sha, claim.verify.mixed),
         claim.simplify.sha # Never => claim.simplify.by = claim.token,
         \A c \in Command : Allowed(proc[c])
  PROVE  IInv
BY DEF Allowed, IInv, TokensAreMinted, StampsAreTested, AttestsAreOwn, SpawnsHaveRoom, Runs, Holds

LEMMA InvLooks ==
  ASSUME IInv, NEW c \in Command, NEW p \in Proc, Goes(c, p), Allowed(p),
         UNCHANGED <<repo, claim, minted, tasks>>
  PROVE  IInv'
<1> USE DEF repo
<1>1. proc' \in [Command -> Proc] /\ proc'[c] = p /\ \A d \in Command : d # c => proc'[d] = proc[d]
  BY GoesType DEF IInv
<1>2. TypeOK'
  BY <1>1 DEF IInv, TypeOK
<1>3. \A q : Allowed(q) => Allowed(q)'
  BY DEF Allowed, Tested, Held
<1>4. \A d \in Command : Allowed(proc[d])
  BY InvIsAllowed
<1>5. (\A d \in Command : Allowed(proc[d]))'
  BY <1>1, <1>4 DEF Allowed, Tested, Held
<1>6. /\ claim'.token <= minted'
      /\ Tested(claim.verify.sha, claim.verify.mixed)'
      /\ claim'.simplify.sha # Never => claim'.simplify.by = claim'.token
  BY DEF IInv, TokensAreMinted, StampsAreTested, AttestsAreOwn, Tested
<1> QED BY <1>2, <1>5, <1>6 DEF Allowed, IInv, TokensAreMinted, StampsAreTested, AttestsAreOwn,
                                SpawnsHaveRoom, Runs, Holds

LEMMA IdleAllowed ==
  ASSUME IInv
  PROVE  Idle \in Proc /\ Allowed(Idle)
<1>1. minted \in Nat
  BY BoundsAssumption DEF IInv, TypeOK
<1>2. Operator <= minted
  BY <1>1 DEF Operator
<1> QED BY <1>2, IdleFields DEF Allowed

LEMMA HoldersAreMinted ==
  ASSUME IInv, NEW t \in 0..MaxClaims, Held(t)
  PROVE  t <= minted /\ t = claim.token
BY StateFields DEF IInv, TokensAreMinted, Held

LEMMA InvVerifyLooks ==
  ASSUME IInv, NEW c \in Command, NEW who \in 0..MaxClaims,
         VerifyStarts(c, who) \/ TestsRun(c) \/ Fails(c)
  PROVE  IInv'
<1>1. TypeOK /\ head \in Named /\ dirty \in BOOLEAN /\ minted \in Nat
  BY StateFields, ConstantFacts DEF IInv, TypeOK
<1>2. CASE Fails(c)
  BY <1>2, IdleAllowed, InvLooks DEF Fails, Ends
<1>3. CASE VerifyStarts(c, who)
  <2> DEFINE p == [Starts("test", who) EXCEPT !.head = head, !.mixed = dirty]
  <2>1. p \in Proc /\ p.pc = "test" /\ p.who = who /\ p.head = head /\ p.mixed = dirty
    <3>1. p = [Idle EXCEPT !.pc = "test", !.who = who, !.head = head, !.mixed = dirty]
      BY DEF Starts, Idle
    <3> HIDE DEF p
    <3>2. Idle \in Proc /\ Idle.since = 0 /\ "test" \in PC
      BY IdleFields DEF PC
    <3> QED BY <1>1, <3>1, <3>2 DEF Proc
  <2>2. who <= minted
    BY <1>1, <1>3, HoldersAreMinted DEF VerifyStarts, Operator
  <2> HIDE DEF p
  <2>3. Allowed(p)
    BY <2>1, <2>2 DEF Allowed
  <2>4. Goes(c, p)
    BY <1>3 DEF VerifyStarts, p
  <2> QED BY <1>3, <2>1, <2>3, <2>4, InvLooks DEF VerifyStarts
<1>4. CASE TestsRun(c)
  <2>1. CASE Ends(c)
    BY <1>4, <2>1, IdleAllowed, InvLooks DEF TestsRun, Ends
  <2>2. CASE TRUE \in Verdicts(c) /\ Goes(c, [proc[c] EXCEPT !.pc = "stamp"])
    <3> DEFINE p == [proc[c] EXCEPT !.pc = "stamp"]
    <3>1. p \in Proc /\ p.pc = "stamp" /\ p.head = proc[c].head /\ p.mixed = proc[c].mixed
          /\ p.who = proc[c].who
      BY <1>1, ProcFields DEF Proc, PC
    <3>2. Tested(p.head, p.mixed)
      <4>1. proc[c].mixed \in BOOLEAN /\ (~proc[c].mixed => head \in good)
        BY <1>1, <2>2, ProcFields DEF Verdicts
      <4> QED BY <1>4, <3>1, <4>1 DEF TestsRun, IInv, StampsAreTested, Tested
    <3> HIDE DEF p
    <3>3. Allowed(p)
      BY <3>1, <3>2 DEF Allowed, IInv, TokensAreMinted
    <3>4. Goes(c, p)
      BY <2>2 DEF p
    <3> QED BY <1>4, <3>1, <3>3, <3>4, InvLooks DEF TestsRun
  <2> QED BY <1>4, <2>1, <2>2 DEF TestsRun
<1> QED BY <1>2, <1>3, <1>4

LEMMA InvStarts ==
  ASSUME IInv, NEW c \in Command, NEW who \in 0..MaxClaims,
         AttestReads(c, who) \/ CompleteLooks(c, who) \/ SpawnLooks(c, who)
  PROVE  IInv'
<1>1. TypeOK /\ head \in Named /\ minted \in Nat /\ tasks \in Nat
  BY StateFields, ConstantFacts DEF IInv
<1>2. CASE AttestReads(c, who)
  <2> DEFINE p == [Starts("attest", who) EXCEPT !.head = head]
  <2>1. p \in Proc /\ p.pc = "attest" /\ p.who = who
    <3>1. p = [Idle EXCEPT !.pc = "attest", !.who = who, !.head = head]
      BY DEF Starts, Idle
    <3> HIDE DEF p
    <3>2. Idle \in Proc /\ Idle.since = 0 /\ "attest" \in PC
      BY IdleFields DEF PC
    <3> QED BY <1>1, <3>1, <3>2 DEF Proc
  <2>2. who <= minted
    BY <1>1, <1>2 DEF AttestReads
  <2> HIDE DEF p
  <2>3. Allowed(p)
    BY <2>1, <2>2 DEF Allowed
  <2>4. Goes(c, p)
    BY <1>2 DEF AttestReads, p
  <2> QED BY <1>2, <2>1, <2>3, <2>4, InvLooks DEF AttestReads
<1>3. CASE CompleteLooks(c, who)
  <2>1. PICK skipVerify, skipSimplify \in BOOLEAN :
          LET verify == IF skipVerify THEN Unverified ELSE claim.verify IN
          Goes(c, [Starts("gate", who) EXCEPT
                     !.verify = verify.sha, !.mixed = verify.mixed,
                     !.simplify = IF skipSimplify THEN Unattested ELSE claim.simplify,
                     !.skipVerify = skipVerify, !.skipSimplify = skipSimplify])
    BY <1>3 DEF CompleteLooks
  <2> DEFINE verify == IF skipVerify THEN Unverified ELSE claim.verify
             simplify == IF skipSimplify THEN Unattested ELSE claim.simplify
             p == [Starts("gate", who) EXCEPT !.verify = verify.sha, !.mixed = verify.mixed,
                     !.simplify = simplify,
                     !.skipVerify = skipVerify, !.skipSimplify = skipSimplify]
  <2>2. verify.sha \in Named /\ verify.mixed \in BOOLEAN /\ simplify \in Attested
    BY <1>1, StateFields, ConstantFacts DEF Verified
  <2>3. Tested(verify.sha, verify.mixed)
    BY ConstantFacts DEF IInv, StampsAreTested, Tested
  <2>4. who <= minted /\ who = claim.token
    BY <1>3, HoldersAreMinted DEF CompleteLooks
  <2>5. simplify.sha # Never => simplify.by = who
    BY <2>4, ConstantFacts DEF IInv, AttestsAreOwn
  <2> HIDE DEF verify, simplify
  <2>6. p \in Proc /\ p.pc = "gate" /\ p.who = who /\ p.verify = verify.sha /\ p.mixed = verify.mixed
        /\ p.simplify = simplify
    <3>1. p = [Idle EXCEPT !.pc = "gate", !.who = who, !.verify = verify.sha, !.mixed = verify.mixed,
                           !.simplify = simplify,
                           !.skipVerify = skipVerify, !.skipSimplify = skipSimplify]
      BY DEF Starts, Idle
    <3> HIDE DEF p
    <3>2. Idle \in Proc /\ "gate" \in PC
      BY IdleFields DEF PC
    <3> QED BY <2>2, <3>1, <3>2 DEF Proc
  <2> HIDE DEF p
  <2>7. Allowed(p)
    BY <2>3, <2>4, <2>5, <2>6 DEF Allowed
  <2>8. Goes(c, p)
    BY <2>1 DEF p, verify, simplify
  <2> QED BY <1>3, <2>6, <2>7, <2>8, InvLooks DEF CompleteLooks
<1>4. CASE SpawnLooks(c, who)
  <2> DEFINE p == Starts("spawn", who)
  <2>1. p \in Proc /\ p.pc = "spawn" /\ p.who = who /\ p.since = 0
    <3>1. p = [Idle EXCEPT !.pc = "spawn", !.who = who]
      BY DEF Starts, Idle
    <3> HIDE DEF p
    <3>2. Idle \in Proc /\ Idle.since = 0 /\ "spawn" \in PC
      BY IdleFields DEF PC
    <3> QED BY <3>1, <3>2 DEF Proc
  <2>2. who <= minted
    BY <1>4, HoldersAreMinted DEF SpawnLooks
  <2> HIDE DEF p
  <2>3. Allowed(p)
    BY <1>1, <1>4, <2>1, <2>2 DEF Allowed, SpawnLooks
  <2>4. Goes(c, p)
    BY <1>4 DEF SpawnLooks, p
  <2> QED BY <1>4, <2>1, <2>3, <2>4, InvLooks DEF SpawnLooks
<1> QED BY <1>2, <1>3, <1>4

\* The verify gate: the commit it lets through is the stamp's.
LEMMA InvGateResolves ==
  ASSUME IInv, NEW c \in Command, GateResolves(c)
  PROVE  IInv'
<1>1. TypeOK /\ head \in Named /\ Never \in Named
  BY StateFields, ConstantFacts DEF IInv
<1>2. PICK sha \in GitSays(head) :
        IF PassesVerify(proc[c], sha) THEN Goes(c, [proc[c] EXCEPT !.pc = "size", !.head = sha, !.verify = Never])
        ELSE Ends(c)
  BY DEF GateResolves
<1>3. CASE ~PassesVerify(proc[c], sha)
  BY <1>2, <1>3, IdleAllowed, InvLooks DEF GateResolves, Ends
<1>4. CASE PassesVerify(proc[c], sha)
  <2> DEFINE p == [proc[c] EXCEPT !.pc = "size", !.head = sha, !.verify = Never]
  <2>1. sha \in Named /\ Never \in Named /\ "size" \in PC /\ proc[c] \in Proc
    BY <1>1, ProcFields DEF GitSays, PC
  <2>2. p \in Proc /\ p.pc = "size" /\ p.head = sha /\ p.who = proc[c].who /\ p.mixed = proc[c].mixed
        /\ p.skipVerify = proc[c].skipVerify /\ p.simplify = proc[c].simplify
    BY <2>1 DEF Proc
  <2>3. ~proc[c].skipVerify => sha # Never /\ Tested(sha, proc[c].mixed)
    BY <1>4 DEF PassesVerify, Names, GateResolves, IInv, StampsAreTested
  <2>4. proc[c].who <= minted /\ (proc[c].simplify.sha # Never => proc[c].simplify.by = proc[c].who)
    BY DEF GateResolves, IInv, TokensAreMinted, AttestsAreOwn
  <2> HIDE DEF p
  <2>5. Allowed(p)
    BY <2>2, <2>3, <2>4 DEF Allowed
  <2>6. Goes(c, p)
    BY <1>2, <1>4 DEF p
  <2> QED BY <2>2, <2>5, <2>6, InvLooks DEF GateResolves
<1> QED BY <1>3, <1>4

\* The simplify gate: a diff it finds large has an attestation of the same worker's.
LEMMA InvGateMeasures ==
  ASSUME IInv, NEW c \in Command, GateMeasures(c)
  PROVE  IInv'
<1>1. PICK sha \in GitSays(head) :
        LET big == sha \in large /\ ~proc[c].skipSimplify IN
        IF PassesSimplify(proc[c], sha)
        THEN Goes(c, [proc[c] EXCEPT !.pc = "release", !.big = big,
                                     !.simplify = IF big THEN @ ELSE Unattested])
        ELSE Ends(c)
  BY DEF GateMeasures
<1>2. CASE ~PassesSimplify(proc[c], sha)
  BY <1>1, <1>2, IdleAllowed, InvLooks DEF GateMeasures, Ends
<1>3. CASE PassesSimplify(proc[c], sha)
  <2> DEFINE big == sha \in large /\ ~proc[c].skipSimplify
             simplify == IF big THEN proc[c].simplify ELSE Unattested
             p == [proc[c] EXCEPT !.pc = "release", !.big = big, !.simplify = simplify]
  <2>1. proc[c] \in Proc /\ big \in BOOLEAN /\ simplify \in Attested /\ "release" \in PC
        /\ proc[c].simplify \in Attested
    BY ProcFields, ConstantFacts DEF IInv, PC
  <2>2. Worktree /\ big => simplify = [sha |-> proc[c].head, by |-> proc[c].who]
    <3> SUFFICES ASSUME Worktree, big PROVE simplify = [sha |-> proc[c].head, by |-> proc[c].who]
      OBVIOUS
    <3>1. simplify = proc[c].simplify /\ Names(proc[c].simplify.sha, proc[c].head)
      BY <1>3 DEF PassesSimplify, Large, HasBase
    <3>2. proc[c].simplify.sha = proc[c].head /\ proc[c].simplify.by = proc[c].who
      BY <3>1 DEF Names, GateMeasures, IInv, AttestsAreOwn
    <3> QED BY <2>1, <3>1, <3>2 DEF Attested
  <2>3. ~proc[c].skipVerify => proc[c].head # Never /\ Tested(proc[c].head, proc[c].mixed)
    BY DEF GateMeasures, IInv, StampsAreTested
  <2>4. proc[c].who <= minted
    BY DEF IInv, TokensAreMinted
  <2> HIDE DEF big, simplify
  <2>5. p \in Proc /\ p.pc = "release" /\ p.big = big /\ p.simplify = simplify
        /\ p.head = proc[c].head /\ p.who = proc[c].who /\ p.mixed = proc[c].mixed
        /\ p.skipVerify = proc[c].skipVerify
    BY <2>1 DEF Proc
  <2> HIDE DEF p
  <2>6. Allowed(p)
    BY <2>2, <2>3, <2>4, <2>5 DEF Allowed
  <2>7. Goes(c, p)
    BY <1>1, <1>3 DEF p, big, simplify
  <2> QED BY <2>5, <2>6, <2>7, InvLooks DEF GateMeasures
<1> QED BY <1>2, <1>3

-----------------------------------------------------------------------------
(* Steps that write                                                          *)

\* Commands may end, commits and claims may be made, as long as no test that reads one
\* tree alone is left when the tree changes, and nobody is given a claim it has not held.
LEMMA InvKept ==
  ASSUME IInv, TypeOK', minted <= minted', claim'.token <= minted',
         Tested(claim.verify.sha, claim.verify.mixed)',
         claim'.simplify.sha # Never => claim'.simplify.by = claim'.token,
         good \subseteq good', tasks' = tasks,
         \A d \in Command :
           /\ proc'[d] \in {proc[d], Idle}
           /\ Held(proc[d].who)' => Held(proc[d].who)
           /\ Runs(d, "test") /\ ~proc[d].mixed => head' = head /\ dirty' = dirty
  PROVE  IInv'
<1>1. minted \in Nat /\ minted' \in Nat /\ \A d \in Command : proc[d].who \in Nat
  BY ProcFields, BoundsAssumption DEF IInv, TypeOK
<1>2. Idle.pc = "idle" /\ Idle.who = 0
  BY IdleFields DEF Operator
<1>3. TokensAreMinted'
  BY <1>1, <1>2 DEF IInv, TokensAreMinted
<1>4. StampsAreTested'
  BY <1>2 DEF IInv, StampsAreTested, Tested, Runs
<1>5. AttestsAreOwn'
  BY <1>2 DEF IInv, AttestsAreOwn, Runs
<1>6. SpawnsHaveRoom'
  BY <1>2 DEF IInv, SpawnsHaveRoom, Runs, Holds
<1> QED BY <1>3, <1>4, <1>5, <1>6 DEF IInv

\* A test that reads one tree alone is told of every change to the tree.
LEMMA InvChanges ==
  ASSUME IInv, ChangesCheckout
  PROVE  IInv'
<1>1. TypeOK /\ UNCHANGED <<made, good, large, claim, minted, tasks>>
      /\ head' \in 0..made /\ dirty' \in BOOLEAN
  BY DEF IInv, ChangesCheckout
<1>2. ASSUME NEW d \in Command
      PROVE  /\ proc'[d] \in Proc
             /\ Runs(d, "test") => proc'[d].pc = "test" /\ proc'[d].mixed /\ proc'[d].who = proc[d].who
             /\ ~Runs(d, "test") => proc'[d] = proc[d]
  <2>1. proc[d] \in Proc /\ proc'[d] = IF Runs(d, "test") THEN [proc[d] EXCEPT !.mixed = TRUE] ELSE proc[d]
    BY <1>1, ProcFields DEF ChangesCheckout
  <2> QED BY <2>1 DEF Proc, Runs
<1>3. TypeOK'
  BY <1>1, <1>2 DEF TypeOK, ChangesCheckout
<1>4. TokensAreMinted'
  BY <1>1, <1>2 DEF IInv, TokensAreMinted
<1>5. StampsAreTested'
  BY <1>1, <1>2 DEF IInv, StampsAreTested, Tested, Runs
<1>6. AttestsAreOwn'
  BY <1>1, <1>2 DEF IInv, AttestsAreOwn, Runs
<1>7. SpawnsHaveRoom'
  BY <1>1, <1>2 DEF IInv, SpawnsHaveRoom, Runs, Holds, Held
<1> QED BY <1>3, <1>4, <1>5, <1>6, <1>7 DEF IInv

\* A commit needs something to commit, and no test reads such a tree for HEAD's.
LEMMA InvCommits ==
  ASSUME IInv, Commits
  PROVE  IInv'
<1>1. TypeOK /\ made \in Nat /\ made' = made + 1 /\ made' \in Sha /\ head' = made'
      /\ good \subseteq good' /\ good' \subseteq good \cup {made'} /\ large' \subseteq large \cup {made'}
      /\ dirty' \in BOOLEAN /\ UNCHANGED <<claim, minted, tasks, proc>>
  BY StateFields DEF IInv, Commits
<1>2. TypeOK'
  <2>1. good' \subseteq 0..made' /\ large' \subseteq 0..made' /\ head' \in 0..made'
    BY <1>1 DEF TypeOK
  <2> QED BY <1>1, <2>1 DEF TypeOK
<1>3. minted \in Nat
  BY <1>1, StateFields
<1>4. \A d \in Command : Runs(d, "test") => proc[d].mixed
  BY DEF IInv, StampsAreTested, Commits
<1>5. minted <= minted' /\ claim'.token <= minted'
      /\ Tested(claim.verify.sha, claim.verify.mixed)'
      /\ (claim'.simplify.sha # Never => claim'.simplify.by = claim'.token)
  BY <1>1, <1>3 DEF IInv, TokensAreMinted, StampsAreTested, AttestsAreOwn, Tested
<1>6. \A d \in Command : proc'[d] = proc[d] /\ (Held(proc[d].who)' => Held(proc[d].who))
  BY <1>1 DEF Held
<1> QED BY <1>1, <1>2, <1>4, <1>5, <1>6, InvKept

\* A new claim has no stamp, and nobody runs in its name.
LEMMA InvDispatches ==
  ASSUME IInv, Dispatches
  PROVE  IInv'
<1>1. TypeOK /\ minted \in Nat /\ minted' = minted + 1 /\ minted' \in Token
      /\ claim' = NewClaim(minted') /\ UNCHANGED <<repo, tasks, proc>>
  BY BoundsAssumption DEF IInv, TypeOK, Dispatches, Token
<1>2. claim' \in Claim /\ claim'.token = minted' /\ claim'.verify.sha = Never /\ claim'.simplify.sha = Never
  BY <1>1, ConstantFacts DEF NewClaim, NoClaim, Claim
<1>3. TypeOK'
  BY <1>1, <1>2 DEF TypeOK, Token, repo
<1>4. \A d \in Command : proc[d].who \in Nat /\ proc[d].who <= minted
  BY <1>1, ProcFields DEF IInv, TokensAreMinted
<1>5. \A d \in Command : ~Held(proc[d].who)'
  BY <1>1, <1>2, <1>4 DEF Held
<1> QED BY <1>1, <1>2, <1>3, <1>5, InvKept DEF repo, Tested

\* The claim goes, or is stamped, and commands end.
LEMMA InvClaimWrites ==
  ASSUME IInv, proc' \in [Command -> Proc], \A d \in Command : proc'[d] \in {proc[d], Idle},
         UNCHANGED <<repo, minted, tasks>>, claim' \in Claim \cup {NoClaim},
         claim' = NoClaim \/ claim'.token = claim.token,
         Tested(claim'.verify.sha, claim'.verify.mixed),
         claim'.simplify.sha # Never => claim'.simplify.by = claim'.token
  PROVE  IInv'
<1>1. TypeOK /\ minted \in Nat /\ claim.token \in Nat
  BY StateFields DEF IInv
<1>2. TypeOK'
  BY <1>1 DEF TypeOK, repo
<1>3. claim'.token \in {0, claim.token}
  BY ConstantFacts
<1>4. claim'.token <= minted'
  BY <1>1, <1>3 DEF IInv, TokensAreMinted
<1>5. \A t : t # Operator /\ claim'.token = t => t # Operator /\ claim.token = t
  BY <1>3 DEF Operator
<1>6. \A d \in Command : Held(proc[d].who)' => Held(proc[d].who)
  <2> SUFFICES ASSUME NEW d \in Command, Held(proc[d].who)' PROVE Held(proc[d].who)
    OBVIOUS
  <2>1. proc'[d].who # Operator
    BY DEF Held
  <2>2. proc'[d] = proc[d]
    BY <2>1, IdleFields
  <2> QED BY <1>5, <2>2 DEF Held
<1>7. Tested(claim.verify.sha, claim.verify.mixed)' /\ minted <= minted' /\ good \subseteq good'
      /\ head' = head /\ dirty' = dirty /\ tasks' = tasks
  BY <1>1 DEF repo, Tested
<1> QED BY <1>2, <1>4, <1>6, <1>7, InvKept

LEMMA ClaimUpdates ==
  ASSUME claim \in Claim
  PROVE  /\ \A v \in Verified : LET new == [claim EXCEPT !.verify = v] IN
              /\ new \in Claim /\ new.token = claim.token
              /\ new.verify = v /\ new.simplify = claim.simplify
         /\ \A s \in Attested : LET new == [claim EXCEPT !.simplify = s] IN
              /\ new \in Claim /\ new.token = claim.token
              /\ new.verify = claim.verify /\ new.simplify = s
BY DEF Claim

LEMMA InvClaimSteps ==
  ASSUME IInv, NEW c \in Command,
         LosesClaim \/ VerifyStamps(c) \/ AttestStamps(c) \/ Completes(c)
  PROVE  IInv'
<1>1. TypeOK /\ claim \in Claim \cup {NoClaim} /\ Tested(claim.verify.sha, claim.verify.mixed)
      /\ (claim.simplify.sha # Never => claim.simplify.by = claim.token)
  BY DEF IInv, TypeOK, StampsAreTested, AttestsAreOwn
<1>2. Tested(NoClaim.verify.sha, NoClaim.verify.mixed) /\ NoClaim.simplify.sha = Never
  BY ConstantFacts DEF Tested
<1>3. UNCHANGED <<repo, minted, tasks>> /\ (UNCHANGED proc \/ Ends(c))
  BY DEF LosesClaim, VerifyStamps, AttestStamps, Completes
<1>4. proc' \in [Command -> Proc] /\ \A d \in Command : proc'[d] \in {proc[d], Idle}
  <2>1. CASE UNCHANGED proc
    BY <1>1, <2>1 DEF TypeOK
  <2>2. CASE Ends(c)
    <3>1. Goes(c, Idle) /\ Idle \in Proc
      BY <2>2, IdleFields DEF Ends
    <3> QED BY <1>1, <3>1, GoesType
  <2> QED BY <1>3, <2>1, <2>2
<1>5. CASE claim' \in {claim, NoClaim}
  BY <1>1, <1>2, <1>3, <1>4, <1>5, InvClaimWrites
<1>6. proc[c].head \in Named /\ proc[c].mixed \in BOOLEAN /\ proc[c].who \in 0..MaxClaims
  BY <1>1, ProcFields
<1>7. CASE VerifyStamps(c) /\ MayStamp(c)
  <2> DEFINE v == [sha |-> proc[c].head, mixed |-> proc[c].mixed]
  <2>1. claim \in Claim
    BY <1>1, <1>7, StateFields, <1>6 DEF MayStamp, Holds
  <2>2. v \in Verified /\ Tested(v.sha, v.mixed) /\ claim' = [claim EXCEPT !.verify = v]
    BY <1>6, <1>7 DEF Verified, VerifyStamps, VerifiedSha, IInv, StampsAreTested
  <2> HIDE DEF v
  <2>3. claim' \in Claim /\ claim'.token = claim.token /\ claim'.verify = v
        /\ claim'.simplify = claim.simplify
    BY <2>1, <2>2, ClaimUpdates
  <2> QED BY <1>1, <1>3, <1>4, <2>2, <2>3, InvClaimWrites
<1>8. CASE AttestStamps(c) /\ Holds(c)
  <2> DEFINE s == [sha |-> proc[c].head, by |-> proc[c].who]
  <2>1. claim \in Claim /\ proc[c].who = claim.token
    BY <1>1, <1>8, StateFields, <1>6 DEF Holds, Held
  <2>2. s \in Attested /\ s.by = claim.token /\ claim' = [claim EXCEPT !.simplify = s]
    BY <1>6, <1>8, <2>1 DEF Attested, AttestStamps
  <2> HIDE DEF s
  <2>3. claim' \in Claim /\ claim'.token = claim.token /\ claim'.verify = claim.verify
        /\ claim'.simplify = s
    BY <2>1, <2>2, ClaimUpdates
  <2> QED BY <1>1, <1>3, <1>4, <2>2, <2>3, InvClaimWrites
<1> QED BY <1>5, <1>7, <1>8 DEF LosesClaim, VerifyStamps, AttestStamps, Completes

\* A task that is added is counted by all who have looked in the name of the same claim.
LEMMA InvSpawns ==
  ASSUME IInv, NEW c \in Command, SpawnWrites(c)
  PROVE  IInv'
<1>1. TypeOK /\ UNCHANGED <<repo, claim, minted>> /\ tasks \in Nat
  BY StateFields DEF IInv, SpawnWrites
<1>2. CASE ~MaySpawn(c)
  BY <1>2, IdleAllowed, InvLooks DEF SpawnWrites, Ends
<1>3. CASE MaySpawn(c)
  <2>1. tasks' = tasks + 1 /\ Holds(c)
    BY <1>3 DEF SpawnWrites, MaySpawn
  <2>2. ASSUME NEW d \in Command
        PROVE  /\ proc'[d] \in Proc
               /\ d = c => proc'[d] = Idle
               /\ d # c /\ Runs(d, "spawn") /\ proc[d].who = proc[c].who
                    => proc'[d].pc = "spawn" /\ proc'[d].who = proc[d].who /\ proc'[d].since = proc[d].since + 1
               /\ d # c /\ ~(Runs(d, "spawn") /\ proc[d].who = proc[c].who) => proc'[d] = proc[d]
    <3>1. proc[d] \in Proc /\ Idle \in Proc
      BY <1>1, ProcFields, IdleFields
    <3>2. proc'[d] = IF d = c THEN Idle
                     ELSE IF Runs(d, "spawn") /\ proc[d].who = proc[c].who
                     THEN [proc[d] EXCEPT !.since = @ + 1] ELSE proc[d]
      BY <1>3 DEF SpawnWrites
    <3> QED BY <3>1, <3>2 DEF Proc, Runs
  <2>3. TypeOK'
    BY <1>1, <1>3, <2>1, <2>2 DEF TypeOK, repo, SpawnWrites
  <2>4. Idle.pc = "idle" /\ Idle.who <= minted
    BY <1>1, IdleFields, StateFields DEF Operator
  <2>5. TokensAreMinted'
    BY <1>1, <2>2, <2>4 DEF IInv, TokensAreMinted
  <2>6. StampsAreTested'
    BY <1>1, <2>2, <2>4 DEF IInv, StampsAreTested, Tested, Runs, repo
  <2>7. AttestsAreOwn'
    BY <1>1, <2>2, <2>4 DEF IInv, AttestsAreOwn, Runs
  <2>8. SpawnsHaveRoom'
    <3> SUFFICES ASSUME NEW d \in Command, proc'[d].pc = "spawn", Held(proc'[d].who)
                 PROVE  tasks' - proc'[d].since < Cap
      BY <1>1 DEF SpawnsHaveRoom, Runs, Holds, Held
    <3>1. d # c /\ Runs(d, "spawn") /\ proc'[d].who = proc[d].who
      BY <2>2, <2>4 DEF Runs
    <3>2. proc[d].who = proc[c].who /\ Holds(d)
      BY <2>1, <3>1 DEF Holds, Held
    <3>3. proc'[d].since = proc[d].since + 1 /\ proc[d].since \in Nat
      BY <1>1, <2>2, <3>1, <3>2, ProcFields
    <3>4. tasks - proc[d].since < Cap
      BY <3>1, <3>2 DEF IInv, SpawnsHaveRoom
    <3> QED BY <1>1, <2>1, <3>3, <3>4, LimitsAssumption
  <2> QED BY <2>3, <2>5, <2>6, <2>7, <2>8 DEF IInv
<1> QED BY <1>2, <1>3

-----------------------------------------------------------------------------
(* The theorems                                                              *)

LEMMA InitInv == Init => IInv
<1> SUFFICES ASSUME Init PROVE IInv
  OBVIOUS
<1>1. \A c \in Command : proc[c] = Idle
  BY DEF Init
<1>2. TypeOK
  <2>1. made \in Sha /\ head \in 0..made /\ minted \in 0..MaxClaims /\ tasks \in Nat
    BY ConstantFacts, BoundsAssumption DEF Init
  <2>2. good \subseteq 0..made /\ large \subseteq 0..made
    BY DEF Init
  <2>3. proc \in [Command -> Proc]
    BY IdleFields DEF Init
  <2> QED BY <2>1, <2>2, <2>3 DEF Init, TypeOK
<1>3. Allowed(Idle) /\ claim.token <= minted
  BY ConstantFacts, IdleFields DEF Init, Allowed, Operator
<1>4. Tested(claim.verify.sha, claim.verify.mixed) /\ claim.simplify.sha = Never
  BY ConstantFacts DEF Init, Tested
<1> QED BY <1>1, <1>2, <1>3, <1>4, AllowedIsInv

LEMMA StepInv == IInv /\ [Next]_vars => IInv'
<1> SUFFICES ASSUME IInv, [Next]_vars PROVE IInv'
  OBVIOUS
<1>1. CASE ChangesCheckout
  BY <1>1, InvChanges
<1>2. CASE Commits
  BY <1>2, InvCommits
<1>3. CASE Dispatches
  BY <1>3, InvDispatches
<1>4. CASE LosesClaim
  <2>1. claim' = NoClaim /\ UNCHANGED <<repo, minted, tasks, proc>> /\ TypeOK
    BY <1>4 DEF LosesClaim, IInv
  <2>2. Tested(NoClaim.verify.sha, NoClaim.verify.mixed) /\ NoClaim.simplify.sha = Never
    BY ConstantFacts DEF Tested
  <2>3. proc' \in [Command -> Proc] /\ \A d \in Command : proc'[d] \in {proc[d], Idle}
    BY <2>1 DEF TypeOK
  <2> QED BY <2>1, <2>2, <2>3, InvClaimWrites
<1>5. ASSUME NEW c \in Command, NEW who \in 0..MaxClaims,
             VerifyStarts(c, who) \/ AttestReads(c, who) \/ CompleteLooks(c, who) \/ SpawnLooks(c, who)
      PROVE  IInv'
  BY <1>5, InvVerifyLooks, InvStarts
<1>6. ASSUME NEW c \in Command,
             \/ Fails(c) \/ TestsRun(c) \/ VerifyStamps(c) \/ AttestStamps(c)
             \/ GateResolves(c) \/ GateMeasures(c) \/ Completes(c) \/ SpawnWrites(c)
      PROVE  IInv'
  <2>1. 0 \in 0..MaxClaims
    BY BoundsAssumption
  <2>2. CASE Fails(c) \/ TestsRun(c)
    BY <2>1, <2>2, InvVerifyLooks
  <2>3. CASE VerifyStamps(c) \/ AttestStamps(c) \/ Completes(c)
    BY <2>3, InvClaimSteps
  <2>4. CASE GateResolves(c) \/ GateMeasures(c) \/ SpawnWrites(c)
    BY <2>4, InvGateResolves, InvGateMeasures, InvSpawns
  <2> QED BY <1>6, <2>2, <2>3, <2>4
<1>7. CASE UNCHANGED vars
  <2>1. TypeOK' /\ TokensAreMinted'
    BY <1>7 DEF vars, IInv, TypeOK, TokensAreMinted
  <2>2. StampsAreTested' /\ AttestsAreOwn' /\ SpawnsHaveRoom'
    BY <1>7 DEF vars, IInv, StampsAreTested, AttestsAreOwn, SpawnsHaveRoom, Runs, Holds, Held, Tested
  <2> QED BY <2>1, <2>2 DEF IInv
<1> QED BY <1>1, <1>2, <1>3, <1>4, <1>5, <1>6, <1>7 DEF Next

\* The invariant all the theorems below rest on holds in every reachable state.
THEOREM Inductive == Spec => []IInv
<1> QED BY InitInv, StepInv, PTL DEF Spec

\* Every variable keeps its type.
THEOREM TypeCorrect == Spec => []TypeOK
<1>1. IInv => TypeOK
  BY DEF IInv
<1> QED BY <1>1, Inductive, PTL

LEMMA SpawnsAreOwn ==
  ASSUME IInv, [Next]_vars, NEW c \in Command,
         Runs(c, "spawn"), proc'[c] = Idle, tasks' # tasks
  PROVE  tasks - proc[c].since < Cap
<1>1. PICK d \in Command : SpawnWrites(d)
  BY DEF Next, vars, ChangesCheckout, Commits, Dispatches, LosesClaim, VerifyStarts, AttestReads,
         CompleteLooks, SpawnLooks, Fails, TestsRun, VerifyStamps, AttestStamps, GateResolves,
         GateMeasures, Completes
<1>2. MaySpawn(d)
  BY <1>1 DEF SpawnWrites
<1>3. c = d
  <2> SUFFICES ASSUME c # d PROVE FALSE
    OBVIOUS
  <2>1. proc'[c] = IF Runs(c, "spawn") /\ proc[c].who = proc[d].who
                   THEN [proc[c] EXCEPT !.since = @ + 1] ELSE proc[c]
    BY <1>1, <1>2 DEF SpawnWrites
  <2>2. proc[c] \in Proc /\ proc[c].pc = "spawn"
    BY ProcFields DEF IInv, Runs
  <2>3. proc'[c].pc = "spawn"
    BY <2>1, <2>2 DEF Proc
  <2> QED BY <2>3, IdleFields
<1> QED BY <1>2, <1>3 DEF MaySpawn, IInv, SpawnsHaveRoom

\* A spawn takes the phase over its cap by no more than the tasks the same claim's
\* commands have added since the look.
THEOREM OverrunsOwn == Spec => OverrunsAreOwn
<1> DEFINE Own == \A c \in Command :
       (Runs(c, "spawn") /\ proc'[c] = Idle /\ tasks' # tasks)
         => tasks - proc[c].since < Cap
<1>1. IInv /\ [Next]_vars => [Own]_vars
  BY SpawnsAreOwn
<1> QED BY <1>1, Inductive, PTL DEF Spec, OverrunsAreOwn

\* A commit that cmd_complete lets through the verify gate passes its tests, if the
\* checkout was clean when they began and was let alone till they ended.
THEOREM CompletedGood == Spec => CompletedIsGood
<1> DEFINE Good == \A c \in Command :
             (Ended(c) /\ ~proc[c].skipVerify /\ ~proc[c].mixed) => proc[c].head \in good
<1>1. IInv => Good
  BY DEF IInv, StampsAreTested, Tested, Ended
<1> QED BY <1>1, Inductive, PTL DEF CompletedIsGood

\* In a project whose plans have worktrees, what cmd_complete has measured and found
\* large was attested to, at the commit of the verify gate, by the worker that completes.
\* Without a worktree the gate has no base to measure from, and the property fails: run
\* simplify_gate.
THEOREM LargeAttested == Worktree => (Spec => LargeIsAttested)
<1> DEFINE Own == \A c \in Command :
             (Ended(c) /\ proc[c].big)
               => proc[c].simplify = [sha |-> proc[c].head, by |-> proc[c].who]
<1> SUFFICES ASSUME Worktree PROVE Spec => LargeIsAttested
  OBVIOUS
<1>1. IInv => Own
  BY DEF IInv, AttestsAreOwn, Ended
<1> QED BY <1>1, Inductive, PTL DEF LargeIsAttested

-----------------------------------------------------------------------------
(* The claim seen from outside                                              *)

Claims == INSTANCE ClaimTable WITH Plan <- {0}, holder <- [p \in {0} |-> claim.token]
ClaimStep == [Claims!Next]_(Claims!claimTable)

\* What a step may do to the plan's row of the table.
LEMMA RowMoves ==
  ASSUME \/ UNCHANGED minted /\ claim'.token \in {0, claim.token}
         \/ claim.token = 0 /\ minted' = minted + 1 /\ claim'.token = minted + 1
  PROVE  ClaimStep
<1>1. CASE UNCHANGED minted /\ claim'.token = claim.token
  BY <1>1 DEF ClaimStep, Claims!claimTable
<1>2. CASE UNCHANGED minted /\ claim'.token = 0 /\ claim.token # 0
  BY <1>2 DEF ClaimStep, Claims!Next, Claims!GiveUp
<1>3. CASE claim.token = 0 /\ minted' = minted + 1 /\ claim'.token = minted + 1
  BY <1>3 DEF ClaimStep, Claims!Next, Claims!Take
<1> QED BY <1>1, <1>2, <1>3

LEMMA StepKeepsClaims == IInv /\ [Next]_vars => ClaimStep
<1> SUFFICES ASSUME IInv, [Next]_vars PROVE ClaimStep
  OBVIOUS
<1>1. NoClaim.token = 0 /\ NewClaim(minted').token = minted'
  BY DEF NoClaim, NewClaim
<1>2. claim \in Claim \cup {NoClaim} /\ \A s, a : /\ [claim EXCEPT !.verify = s].token = claim.token
                                                  /\ [claim EXCEPT !.simplify = a].token = claim.token
  BY DEF IInv, TypeOK, Claim, NoClaim
<1>3. CASE Dispatches
  <2>1. minted' = minted + 1 /\ claim.token = 0 /\ claim'.token = minted'
    BY <1>1, <1>3 DEF Dispatches
  <2> QED BY <2>1, RowMoves
<1>4. CASE LosesClaim \/ \E c \in Command : Completes(c)
  <2>1. UNCHANGED minted /\ claim' \in {claim, NoClaim}
    BY <1>4 DEF LosesClaim, Completes
  <2> QED BY <1>1, <2>1, RowMoves
<1>5. CASE \E c \in Command : VerifyStamps(c) \/ AttestStamps(c)
  <2>1. UNCHANGED minted
    BY <1>5 DEF VerifyStamps, AttestStamps
  <2>2. \/ claim' = claim
        \/ \E s : claim' = [claim EXCEPT !.verify = s]
        \/ \E a : claim' = [claim EXCEPT !.simplify = a]
    BY <1>5 DEF VerifyStamps, AttestStamps
  <2>3. ASSUME NEW s, claim' = [claim EXCEPT !.verify = s] PROVE claim'.token = claim.token
    BY <1>2, <2>3
  <2>4. ASSUME NEW a, claim' = [claim EXCEPT !.simplify = a] PROVE claim'.token = claim.token
    BY <1>2, <2>4
  <2>5. claim'.token = claim.token
    BY <2>2, <2>3, <2>4
  <2> QED BY <2>1, <2>5, RowMoves
<1>6. CASE UNCHANGED <<claim, minted>>
  BY <1>6, RowMoves
<1>7. CASE ChangesCheckout \/ Commits \/ UNCHANGED vars
  BY <1>6, <1>7 DEF ChangesCheckout, Commits, vars
<1>8. ASSUME NEW c \in Command, NEW who,
             VerifyStarts(c, who) \/ AttestReads(c, who) \/ CompleteLooks(c, who) \/ SpawnLooks(c, who)
      PROVE  ClaimStep
  BY <1>6, <1>8 DEF VerifyStarts, AttestReads, CompleteLooks, SpawnLooks
<1>9. ASSUME NEW c \in Command,
             Fails(c) \/ TestsRun(c) \/ GateResolves(c) \/ GateMeasures(c) \/ SpawnWrites(c)
      PROVE  ClaimStep
  BY <1>6, <1>9 DEF Fails, TestsRun, GateResolves, GateMeasures, SpawnWrites
<1> QED BY <1>3, <1>4, <1>5, <1>7, <1>8, <1>9 DEF Next

\* The gates' commands keep to the table of claims (ClaimTable): a stamp is never a
\* way to a claim.
THEOREM KeepsClaims == Spec => Claims!Spec
<1>1. Init => Claims!Init
  BY DEF Init, NoClaim, Claims!Init
<1>2. IInv /\ [Next]_vars => [Claims!Next]_(Claims!claimTable)
  BY StepKeepsClaims DEF ClaimStep
<1> QED BY <1>1, <1>2, Inductive, PTL DEF Spec, Claims!Spec
=============================================================================
