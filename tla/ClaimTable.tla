----------------------------- MODULE ClaimTable -----------------------------
(***************************************************************************)
(* What every process that carries a token relies on, wherever it is        *)
(* modelled: a plan has one claim or none; a claim is made only where there *)
(* is none, and with a token that nobody had before (_claim_in_txn).  So    *)
(* who finds its own token on a plan's claim has held it ever since it was  *)
(* given the token, however long ago it looked.                             *)
(***************************************************************************)
EXTENDS Naturals

CONSTANT Plan

VARIABLES
  holder,    \* per plan, the token of its claim, 0 if there is none
  minted     \* tokens given out

claimTable == <<holder, minted>>

Init == holder = [p \in Plan |-> 0] /\ minted = 0

Take(p) ==
  /\ holder[p] = 0
  /\ minted' = minted + 1
  /\ holder' = [holder EXCEPT ![p] = minted + 1]

GiveUp(p) ==
  /\ holder[p] # 0
  /\ holder' = [holder EXCEPT ![p] = 0]
  /\ UNCHANGED minted

Next == \E p \in Plan : Take(p) \/ GiveUp(p)

Spec == Init /\ [][Next]_claimTable

-----------------------------------------------------------------------------
TypeOK == minted \in Nat /\ holder \in [Plan -> 0..minted]

\* A token is on the claim of one plan only.
OnePlanEach ==
  \A p, q \in Plan : holder[p] # 0 /\ holder[p] = holder[q] => p = q

\* A token that was given out comes to no claim that does not have it: neither
\* back to the claim it was on, nor to the claim of another plan.
TokensNeverReturn ==
  [][\A p \in Plan : holder'[p] \in 1..minted => holder[p] = holder'[p]]_claimTable
=============================================================================
