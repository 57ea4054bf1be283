----------------------------- MODULE PlanLedger -----------------------------
(***************************************************************************)
(* What clu promises of a plan, seen from outside: its phases are worked on *)
(* one at a time, in the order of the plan file; a question stops the lane  *)
(* until its answer was taken; and a plan says it is done when it is.       *)
(***************************************************************************)
EXTENDS Naturals

CONSTANT NumPhases

Phase == 1..NumPhases

VARIABLES
  done,      \* completed phases
  current,   \* the phase in flight, 0 if none
  mode,      \* the plan's status
  waiting    \* questions asked whose answers were not taken yet

ledger == <<done, current, mode, waiting>>

Init == done = {} /\ current = 0 /\ mode = "running" /\ waiting = {}

LaneFree == mode = "running" /\ current = 0 /\ waiting = {}

\* The first phase not completed starts.
Start ==
  /\ LaneFree
  /\ \E p \in Phase \ done :
       /\ 1..(p - 1) \subseteq done
       /\ current' = p
  /\ UNCHANGED <<done, mode, waiting>>

\* The phase in flight ends well, or with a question, or is given up, which
\* may pause the plan.
Complete ==
  /\ current # 0
  /\ done' = done \cup {current}
  /\ current' = 0
  /\ UNCHANGED <<mode, waiting>>

Ask ==
  /\ current # 0
  /\ current' = 0
  /\ waiting' # waiting /\ waiting \subseteq waiting'
  /\ UNCHANGED <<done, mode>>

GiveUp ==
  /\ current # 0
  /\ current' = 0
  /\ mode' \in {mode, "paused"}
  /\ UNCHANGED <<done, waiting>>

\* Answers are taken, which sets the plan running again.
TakeAnswers ==
  /\ waiting' # waiting /\ waiting' \subseteq waiting
  /\ mode' = "running"
  /\ UNCHANGED <<done, current>>

\* The operator may declare a phase completed, and then abandons what is in
\* flight or leaves it there, and may pause or restart any plan.
Declare ==
  /\ \E p \in Phase : done' = done \cup {p}
  /\ current' \in {0, current}
  /\ UNCHANGED <<mode, waiting>>

SetMode ==
  /\ mode' \in {"running", "paused"}
  /\ UNCHANGED <<done, current, waiting>>

Halt ==
  /\ LaneFree /\ done # Phase
  /\ mode' = "halted"
  /\ UNCHANGED <<done, current, waiting>>

Finish ==
  /\ LaneFree /\ done = Phase
  /\ mode' = "done"
  /\ UNCHANGED <<done, current, waiting>>

Next == \/ Start \/ Complete \/ Ask \/ GiveUp \/ TakeAnswers
        \/ Declare \/ SetMode \/ Halt \/ Finish

Spec == Init /\ [][Next]_ledger
=============================================================================
