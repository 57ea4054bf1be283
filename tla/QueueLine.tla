----------------------------- MODULE QueueLine ------------------------------
(***************************************************************************)
(* What clu promises of a project's queue, seen from outside: plans stand   *)
(* in one line; they join it at its end or, by the operator's wish, at its  *)
(* front; only the first is served; being served by a pop brings the plan   *)
(* into being, once.                                                        *)
(***************************************************************************)
EXTENDS Integers, SequencesExt

CONSTANTS Slug, Bootstrap

VARIABLES
  line,      \* the slugs waiting, first one first
  created,   \* the plans that exist
  missing    \* the plans whose file is gone

queueLine == <<line, created, missing>>

Init == line = <<>> /\ created = {Bootstrap} /\ missing = {}

Waits(s) == \E i \in DOMAIN line : line[i] = s

Join(s) ==
  /\ ~Waits(s)
  /\ line' \in {Append(line, s), <<s>> \o line}
  /\ UNCHANGED <<created, missing>>

Pop ==
  /\ line # <<>>
  /\ line' = Tail(line)
  /\ created' = created \cup {Head(line)}
  /\ UNCHANGED missing

\* A plan that runs or ran already, or whose file is gone, is passed over.
PassOver ==
  /\ line # <<>>
  /\ Head(line) \in created \cup missing
  /\ line' = Tail(line)
  /\ UNCHANGED <<created, missing>>

Withdraw(s) ==
  /\ \E i \in DOMAIN line : line[i] = s /\ line' = RemoveAt(line, i)
  /\ UNCHANGED <<created, missing>>

\* clu init makes a plan without the queue.
CreateApart(s) ==
  /\ s \notin created
  /\ created' = created \cup {s}
  /\ UNCHANGED <<line, missing>>

\* Archiving moves the file of a plan away.
Archive(s) ==
  /\ s \in created
  /\ missing' = missing \cup {s}
  /\ UNCHANGED <<line, created>>

Next == \/ Pop \/ PassOver
        \/ \E s \in Slug : Join(s) \/ Withdraw(s) \/ CreateApart(s) \/ Archive(s)

Spec == Init /\ [][Next]_queueLine
=============================================================================
