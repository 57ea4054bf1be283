---------------------------- MODULE WatchStream ----------------------------
(***************************************************************************)
(* The event log and the stream that follows it (watch.py, `clu watch`).    *)
(*                                                                          *)
(* Every operation on a plan appends rows to table events of its project's  *)
(* database; row ids are the database's and are never used again.  The      *)
(* archive rule moves a finished plan's rows to another table.  A stream    *)
(* follows plans of several projects through one connection per project:    *)
(* once a frame it asks the connection's data_version, which moves when     *)
(* another connection has committed, and reads the plans of the project     *)
(* only if it did.  Of data_version all that matters is how the reading the *)
(* stream holds compares with the database: a reader is current, behind, or *)
(* invalidated (it holds none).                                             *)
(***************************************************************************)
EXTENDS Integers, FiniteSets, Sequences, SequencesExt, Ranks

CONSTANTS
  Plan,         \* the plans that are followed
  Project,      \* the projects they belong to
  Home,         \* the project of each plan
  Paths,        \* the plans in the order the registry lists them
  View,         \* what the stream was asked to show
  Kind,         \* the kinds of events the instance logs for each plan
  Refusable,    \* plans whose reads another writer may make wait
  Undecodable,  \* plans of which a row may turn out not to be decodable
  Room,         \* bound: rows logged in each database
  MaxFaults     \* bound: refused reads, archivals and broken stores

ASSUME PathsAssumption ==
  Paths \in Seq(Plan) /\ Range(Paths) = Plan /\ IsInjective(Paths)
ASSUME HomeAssumption == Home \in [Plan -> Project]
ASSUME ViewAssumption == View \in {"default", "verbose", "operator"}
ASSUME KindAssumption == Kind \in [Plan -> SUBSET {"progress", "lease", "stalled_claim"}]
ASSUME BoundsAssumption ==
  /\ Refusable \subseteq Plan /\ Undecodable \subseteq Plan
  /\ Room \in [Project -> Nat] /\ MaxFaults \in Nat

VARIABLES
  lastId,     \* per project, the newest row id
  hot,        \* per plan, its rows in table events
  kind,       \* per project and row id, the kind of event
  broken,     \* projects whose store a new connection refuses
  reader,     \* per project, the stream's connection
  moved,      \* per project, what data_version said in this frame
  cursor,     \* per followed plan, the highest row id seen
  phase,      \* "baseline" or "frames"
  todo,       \* plans left in the baseline or in the frame
  faults,     \* what is left of MaxFaults
  lines,      \* observed: per plan, the rows printed
  start       \* observed: per plan, the cursor the baseline took

store  == <<lastId, hot, kind, broken>>
stream == <<reader, moved, cursor, phase, todo, lines, start>>
vars == <<store, stream, faults>>

MaxId == Max(Range(Room))
Id == 1..MaxId
NotFollowed == -1
Connection == {"closed", "current", "behind", "invalidated"}

Init ==
  /\ lastId = [pr \in Project |-> 0]
  /\ hot = [p \in Plan |-> {}]
  /\ kind = [pr \in Project |-> <<>>]
  /\ broken = {}
  /\ reader = [pr \in Project |-> "closed"]
  /\ moved = [pr \in Project |-> "unasked"]
  /\ cursor = [p \in Plan |-> NotFollowed]
  /\ phase = "baseline"
  /\ todo = Paths
  /\ faults = MaxFaults
  /\ lines = [p \in Plan |-> <<>>]
  /\ start = [p \in Plan |-> NotFollowed]

Fault == faults > 0 /\ faults' = faults - 1

-----------------------------------------------------------------------------
(* The operations of everybody else, each a transaction of its own           *)

\* What a commit in a database does to a connection that is not its own.
Outdated(pr) == [reader EXCEPT ![pr] = IF @ = "current" THEN "behind" ELSE @]

Logs(p, k) ==
  LET pr == Home[p]
      id == lastId[pr] + 1
  IN /\ id <= Room[pr]
     /\ lastId' = [lastId EXCEPT ![pr] = id]
     /\ hot' = [hot EXCEPT ![p] = @ \cup {id}]
     /\ kind' = [kind EXCEPT ![pr] = Append(@, k)]
     /\ reader' = Outdated(pr)
     /\ UNCHANGED <<broken, moved, cursor, phase, todo, faults, lines, start>>

Archives(p) ==
  /\ hot[p] # {} /\ Fault
  /\ hot' = [hot EXCEPT ![p] = {}]
  /\ reader' = Outdated(Home[p])
  /\ UNCHANGED <<lastId, kind, broken, moved, cursor, phase, todo, lines, start>>

\* The file is damaged, or a newer clu has stamped its schema.
Breaks(pr) ==
  /\ pr \notin broken /\ Fault
  /\ broken' = broken \cup {pr}
  /\ UNCHANGED <<lastId, hot, kind, stream>>

-----------------------------------------------------------------------------
(* What a line is printed for                                                *)

Visible ==
  CASE View = "operator" -> {"stalled_claim"}
    [] View = "default"  -> {"progress"}
    [] View = "verbose"  -> {"progress", "lease", "stalled_claim"}
Shown(k) == k \in Visible

EventsAfter(p, id) == {i \in hot[p] : i > id}
\* Plausible bug: the cursor counts rows.
NewestCounted(ids, seen) == seen + Cardinality(ids)
Newest(ids, seen) == Max(ids \cup {seen})
Printed(p, ids) == InOrder({i \in ids : Shown(kind[Home[p]][i])})

-----------------------------------------------------------------------------
(* The baseline: a connection, then a snapshot of the plan                   *)

Turn(p) == todo # <<>> /\ Head(todo) = p
Done    == todo' = Tail(todo)

\* The first plan of its project opens the connection, in a frame again if it was
\* closed there; a new connection holds a reading of its own.
Opens(p) ==
  /\ Turn(p) /\ reader[Home[p]] = "closed" /\ Home[p] \notin broken
  /\ reader' = [reader EXCEPT ![Home[p]] = "current"]
  /\ UNCHANGED <<store, moved, cursor, phase, todo, faults, lines, start>>

BaselineReads(p) ==
  /\ phase = "baseline" /\ Turn(p) /\ reader[Home[p]] # "closed" /\ Home[p] \notin broken
  /\ cursor' = [cursor EXCEPT ![p] = Newest(hot[p], 0)]
  /\ start' = [start EXCEPT ![p] = Newest(hot[p], 0)]
  /\ Done
  /\ UNCHANGED <<store, reader, moved, phase, faults, lines>>

\* A plan the baseline cannot read, or has to wait for, is not followed.
BaselineGivesUp(p) ==
  /\ phase = "baseline" /\ Turn(p)
  /\ \/ Home[p] \in broken /\ UNCHANGED faults
     \/ Home[p] \notin broken /\ p \in Refusable \cup Undecodable /\ Fault
  /\ Done
  /\ UNCHANGED <<store, reader, moved, cursor, phase, lines, start>>

-----------------------------------------------------------------------------
(* A frame                                                                   *)

Followed(p) == cursor[p] # NotFollowed

\* The followed plans, in the registry's order.
FollowedPaths ==
  LET turns == InOrder({i \in DOMAIN Paths : Followed(Paths[i])})
  IN [i \in DOMAIN turns |-> Paths[turns[i]]]

NewFrame ==
  /\ todo = <<>> /\ \E p \in Plan : Followed(p)
  /\ phase' = "frames"
  /\ todo' = FollowedPaths
  /\ moved' = [pr \in Project |-> "unasked"]
  /\ UNCHANGED <<store, reader, cursor, faults, lines, start>>

\* Once a frame and project: has anything been committed since the last frame?
ChangedSinceLastFrame(p) ==
  LET pr == Home[p] IN
  /\ phase = "frames" /\ Turn(p) /\ reader[pr] # "closed" /\ moved[pr] = "unasked"
  /\ moved' = [moved EXCEPT ![pr] = IF reader[pr] = "current" THEN "no" ELSE "yes"]
  /\ reader' = [reader EXCEPT ![pr] = "current"]
  /\ UNCHANGED <<store, cursor, phase, todo, faults, lines, start>>

IdlePoll(p) ==
  /\ phase = "frames" /\ Turn(p) /\ moved[Home[p]] = "no"
  /\ Done
  /\ UNCHANGED <<store, reader, moved, cursor, phase, faults, lines, start>>

Querying(p) == phase = "frames" /\ Turn(p) /\ moved[Home[p]] = "yes"

\* Plausible bug: every plan asks data_version for itself.
PollsAskingAgain(p) ==
  LET ids == EventsAfter(p, cursor[p]) IN
  /\ Querying(p)
  /\ lines' = [lines EXCEPT ![p] = @ \o Printed(p, ids)]
  /\ cursor' = [cursor EXCEPT ![p] = Newest(ids, @)]
  /\ moved' = [moved EXCEPT ![Home[p]] = "unasked"]
  /\ Done
  /\ UNCHANGED <<store, reader, phase, faults, start>>
Polls(p) ==
  LET ids == EventsAfter(p, cursor[p]) IN
  /\ Querying(p)
  /\ lines' = [lines EXCEPT ![p] = @ \o Printed(p, ids)]
  /\ cursor' = [cursor EXCEPT ![p] = Newest(ids, @)]
  /\ Done
  /\ UNCHANGED <<store, reader, moved, phase, faults, start>>

\* Contention, in opening or in reading: the reading is thrown away, and asked for again.
\* Plausible bug: the reading that saw the commit is kept.
InvalidatedNever(pr) == IF reader[pr] = "closed" THEN "closed" ELSE "current"
Invalidated(pr) == IF reader[pr] = "closed" THEN "closed" ELSE "invalidated"
Retries(p) ==
  LET pr == Home[p] IN
  /\ Querying(p) \/ (phase = "frames" /\ Turn(p) /\ reader[pr] = "closed")
  /\ p \in Refusable /\ pr \notin broken /\ Fault
  /\ reader' = [reader EXCEPT ![pr] = Invalidated(pr)]
  /\ moved' = [moved EXCEPT ![pr] = "unasked"]
  /\ Done
  /\ UNCHANGED <<store, cursor, phase, lines, start>>

\* Breakage: the plan is dropped for good, and the connection is closed; the next
\* plan of the project has to open one.  A connection that is held may still read a
\* store that only a new one refuses, and no store is repaired; or the store is
\* sound, and a row of this plan cannot be decoded.
Skips(p) ==
  LET pr == Home[p] IN
  /\ \/ /\ phase = "frames" /\ Turn(p) /\ pr \in broken /\ UNCHANGED faults
        /\ reader[pr] = "closed" \/ moved[pr] = "yes"
     \/ Querying(p) /\ p \in Undecodable /\ pr \notin broken /\ Fault
  /\ reader' = [reader EXCEPT ![pr] = "closed"]
  /\ moved' = [moved EXCEPT ![pr] = "unasked"]
  /\ cursor' = [cursor EXCEPT ![p] = NotFollowed]
  /\ Done
  /\ UNCHANGED <<store, phase, lines, start>>

-----------------------------------------------------------------------------
Stream ==
  \/ NewFrame
  \/ \E p \in Plan :
       \/ Opens(p) \/ BaselineReads(p) \/ BaselineGivesUp(p)
       \/ ChangedSinceLastFrame(p) \/ IdlePoll(p)
       \/ Polls(p) \/ Retries(p) \/ Skips(p)

Next ==
  \/ \E p \in Plan : (\E k \in Kind[p] : Logs(p, k)) \/ Archives(p)
  \/ \E pr \in Project : Breaks(pr)
  \/ Stream

Spec == Init /\ [][Next]_vars

\* The loop polls every poll_interval; nobody else owes anything.
FairSpec == Spec /\ WF_vars(Stream)

-----------------------------------------------------------------------------
\* The lines of a plan are its rows after the baseline, each once and in the order
\* they were logged, with none left out that the cursor has passed: rows of other
\* plans in between and an archival do not make the stream repeat or skip one.
StreamIsTheLog ==
  \A p \in Plan : Followed(p) =>
    /\ \A i, j \in DOMAIN lines[p] : i < j => lines[p][i] < lines[p][j]
    /\ \A i \in Range(lines[p]) : i > start[p]
    /\ Range(lines[p]) \cap hot[p] =
         {i \in hot[p] : i \in (start[p] + 1)..cursor[p] /\ Shown(kind[Home[p]][i])}

Unread(p) == {i \in hot[p] : i > cursor[p]}

\* watch.py:542-547, 559-566 and 693: a frame that finds data_version unchanged has
\* nothing to read.  Whenever a followed plan has a row nobody has read, the next
\* poll of the plan will query.
GateStaysOpen ==
  \A p \in Plan :
    LET pr == Home[p]
    IN (Followed(p) /\ Unread(p) # {} /\ pr \notin broken)
         => \/ reader[pr] \in {"behind", "invalidated"}
            \/ moved[pr] = "yes" /\ p \in Range(todo)

Dropped(p) == p \in Undecodable /\ ~Followed(p)

\* A row logged for a followed plan is printed, unless the plan is archived first, its
\* store breaks, or a row of its own cannot be decoded; nothing else need be committed
\* for it to arrive.
NewsArrives ==
  \A p \in Plan : \A i \in Id :
    (Followed(p) /\ i \in Unread(p) /\ Shown(kind[Home[p]][i]))
      ~> (i \in Range(lines[p]) \/ i \notin hot[p] \/ Home[p] \in broken \/ Dropped(p))
=============================================================================
