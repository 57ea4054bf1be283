------------------------- MODULE WatchStream_proofs --------------------------
(***************************************************************************)
(* The safety theorems of WatchStream, for every number of plans and        *)
(* projects, every view and every number of rows and faults.                *)
(*                                                                          *)
(* That the lines are the log needs nothing but the cursor: it is never     *)
(* ahead of the log, and what is printed lies between the baseline and it.  *)
(* That the gate stays open is about a frame: as long as nobody asked a     *)
(* connection for data_version, the project's plans are all still to come.  *)
(***************************************************************************)
EXTENDS WatchStream, Ranks_proofs, SequenceTheorems, TLAPS

Kinds == {"progress", "lease", "stalled_claim"}

StoreOK ==
  /\ lastId \in [Project -> Nat]
  /\ hot \in [Plan -> SUBSET Nat]
  /\ \A p \in Plan : hot[p] \subseteq 1..lastId[Home[p]]
  /\ kind \in [Project -> Seq(Kinds)]
  /\ \A pr \in Project : Len(kind[pr]) = lastId[pr]
  /\ broken \subseteq Project

\* A sequence of plans, each once.
Once(t) ==
  /\ t \in Seq(Plan)
  /\ \A i, j \in 1..Len(t) : t[i] = t[j] => i = j

\* No cursor is ahead of the log, and before the first frame nothing was asked or
\* printed.
StreamOK ==
  /\ reader \in [Project -> Connection]
  /\ moved \in [Project -> {"unasked", "no", "yes"}]
  /\ cursor \in [Plan -> Int] /\ start \in [Plan -> Int]
  /\ \A p \in Plan : Followed(p) => cursor[p] \in 0..lastId[Home[p]] /\ start[p] \in 0..cursor[p]
  /\ lines \in [Plan -> Seq(Nat)]
  /\ Once(todo)
  /\ phase \in {"baseline", "frames"}
  /\ phase = "baseline" => /\ \A p \in Plan : lines[p] = <<>>
                           /\ \A pr \in Project : moved[pr] = "unasked"

\* The rows of a plan's project that the view shows.
ShownIds(p) == {i \in 1..lastId[Home[p]] : Shown(kind[Home[p]][i])}

\* The lines l of a plan with the rows h, of which the view shows those in rows:
\* s is the baseline's cursor, c the cursor.
IsLog(l, s, c, h, rows) ==
  /\ \A i, j \in 1..Len(l) : i < j => l[i] < l[j]
  /\ \A i \in 1..Len(l) : s < l[i] /\ l[i] <= c
  /\ Range(l) \cap h = {i \in h : i \in (s + 1)..c /\ i \in rows}

LinesOK ==
  \A p \in Plan : Followed(p) => IsLog(lines[p], start[p], cursor[p], hot[p], ShownIds(p))

LogInv == StoreOK /\ StreamOK /\ LinesOK

-----------------------------------------------------------------------------
(* Sequences, and the largest of a set                                       *)

LEMMA RangeIs ==
  ASSUME NEW S, NEW l \in Seq(S)
  PROVE  \A x : x \in Range(l) <=> \E i \in 1..Len(l) : l[i] = x
BY DEF Range

LEMMA TailOnce ==
  ASSUME NEW t, Once(t), t # <<>>
  PROVE  /\ Once(Tail(t)) /\ Head(t) \in Range(t)
         /\ Range(Tail(t)) = Range(t) \ {Head(t)}
<1> DEFINE u == Tail(t)
<1>1. /\ u \in Seq(Plan) /\ Len(u) = Len(t) - 1 /\ Len(t) \in Nat /\ Len(t) # 0
      /\ \A i \in 1..Len(u) : u[i] = t[i + 1]
      /\ Head(t) = t[1]
  BY HeadTailProperties DEF Once
<1> HIDE DEF u
<1>2. 1 \in 1..Len(t) /\ \A i \in 1..Len(u) : i + 1 \in 1..Len(t)
  BY <1>1
<1>3. \A i, j \in 1..Len(u) : u[i] = u[j] => i = j
  <2> SUFFICES ASSUME NEW i \in 1..Len(u), NEW j \in 1..Len(u), u[i] = u[j] PROVE i = j
    OBVIOUS
  <2>1. i + 1 = j + 1
    BY <1>1, <1>2 DEF Once
  <2> QED BY <2>1
<1>4. ASSUME NEW x PROVE x \in Range(u) <=> x \in Range(t) /\ x # Head(t)
  <2>1. (x \in Range(u) <=> \E i \in 1..Len(u) : u[i] = x)
        /\ (x \in Range(t) <=> \E i \in 1..Len(t) : t[i] = x)
    BY <1>1, RangeIs DEF Once
  <2>2. ASSUME NEW i \in 1..Len(u), u[i] = x PROVE x \in Range(t) /\ x # Head(t)
    <3>1. i + 1 # 1
      OBVIOUS
    <3> QED BY <1>1, <1>2, <2>1, <2>2, <3>1 DEF Once
  <2>3. ASSUME NEW i \in 1..Len(t), t[i] = x, x # Head(t) PROVE x \in Range(u)
    <3>1. i - 1 \in 1..Len(u) /\ (i - 1) + 1 = i
      BY <1>1, <2>3
    <3> QED BY <1>1, <2>1, <2>3, <3>1
  <2> QED BY <2>1, <2>2, <2>3
<1>5. Head(t) \in Range(t)
  BY <1>1, <1>2, RangeIs DEF Once
<1> QED BY <1>1, <1>3, <1>4, <1>5 DEF u, Once

\* The largest row read is one of them, and no other is larger.
LEMMA MaxIs ==
  ASSUME NEW S, S \subseteq Int, IsFiniteSet(S), S # {}
  PROVE  Max(S) \in S /\ \A x \in S : x <= Max(S)
<1> DEFINE n == Cardinality(S)
           m == InOrder(S)[n]
<1>1. n \in Nat /\ n # 0
  BY FS_CardinalityType, FS_EmptySet
<1> HIDE DEF n
<1>2. Ascends(InOrder(S), n, S)
  BY SortedRead DEF n
<1>3. n \in 1..n
  BY <1>1
<1>4. m \in S /\ m \in Int
  BY <1>2, <1>3 DEF Ascends
<1>5. ASSUME NEW x \in S PROVE m >= x
  <2>1. PICK i \in 1..n : InOrder(S)[i] = x
    BY <1>2 DEF Ascends
  <2>2. i = n \/ i < n
    BY <1>1
  <2>3. x = m \/ x < m
    BY <1>2, <1>3, <2>1, <2>2 DEF Ascends
  <2> QED BY <1>4, <2>3
<1> HIDE DEF m
<1>6. Max(S) \in S /\ \A x \in S : Max(S) >= x
  BY <1>4, <1>5 DEF Max
<1> QED BY <1>6

LEMMA NewestIs ==
  ASSUME NEW n \in Nat, NEW ids, ids \subseteq 1..n, NEW seen \in 0..n
  PROVE  /\ Newest(ids, seen) \in ids \cup {seen} /\ Newest(ids, seen) \in seen..n
         /\ \A i \in ids : i <= Newest(ids, seen)
<1> DEFINE S == ids \cup {seen}
<1>1. S \subseteq 0..n /\ S # {}
  OBVIOUS
<1>2. IsFiniteSet(S)
  <2>1. S \in SUBSET Nat /\ \A i \in S : i <= n
    BY <1>1
  <2> HIDE DEF S
  <2> QED BY <2>1, FS_BoundedSetOfNaturals
<1>3. S \subseteq Int
  BY <1>1
<1> HIDE DEF S
<1>4. Max(S) \in S /\ \A x \in S : x <= Max(S)
  BY <1>1, <1>2, <1>3, MaxIs
<1>5. Newest(ids, seen) = Max(S)
  BY DEF Newest, S
<1>6. seen \in S /\ \A i \in ids : i \in S
  BY DEF S
<1> DEFINE m == Max(S)
<1>7. m \in ids \cup {seen}
  BY <1>4 DEF S
<1> HIDE DEF m
<1>8. m \in 0..n /\ seen <= m /\ \A i \in ids : i <= m
  BY <1>1, <1>4, <1>6 DEF m
<1> QED BY <1>5, <1>7, <1>8 DEF m

-----------------------------------------------------------------------------
(* A plan's lines                                                            *)

\* What was printed stays the log when the rows grow beyond the cursor, or leave.
LEMMA LogLasts ==
  ASSUME NEW l, NEW s \in Int, NEW c \in Int, NEW h \in SUBSET Nat, NEW rows,
         IsLog(l, s, c, h, rows),
         NEW h2 \in SUBSET Nat, NEW rows2,
         \A i \in h2 : i <= c => i \in h /\ (i \in rows <=> i \in rows2),
         \A i \in h : i <= c /\ i \in h2 => (i \in rows <=> i \in rows2),
         l \in Seq(Nat)
  PROVE  IsLog(l, s, c, h2, rows2)
<1>1. \A x : x \in Range(l) <=> \E i \in 1..Len(l) : l[i] = x
  BY RangeIs
<1>2. ASSUME NEW x \in h2
      PROVE  x \in Range(l) <=> x \in (s + 1)..c /\ x \in rows2
  <2>1. CASE x <= c
    <3>1. x \in h /\ (x \in rows <=> x \in rows2)
      BY <2>1
    <3>2. x \in Range(l) \cap h <=> x \in {i \in h : i \in (s + 1)..c /\ i \in rows}
      BY DEF IsLog
    <3> QED BY <3>1, <3>2
  <2>2. CASE ~ (x <= c)
    <3>1. x \notin Range(l)
      BY <1>1, <2>2 DEF IsLog
    <3> QED BY <2>2, <3>1
  <2> QED BY <2>1, <2>2
<1>3. Range(l) \cap h2 = {i \in h2 : i \in (s + 1)..c /\ i \in rows2}
  BY <1>2
<1> QED BY <1>3 DEF IsLog

\* A poll appends what the view shows of the rows beyond the cursor.
LEMMA LogGrows ==
  ASSUME NEW n \in Nat, NEW l \in Seq(Nat), NEW s \in Int, NEW c \in 0..n, s <= c, NEW h, h \subseteq 1..n,
         NEW rows, IsLog(l, s, c, h, rows),
         NEW c2 \in c..n, \A i \in h : i > c => i <= c2
  PROVE  LET more == InOrder({i \in h : i > c /\ i \in rows})
         IN l \o more \in Seq(Nat) /\ IsLog(l \o more, s, c2, h, rows)
<1> DEFINE S == {i \in h : i > c /\ i \in rows}
           more == InOrder(S)
           m == Cardinality(S)
           all == l \o more
<1> HIDE DEF more, m, all
<1>1. S \subseteq Int /\ S \subseteq Nat /\ IsFiniteSet(S)
  <2>1. \A i \in S : i \in 1..n
    BY h \subseteq 1..n
  <2> HIDE DEF S
  <2>2. S \in SUBSET Nat /\ \A i \in S : i <= n
    BY <2>1
  <2>3. IsFiniteSet(S)
    BY <2>2, FS_BoundedSetOfNaturals
  <2> QED BY <2>2, <2>3
<1>2. \A x : x \in S <=> x \in h /\ x > c /\ x \in rows
  BY h \subseteq 1..n
<1> HIDE DEF S
<1>3. m \in Nat /\ Ascends(more, m, S)
  BY <1>1, FS_CardinalityType, SortedRead DEF more, m
<1>4. more \in Seq(Nat) /\ Len(more) = m /\ \A i \in 1..m : more[i] \in S
  <2>1. more \in [1..m -> S]
    BY <1>3 DEF Ascends
  <2>2. more \in [1..m -> Nat]
    BY <1>1, <2>1
  <2> QED BY <1>3, <2>1, <2>2
<1>5. /\ all \in Seq(Nat) /\ Len(all) = Len(l) + m /\ Len(l) \in Nat
      /\ \A i \in 1..(Len(l) + m) : all[i] = IF i <= Len(l) THEN l[i] ELSE more[i - Len(l)]
  <2>1. /\ all \in Seq(Nat) /\ Len(all) = Len(l) + Len(more)
        /\ \A i \in 1..(Len(l) + Len(more)) :
             all[i] = IF i <= Len(l) THEN l[i] ELSE more[i - Len(l)]
    BY <1>4, ConcatProperties DEF all
  <2> QED BY <1>4, <2>1
<1>6. ASSUME NEW i \in 1..Len(all)
      PROVE  \/ i \in 1..Len(l) /\ all[i] = l[i] /\ all[i] <= c /\ all[i] \in Nat
             \/ \E k \in 1..m : i = k + Len(l) /\ all[i] = more[k] /\ more[k] \in S /\ c < all[i]
  <2>1. CASE i <= Len(l)
    BY <1>5, <2>1 DEF IsLog
  <2>2. CASE ~ (i <= Len(l))
    <3>1. i - Len(l) \in 1..m /\ i = (i - Len(l)) + Len(l)
      BY <1>3, <1>5, <2>2
    <3>2. all[i] = more[i - Len(l)] /\ more[i - Len(l)] \in S
      BY <1>4, <1>5, <2>2, <3>1
    <3>3. all[i] \in h /\ all[i] > c
      BY <1>2, <3>2
    <3>4. c < all[i]
      BY <3>3
    <3> QED BY <3>1, <3>2, <3>4
  <2> QED BY <2>1, <2>2
<1>7. ASSUME NEW i \in 1..Len(all), NEW j \in 1..Len(all), i < j PROVE all[i] < all[j]
  <2>1. CASE i \in 1..Len(l) /\ all[i] = l[i] /\ all[i] <= c /\ all[i] \in Nat
    <3>1. CASE j \in 1..Len(l) /\ all[j] = l[j]
      BY <1>7, <2>1, <3>1 DEF IsLog
    <3>2. CASE \E k \in 1..m : all[j] = more[k] /\ more[k] \in S /\ c < all[j]
      <4>1. all[j] \in Int
        BY <1>1, <3>2
      <4> QED BY <2>1, <3>2, <4>1
    <3> QED BY <1>6, <3>1, <3>2
  <2>2. CASE \E k \in 1..m : i = k + Len(l) /\ all[i] = more[k]
    <3>1. PICK k \in 1..m : i = k + Len(l) /\ all[i] = more[k]
      BY <2>2
    <3>2. ~ (j \in 1..Len(l))
      BY <1>5, <1>7, <3>1
    <3>3. PICK d \in 1..m : j = d + Len(l) /\ all[j] = more[d]
      BY <1>6, <3>2
    <3>4. k < d
      BY <1>5, <1>7, <3>1, <3>3
    <3> QED BY <1>3, <3>1, <3>3, <3>4 DEF Ascends
  <2> QED BY <1>6, <2>1, <2>2
<1>8. ASSUME NEW i \in 1..Len(all) PROVE s < all[i] /\ all[i] <= c2
  <2>1. CASE i \in 1..Len(l) /\ all[i] = l[i] /\ all[i] \in Nat
    BY <2>1 DEF IsLog
  <2>2. CASE all[i] \in S /\ c < all[i]
    <3>1. all[i] \in h /\ all[i] > c /\ all[i] \in Int
      BY <1>1, <1>2, <2>2
    <3> QED BY <2>2, <3>1
  <2> QED BY <1>6, <2>1, <2>2
<1>9. ASSUME NEW x \in h PROVE x \in Range(all) <=> x \in (s + 1)..c2 /\ x \in rows
  <2>1. /\ x \in Range(all) <=> \E i \in 1..Len(all) : all[i] = x
        /\ x \in Range(l) <=> \E i \in 1..Len(l) : l[i] = x
    BY <1>5, RangeIs
  <2>2. x \in Range(l) <=> x \in (s + 1)..c /\ x \in rows
    <3>1. x \in Range(l) \cap h <=> x \in {i \in h : i \in (s + 1)..c /\ i \in rows}
      BY DEF IsLog
    <3> QED BY <3>1
  <2>3. x \in Range(all) <=> x \in Range(l) \/ x \in S
    <3>1. ASSUME x \in Range(all) PROVE x \in Range(l) \/ x \in S
      BY <1>6, <2>1, <3>1
    <3>2. ASSUME x \in Range(l) PROVE x \in Range(all)
      <4>1. PICK i \in 1..Len(l) : l[i] = x
        BY <2>1, <3>2
      <4>2. i \in 1..Len(all) /\ all[i] = l[i]
        BY <1>3, <1>5
      <4> QED BY <2>1, <4>1, <4>2
    <3>3. ASSUME x \in S PROVE x \in Range(all)
      <4>1. PICK k \in 1..m : more[k] = x
        BY <1>3, <3>3 DEF Ascends
      <4>2. k + Len(l) \in 1..Len(all) /\ ~ (k + Len(l) <= Len(l)) /\ (k + Len(l)) - Len(l) = k
        BY <1>3, <1>5
      <4>3. all[k + Len(l)] = more[k]
        BY <1>5, <4>2
      <4> QED BY <2>1, <4>1, <4>2, <4>3
    <3> QED BY <3>1, <3>2, <3>3
  <2>4. x \in Int /\ (x > c => x <= c2)
    OBVIOUS
  <2>5. CASE x <= c
    <3>1. x \notin S
      BY <1>2, <2>4, <2>5
    <3>2. x \in (s + 1)..c <=> x \in (s + 1)..c2
      BY <2>4, <2>5
    <3> QED BY <2>2, <2>3, <3>1, <3>2
  <2>6. CASE x > c
    <3>1. x \in S <=> x \in rows
      BY <1>2, <2>6
    <3>2. x \in (s + 1)..c2 /\ x \notin (s + 1)..c
      BY <2>4, <2>6
    <3> QED BY <2>2, <2>3, <3>1, <3>2
  <2> QED BY <2>4, <2>5, <2>6
<1>10. Range(all) \cap h = {i \in h : i \in (s + 1)..c2 /\ i \in rows}
  BY <1>9
<1>11. all \in Seq(Nat) /\ IsLog(all, s, c2, h, rows)
  BY <1>5, <1>7, <1>8, <1>10 DEF IsLog
<1> QED BY <1>11 DEF all, more, S

-----------------------------------------------------------------------------
(* The steps that print nothing                                              *)

LEMMA Homes == \A p \in Plan : Home[p] \in Project
BY HomeAssumption

LEMMA HeadIsPlan ==
  ASSUME StreamOK, NEW p, Turn(p)
  PROVE  p \in Plan /\ p \in Range(todo) /\ Range(todo) \subseteq Plan
<1>1. Once(todo) /\ todo # <<>> /\ Head(todo) = p
  BY DEF StreamOK, Turn
<1>2. \A x : x \in Range(todo) <=> \E i \in 1..Len(todo) : todo[i] = x
  BY <1>1, RangeIs DEF Once
<1>3. Range(todo) \subseteq Plan
  BY <1>1, <1>2 DEF Once
<1> QED BY <1>1, <1>3, TailOnce

LEMMA DoneKeeps ==
  ASSUME StreamOK, NEW p, Turn(p), Done
  PROVE  Once(todo') /\ Range(todo') = Range(todo) \ {p}
BY TailOnce DEF StreamOK, Turn, Done

LEMMA StoreSame ==
  ASSUME StoreOK, UNCHANGED store
  PROVE  /\ StoreOK' /\ lastId' = lastId /\ hot' = hot
         /\ \A p \in Plan : ShownIds(p)' = ShownIds(p)
BY DEF StoreOK, store, ShownIds

\* Steps of the stream that print nothing: a cursor stays or is dropped.
LEMMA LogQuiet ==
  ASSUME LogInv, UNCHANGED <<store, lines, start>>, Once(todo'),
         reader' \in [Project -> Connection],
         moved' \in [Project -> {"unasked", "no", "yes"}],
         cursor' \in [Plan -> Int],
         \A p \in Plan : cursor'[p] = cursor[p] \/ cursor'[p] = NotFollowed,
         \/ phase' = phase /\ (phase = "baseline" => moved' = moved)
         \/ phase' = "frames"
  PROVE  LogInv'
<1>1. StoreOK' /\ lastId' = lastId /\ hot' = hot /\ \A p \in Plan : ShownIds(p)' = ShownIds(p)
  BY StoreSame DEF LogInv
<1>2. StreamOK'
  BY <1>1 DEF LogInv, StreamOK, Followed
<1>3. LinesOK'
  <2> SUFFICES ASSUME NEW p \in Plan, cursor'[p] # NotFollowed
               PROVE  IsLog(lines'[p], start'[p], cursor'[p], hot'[p], ShownIds(p)')
    BY DEF LinesOK, Followed
  <2> QED BY <1>1 DEF LogInv, LinesOK, Followed
<1> QED BY <1>1, <1>2, <1>3 DEF LogInv

\* The plans of a frame are those followed when it begins.
LEMMA FrameTakesAll ==
  ASSUME StreamOK
  PROVE  /\ Once(FollowedPaths)
         /\ \A p \in Plan : p \in Range(FollowedPaths) <=> Followed(p)
<1> DEFINE S == {i \in DOMAIN Paths : Followed(Paths[i])}
           turns == InOrder(S)
           m == Cardinality(S)
           t == [i \in 1..m |-> Paths[turns[i]]]
<1>1. Paths \in Seq(Plan) /\ DOMAIN Paths = 1..Len(Paths) /\ Len(Paths) \in Nat
  BY PathsAssumption
<1> HIDE DEF turns, m, t
<1>2. S \subseteq Int /\ S \subseteq 1..Len(Paths) /\ IsFiniteSet(S)
  <2>1. \A i \in S : i \in 1..Len(Paths)
    BY <1>1
  <2> HIDE DEF S
  <2>2. S \in SUBSET Nat /\ \A i \in S : i <= Len(Paths)
    BY <1>1, <2>1
  <2>3. IsFiniteSet(S)
    BY <1>1, <2>2, FS_BoundedSetOfNaturals
  <2> QED BY <2>1, <2>2, <2>3
<1>3. \A i \in 1..Len(Paths) : i \in S <=> Followed(Paths[i])
  BY <1>1
<1> HIDE DEF S
<1>4. m \in Nat /\ Ascends(turns, m, S)
  BY <1>2, FS_CardinalityType, SortedRead DEF m, turns
<1>5. \A i \in 1..m : turns[i] \in S /\ turns[i] \in 1..Len(Paths)
  BY <1>2, <1>4 DEF Ascends
<1>6. FollowedPaths = t
  <2>1. DOMAIN turns = 1..m
    BY <1>4 DEF Ascends
  <2> QED BY <2>1 DEF FollowedPaths, t, turns, S
<1>7. /\ t \in Seq(Plan) /\ Len(t) = m
      /\ \A i \in 1..m : t[i] = Paths[turns[i]]
  <2>1. \A i \in 1..m : Paths[turns[i]] \in Plan
    BY <1>1, <1>5
  <2>2. t \in [1..m -> Plan] /\ \A i \in 1..m : t[i] = Paths[turns[i]]
    BY <2>1 DEF t
  <2> QED BY <1>4, <2>2
<1>8. \A i, j \in 1..m : t[i] = t[j] => i = j
  <2> SUFFICES ASSUME NEW i \in 1..m, NEW j \in 1..m, t[i] = t[j] PROVE i = j
    OBVIOUS
  <2>1. turns[i] = turns[j]
    BY <1>1, <1>5, <1>7, PathsAssumption DEF IsInjective
  <2>2. turns[i] \in Int /\ turns[j] \in Int
    BY <1>5
  <2>3. ~ (i < j) /\ ~ (j < i)
    BY <1>4, <2>1, <2>2 DEF Ascends
  <2> QED BY <2>3
<1>9. ASSUME NEW p \in Plan PROVE p \in Range(t) <=> Followed(p)
  <2>1. p \in Range(t) <=> \E i \in 1..m : t[i] = p
    BY <1>7, RangeIs
  <2>2. PICK k \in 1..Len(Paths) : Paths[k] = p
    BY <1>1, PathsAssumption, RangeIs
  <2>3. ASSUME Followed(p) PROVE \E i \in 1..m : t[i] = p
    <3>1. k \in S
      BY <1>3, <2>2, <2>3
    <3>2. PICK i \in 1..m : turns[i] = k
      BY <1>4, <3>1 DEF Ascends
    <3> QED BY <1>7, <2>2, <3>2
  <2>4. ASSUME NEW i \in 1..m, t[i] = p PROVE Followed(p)
    BY <1>3, <1>5, <1>7, <2>4
  <2> QED BY <2>1, <2>3, <2>4
<1> QED BY <1>6, <1>7, <1>8, <1>9 DEF Once

LEMMA LogQuietSteps ==
  ASSUME LogInv, NEW p \in Plan,
         \/ NewFrame \/ Opens(p) \/ BaselineGivesUp(p) \/ ChangedSinceLastFrame(p)
         \/ IdlePoll(p) \/ Retries(p) \/ Skips(p)
  PROVE  LogInv'
<1>1. StreamOK /\ Once(todo) /\ Home[p] \in Project
  BY Homes DEF LogInv, StreamOK
<1>2. CASE NewFrame
  <2>1. Once(todo')
    BY <1>1, <1>2, FrameTakesAll DEF NewFrame
  <2>2. moved' \in [Project -> {"unasked", "no", "yes"}]
    BY <1>2 DEF NewFrame
  <2> QED BY <1>1, <1>2, <2>1, <2>2, LogQuiet DEF NewFrame, StreamOK
<1>3. CASE Opens(p)
  <2>1. reader' \in [Project -> Connection]
    BY <1>1, <1>3 DEF Opens, StreamOK, Connection
  <2> QED BY <1>1, <1>3, <2>1, LogQuiet DEF Opens, StreamOK
<1>4. CASE BaselineGivesUp(p) \/ IdlePoll(p)
  <2>1. Once(todo')
    BY <1>1, <1>4, DoneKeeps DEF BaselineGivesUp, IdlePoll
  <2> QED BY <1>1, <1>4, <2>1, LogQuiet DEF BaselineGivesUp, IdlePoll, StreamOK
<1>5. CASE ChangedSinceLastFrame(p)
  <2>1. reader' \in [Project -> Connection] /\ moved' \in [Project -> {"unasked", "no", "yes"}]
    BY <1>1, <1>5 DEF ChangedSinceLastFrame, StreamOK, Connection
  <2> QED BY <1>1, <1>5, <2>1, LogQuiet DEF ChangedSinceLastFrame, StreamOK
<1>6. CASE Retries(p)
  <2>1. reader' \in [Project -> Connection] /\ moved' \in [Project -> {"unasked", "no", "yes"}]
    BY <1>1, <1>6 DEF Retries, Invalidated, StreamOK, Connection
  <2>2. Once(todo')
    BY <1>1, <1>6, DoneKeeps DEF Retries, Querying
  <2> QED BY <1>1, <1>6, <2>1, <2>2, LogQuiet DEF Retries, Querying, StreamOK
<1>7. CASE Skips(p)
  <2>1. reader' \in [Project -> Connection] /\ moved' \in [Project -> {"unasked", "no", "yes"}]
    BY <1>1, <1>7 DEF Skips, StreamOK, Connection
  <2>2. Once(todo')
    BY <1>1, <1>7, DoneKeeps DEF Skips, Querying
  <2>3. /\ cursor' \in [Plan -> Int]
        /\ \A q \in Plan : cursor'[q] = cursor[q] \/ cursor'[q] = NotFollowed
    BY <1>1, <1>7 DEF Skips, StreamOK, NotFollowed
  <2> QED BY <1>1, <1>7, <2>1, <2>2, <2>3, LogQuiet DEF Skips, Querying, StreamOK
<1> QED BY <1>2, <1>3, <1>4, <1>5, <1>6, <1>7

-----------------------------------------------------------------------------
(* The steps that log, archive, break, take the baseline or print            *)

LEMMA LogsKeep ==
  ASSUME LogInv, NEW p \in Plan, NEW k \in Kind[p], Logs(p, k)
  PROVE  LogInv'
<1> DEFINE pr == Home[p]
           id == lastId[pr] + 1
<1>1. /\ pr \in Project /\ k \in Kinds
      /\ lastId' = [lastId EXCEPT ![pr] = id] /\ hot' = [hot EXCEPT ![p] = @ \cup {id}]
      /\ kind' = [kind EXCEPT ![pr] = Append(@, k)]
      /\ reader' = Outdated(pr)
      /\ UNCHANGED <<broken, moved, cursor, phase, todo, lines, start>>
  BY Homes, KindAssumption DEF Logs, Kinds
<1>2. /\ lastId[pr] \in Nat /\ id \in Nat /\ kind[pr] \in Seq(Kinds) /\ Len(kind[pr]) = lastId[pr]
      /\ \A q \in Plan : Home[q] \in Project /\ lastId[Home[q]] \in Nat
      /\ lastId' \in [Project -> Nat] /\ lastId'[pr] = id
      /\ \A r \in Project : r # pr => lastId'[r] = lastId[r] /\ kind'[r] = kind[r]
      /\ \A q \in Plan : lastId[Home[q]] <= lastId'[Home[q]]
  BY <1>1, Homes DEF LogInv, StoreOK
<1>3. /\ kind'[pr] = Append(kind[pr], k) /\ kind'[pr] \in Seq(Kinds) /\ Len(kind'[pr]) = id
      /\ \A i \in 1..lastId[pr] : kind'[pr][i] = kind[pr][i]
  BY <1>1, <1>2, AppendProperties DEF LogInv, StoreOK
<1>4. StoreOK'
  <2>1. kind' \in [Project -> Seq(Kinds)] /\ \A r \in Project : Len(kind'[r]) = lastId'[r]
    BY <1>1, <1>2, <1>3 DEF LogInv, StoreOK
  <2>2. ASSUME NEW q \in Plan PROVE hot'[q] \subseteq 1..lastId'[Home[q]]
    <3>1. hot[q] \subseteq 1..lastId[Home[q]]
      BY DEF LogInv, StoreOK
    <3>2. 1..lastId[Home[q]] \subseteq 1..lastId'[Home[q]]
      BY <1>2
    <3>3. id \in 1..lastId'[pr]
      BY <1>2
    <3>4. hot'[q] = IF q = p THEN hot[q] \cup {id} ELSE hot[q]
      BY <1>1 DEF LogInv, StoreOK
    <3> HIDE DEF id, pr
    <3> QED BY <3>1, <3>2, <3>3, <3>4 DEF pr
  <2>3. hot' \in [Plan -> SUBSET Nat]
    BY <1>1, <1>2 DEF LogInv, StoreOK
  <2> QED BY <1>1, <1>2, <2>1, <2>2, <2>3 DEF LogInv, StoreOK
<1>5. StreamOK'
  <2>1. reader' \in [Project -> Connection]
    BY <1>1 DEF LogInv, StreamOK, Outdated, Connection
  <2>2. \A q \in Plan : cursor[q] # NotFollowed
          => cursor[q] \in 0..lastId'[Home[q]] /\ start[q] \in 0..cursor[q]
    <3> SUFFICES ASSUME NEW q \in Plan, cursor[q] # NotFollowed
                 PROVE  cursor[q] \in 0..lastId'[Home[q]] /\ start[q] \in 0..cursor[q]
      OBVIOUS
    <3>1. cursor[q] \in 0..lastId[Home[q]] /\ start[q] \in 0..cursor[q]
      BY DEF LogInv, StreamOK, Followed
    <3>2. lastId[Home[q]] \in Nat /\ lastId'[Home[q]] \in Nat /\ lastId[Home[q]] <= lastId'[Home[q]]
      BY <1>2
    <3> QED BY <3>1, <3>2
  <2> QED BY <1>1, <2>1, <2>2 DEF LogInv, StreamOK, Followed, Once
<1>6. ASSUME NEW q \in Plan, cursor'[q] # NotFollowed
      PROVE  IsLog(lines'[q], start'[q], cursor'[q], hot'[q], ShownIds(q)')
  <2>1. /\ IsLog(lines[q], start[q], cursor[q], hot[q], ShownIds(q))
        /\ cursor[q] \in 0..lastId[Home[q]] /\ start[q] \in Int /\ lines[q] \in Seq(Nat)
        /\ hot[q] \in SUBSET Nat /\ hot[q] \subseteq 1..lastId[Home[q]]
    BY <1>1, <1>6 DEF LogInv, LinesOK, Followed, StreamOK, StoreOK
  <2>2. ASSUME NEW i \in 1..lastId[Home[q]] PROVE i \in ShownIds(q) <=> i \in ShownIds(q)'
    <3>1. kind'[Home[q]][i] = kind[Home[q]][i] /\ i \in 1..lastId'[Home[q]]
      BY <1>2, <1>3
    <3> QED BY <3>1 DEF ShownIds, Shown, Visible
  <2>3. hot'[q] \in SUBSET Nat
    BY <1>4 DEF StoreOK
  <2>4. \A i \in hot'[q] : i <= cursor[q] => i \in hot[q]
    <3> SUFFICES ASSUME NEW i \in hot'[q], i <= cursor[q] PROVE i \in hot[q]
      OBVIOUS
    <3>1. i \in hot[q] \/ (q = p /\ i = id)
      BY <1>1 DEF LogInv, StoreOK
    <3>2. lastId[Home[q]] \in Nat /\ (q = p => id = lastId[Home[q]] + 1)
      BY <1>2
    <3> HIDE DEF id
    <3>3. i = id /\ q = p => ~ (i <= cursor[q])
      BY <2>1, <3>2
    <3> QED BY <3>1, <3>3
  <2>5. /\ \A i \in hot'[q] : i <= cursor[q] => i \in hot[q] /\ (i \in ShownIds(q) <=> i \in ShownIds(q)')
        /\ \A i \in hot[q] : i <= cursor[q] /\ i \in hot'[q] => (i \in ShownIds(q) <=> i \in ShownIds(q)')
    BY <2>1, <2>2, <2>4
  <2>6. IsLog(lines[q], start[q], cursor[q], hot'[q], ShownIds(q)')
    <3> DEFINE old == ShownIds(q)
               new == ShownIds(q)'
    <3>1. /\ cursor[q] \in Int
          /\ IsLog(lines[q], start[q], cursor[q], hot[q], old)
          /\ \A i \in hot'[q] : i <= cursor[q] => i \in hot[q] /\ (i \in old <=> i \in new)
          /\ \A i \in hot[q] : i <= cursor[q] /\ i \in hot'[q] => (i \in old <=> i \in new)
      BY <2>1, <2>5
    <3> HIDE DEF old, new
    <3>2. IsLog(lines[q], start[q], cursor[q], hot'[q], new)
      BY <2>1, <2>3, <3>1, LogLasts
    <3> QED BY <3>2 DEF new
  <2> QED BY <1>1, <2>6
<1>7. LinesOK'
  BY <1>6 DEF LinesOK, Followed
<1> QED BY <1>4, <1>5, <1>7 DEF LogInv

LEMMA ArchivesKeep ==
  ASSUME LogInv, NEW p \in Plan, Archives(p)
  PROVE  LogInv'
<1>1. /\ hot' = [hot EXCEPT ![p] = {}] /\ reader' = Outdated(Home[p])
      /\ UNCHANGED <<lastId, kind, broken, moved, cursor, phase, todo, lines, start>>
  BY DEF Archives
<1>2. \A q \in Plan : hot'[q] = hot[q] \/ hot'[q] = {}
  BY <1>1 DEF LogInv, StoreOK
<1>3. StoreOK'
  BY <1>1, <1>2 DEF LogInv, StoreOK
<1>4. StreamOK'
  <2>1. reader' \in [Project -> Connection]
    BY <1>1, Homes DEF LogInv, StreamOK, Outdated, Connection
  <2> QED BY <1>1, <2>1 DEF LogInv, StreamOK, Followed, Once
<1>5. ASSUME NEW q \in Plan, cursor'[q] # NotFollowed
      PROVE  IsLog(lines'[q], start'[q], cursor'[q], hot'[q], ShownIds(q)')
  <2>1. /\ IsLog(lines[q], start[q], cursor[q], hot[q], ShownIds(q))
        /\ cursor[q] \in Int /\ start[q] \in Int /\ lines[q] \in Seq(Nat)
        /\ hot[q] \in SUBSET Nat /\ hot'[q] \in SUBSET Nat /\ hot'[q] \subseteq hot[q]
    BY <1>1, <1>2, <1>3, <1>5 DEF LogInv, LinesOK, Followed, StreamOK, StoreOK
  <2>2. ShownIds(q)' = ShownIds(q)
    BY <1>1 DEF ShownIds
  <2>3. IsLog(lines[q], start[q], cursor[q], hot'[q], ShownIds(q))
    BY <2>1, LogLasts
  <2> QED BY <1>1, <2>2, <2>3
<1>6. LinesOK'
  BY <1>5 DEF LinesOK, Followed
<1> QED BY <1>3, <1>4, <1>6 DEF LogInv

LEMMA BreaksKeep ==
  ASSUME LogInv, NEW pr \in Project, Breaks(pr)
  PROVE  LogInv'
<1>1. broken' = broken \cup {pr} /\ UNCHANGED <<lastId, hot, kind, reader, moved, cursor, phase, todo, lines, start>>
  BY DEF Breaks, stream
<1>2. StoreOK'
  BY <1>1 DEF LogInv, StoreOK
<1>3. StreamOK'
  BY <1>1 DEF LogInv, StreamOK, Followed, Once
<1>4. LinesOK'
  BY <1>1 DEF LogInv, LinesOK, Followed, ShownIds
<1> QED BY <1>2, <1>3, <1>4 DEF LogInv

LEMMA BaselineKeeps ==
  ASSUME LogInv, NEW p \in Plan, BaselineReads(p)
  PROVE  LogInv'
<1> DEFINE at == Newest(hot[p], 0)
           n  == lastId[Home[p]]
<1>1. /\ phase = "baseline" /\ Turn(p) /\ Done
      /\ cursor' = [cursor EXCEPT ![p] = at] /\ start' = [start EXCEPT ![p] = at]
      /\ UNCHANGED <<store, reader, moved, phase, lines>>
  BY DEF BaselineReads
<1> HIDE DEF at, n
<1>2. n \in Nat /\ hot[p] \subseteq 1..n
  BY Homes DEF LogInv, StoreOK, n
<1>3. at \in 0..n /\ \A i \in hot[p] : i <= at
  BY <1>2, NewestIs DEF at
<1>4. StoreOK' /\ lastId' = lastId /\ hot' = hot /\ \A q \in Plan : ShownIds(q)' = ShownIds(q)
  BY <1>1, StoreSame DEF LogInv
<1>5. \A q \in Plan : /\ cursor'[q] = IF q = p THEN at ELSE cursor[q]
                      /\ start'[q]  = IF q = p THEN at ELSE start[q]
  BY <1>1 DEF LogInv, StreamOK
<1>6. StreamOK'
  <2>1. Once(todo')
    BY <1>1, DoneKeeps DEF LogInv
  <2>2. cursor' \in [Plan -> Int] /\ start' \in [Plan -> Int]
    BY <1>1, <1>3 DEF LogInv, StreamOK
  <2>3. ASSUME NEW q \in Plan, cursor'[q] # NotFollowed
        PROVE  cursor'[q] \in 0..lastId'[Home[q]] /\ start'[q] \in 0..cursor'[q]
    <3>1. CASE q = p
      BY <1>2, <1>3, <1>4, <1>5, <3>1 DEF n
    <3>2. CASE q # p
      BY <1>4, <1>5, <2>3, <3>2 DEF LogInv, StreamOK, Followed
    <3> QED BY <3>1, <3>2
  <2>4. /\ reader' = reader /\ moved' = moved /\ lines' = lines /\ phase' = phase
    BY <1>1
  <2> QED BY <2>1, <2>2, <2>3, <2>4 DEF LogInv, StreamOK, Followed
<1>7. ASSUME NEW q \in Plan, cursor'[q] # NotFollowed
      PROVE  IsLog(lines'[q], start'[q], cursor'[q], hot'[q], ShownIds(q)')
  <2>1. CASE q = p
    <3>1. lines'[p] = <<>> /\ cursor'[p] = at /\ start'[p] = at
      BY <1>1, <1>5 DEF LogInv, StreamOK
    <3>2. IsLog(<<>>, at, at, hot[p], ShownIds(p))
      <4>1. Len(<<>>) = 0 /\ DOMAIN <<>> = {} /\ \A i : i \notin 1..0
        OBVIOUS
      <4>2. \A i : i \notin (at + 1)..at
        BY <1>3
      <4>3. Range(<<>>) = {}
        BY <4>1 DEF Range
      <4> QED BY <4>1, <4>2, <4>3 DEF IsLog
    <3> QED BY <1>4, <2>1, <3>1, <3>2
  <2>2. CASE q # p
    BY <1>1, <1>4, <1>5, <1>7, <2>2 DEF LogInv, LinesOK, Followed
  <2> QED BY <2>1, <2>2
<1>8. LinesOK'
  BY <1>7 DEF LinesOK, Followed
<1> QED BY <1>4, <1>6, <1>8 DEF LogInv

\* A poll reads every row beyond the cursor.
LEMMA PollReadsAll ==
  ASSUME LogInv, NEW p \in Plan, Followed(p)
  PROVE  LET ids == EventsAfter(p, cursor[p])
         IN /\ Newest(ids, cursor[p]) \in cursor[p]..lastId[Home[p]]
            /\ \A i \in hot[p] : i > cursor[p] => i <= Newest(ids, cursor[p])
            /\ Printed(p, ids) = InOrder({i \in hot[p] : i > cursor[p] /\ i \in ShownIds(p)})
<1> DEFINE ids == EventsAfter(p, cursor[p])
           n == lastId[Home[p]]
<1>1. n \in Nat /\ hot[p] \subseteq 1..n /\ cursor[p] \in 0..n
  BY Homes DEF LogInv, StoreOK, StreamOK
<1>2. ids \subseteq 1..n /\ \A i : i \in ids <=> i \in hot[p] /\ i > cursor[p]
  BY <1>1 DEF EventsAfter
<1>3. {i \in ids : Shown(kind[Home[p]][i])} = {i \in hot[p] : i > cursor[p] /\ i \in ShownIds(p)}
  BY <1>1, <1>2 DEF ShownIds
<1> HIDE DEF ids, n
<1>4. Newest(ids, cursor[p]) \in cursor[p]..n /\ \A i \in ids : i <= Newest(ids, cursor[p])
  BY <1>1, <1>2, NewestIs
<1>5. Printed(p, ids) = InOrder({i \in hot[p] : i > cursor[p] /\ i \in ShownIds(p)})
  BY <1>3 DEF Printed
<1> QED BY <1>2, <1>4, <1>5 DEF ids, n

\* A plan in a frame is polled as long as it is followed.
LEMMA PollsKeep ==
  ASSUME LogInv, NEW p \in Plan, Followed(p), Polls(p)
  PROVE  LogInv'
<1> DEFINE ids == EventsAfter(p, cursor[p])
           at  == Newest(ids, cursor[p])
           more == Printed(p, ids)
           n   == lastId[Home[p]]
<1>1. /\ phase = "frames" /\ Turn(p) /\ Done
      /\ cursor' = [cursor EXCEPT ![p] = at] /\ lines' = [lines EXCEPT ![p] = @ \o more]
      /\ UNCHANGED <<store, reader, moved, phase, start>>
  BY DEF Polls, Querying
<1>2. /\ at \in cursor[p]..n /\ \A i \in hot[p] : i > cursor[p] => i <= at
      /\ more = InOrder({i \in hot[p] : i > cursor[p] /\ i \in ShownIds(p)})
  BY PollReadsAll
<1> HIDE DEF at, more, ids, n
<1>3. /\ n \in Nat /\ hot[p] \subseteq 1..n /\ cursor[p] \in 0..n /\ start[p] \in Int /\ start[p] \in 0..cursor[p]
      /\ lines[p] \in Seq(Nat) /\ IsLog(lines[p], start[p], cursor[p], hot[p], ShownIds(p))
  BY Homes DEF LogInv, StoreOK, StreamOK, LinesOK, n
<1>4. lines[p] \o more \in Seq(Nat) /\ IsLog(lines[p] \o more, start[p], at, hot[p], ShownIds(p))
  <2> DEFINE rows == ShownIds(p)
  <2>1. more = InOrder({i \in hot[p] : i > cursor[p] /\ i \in rows})
    BY <1>2
  <2>2. IsLog(lines[p], start[p], cursor[p], hot[p], rows) /\ start[p] <= cursor[p]
    BY <1>3
  <2> HIDE DEF rows
  <2>3. lines[p] \o more \in Seq(Nat) /\ IsLog(lines[p] \o more, start[p], at, hot[p], rows)
    BY <1>2, <1>3, <2>1, <2>2, LogGrows
  <2> QED BY <2>3 DEF rows
<1>5. StoreOK' /\ lastId' = lastId /\ hot' = hot /\ \A q \in Plan : ShownIds(q)' = ShownIds(q)
  BY <1>1, StoreSame DEF LogInv
<1>6. \A q \in Plan : /\ cursor'[q] = IF q = p THEN at ELSE cursor[q]
                      /\ lines'[q] = IF q = p THEN lines[p] \o more ELSE lines[q]
  BY <1>1 DEF LogInv, StreamOK
<1>7. start' = start
  BY <1>1
<1>8. StreamOK'
  <2>1. Once(todo')
    BY <1>1, DoneKeeps DEF LogInv
  <2>2. cursor' \in [Plan -> Int]
    BY <1>1, <1>2, <1>3 DEF LogInv, StreamOK
  <2>3. lines' \in [Plan -> Seq(Nat)]
    BY <1>1, <1>4 DEF LogInv, StreamOK
  <2>4. ASSUME NEW q \in Plan, cursor'[q] # NotFollowed
        PROVE  cursor'[q] \in 0..lastId'[Home[q]] /\ start'[q] \in 0..cursor'[q]
    <3>1. CASE q = p
      BY <1>2, <1>3, <1>5, <1>6, <1>7, <3>1 DEF n
    <3>2. CASE q # p
      BY <1>5, <1>6, <1>7, <2>4, <3>2 DEF LogInv, StreamOK, Followed
    <3> QED BY <3>1, <3>2
  <2>5. reader' = reader /\ moved' = moved /\ phase' = "frames"
    BY <1>1
  <2> QED BY <1>7, <2>1, <2>2, <2>3, <2>4, <2>5 DEF LogInv, StreamOK, Followed
<1>9. ASSUME NEW q \in Plan, cursor'[q] # NotFollowed
      PROVE  IsLog(lines'[q], start'[q], cursor'[q], hot'[q], ShownIds(q)')
  <2>1. CASE q = p
    BY <1>4, <1>5, <1>6, <1>7, <2>1
  <2>2. CASE q # p
    BY <1>5, <1>6, <1>7, <1>9, <2>2 DEF LogInv, LinesOK, Followed
  <2> QED BY <2>1, <2>2
<1>10. LinesOK'
  BY <1>9 DEF LinesOK, Followed
<1> QED BY <1>5, <1>8, <1>10 DEF LogInv

-----------------------------------------------------------------------------
(* The lines are the log                                                     *)

\* A frame polls only plans that are followed.
FrameOK == phase = "frames" => \A p \in Range(todo) : Followed(p)

IInv == LogInv /\ FrameOK

LEMMA FrameStep ==
  ASSUME IInv, LogInv', [Next]_vars
  PROVE  FrameOK'
<1>1. StreamOK /\ StreamOK'
  BY DEF IInv, LogInv
<1>2. ASSUME UNCHANGED <<phase, todo, cursor>> PROVE FrameOK'
  BY <1>2 DEF IInv, FrameOK, Followed
<1>3. ASSUME phase' = "baseline" PROVE FrameOK'
  BY <1>3 DEF FrameOK
<1>4. ASSUME NEW p \in Plan, phase = "frames", Turn(p), Done,
             \A q \in Plan : q # p => cursor'[q] = cursor[q]
      PROVE  FrameOK'
  <2>1. Range(todo') = Range(todo) \ {p} /\ Range(todo) \subseteq Plan
    BY <1>1, <1>4, DoneKeeps, HeadIsPlan
  <2> QED BY <1>4, <2>1 DEF IInv, FrameOK, Followed
<1>5. ASSUME NEW p \in Plan, NEW k \in Kind[p], Logs(p, k) PROVE FrameOK'
  BY <1>2, <1>5 DEF Logs
<1>6. ASSUME NEW p \in Plan, Archives(p) PROVE FrameOK'
  BY <1>2, <1>6 DEF Archives
<1>7. ASSUME NEW pr \in Project, Breaks(pr) PROVE FrameOK'
  BY <1>2, <1>7 DEF Breaks, stream
<1>8. CASE NewFrame
  <2>1. todo' = FollowedPaths /\ cursor' = cursor
    BY <1>8 DEF NewFrame
  <2>2. Range(todo') \subseteq Plan
    <3> DEFINE t == todo'
    <3>1. t \in Seq(Plan)
      BY <1>1 DEF StreamOK, Once
    <3> HIDE DEF t
    <3>2. \A x : x \in Range(t) <=> \E i \in 1..Len(t) : t[i] = x
      BY <3>1, RangeIs
    <3>3. Range(t) \subseteq Plan
      BY <3>1, <3>2
    <3> QED BY <3>3 DEF t
  <2>3. \A p \in Plan : p \in Range(FollowedPaths) => Followed(p)
    BY <1>1, FrameTakesAll
  <2> QED BY <2>1, <2>2, <2>3 DEF FrameOK, Followed
<1>9. ASSUME NEW p \in Plan, Opens(p) \/ BaselineReads(p) \/ BaselineGivesUp(p) PROVE FrameOK'
  BY <1>2, <1>3, <1>9 DEF Opens, BaselineReads, BaselineGivesUp
<1>10. ASSUME NEW p \in Plan, ChangedSinceLastFrame(p) PROVE FrameOK'
  BY <1>2, <1>10 DEF ChangedSinceLastFrame
<1>11. ASSUME NEW p \in Plan, IdlePoll(p) \/ Retries(p) PROVE FrameOK'
  BY <1>4, <1>11 DEF IdlePoll, Retries, Querying
<1>12. ASSUME NEW p \in Plan, Polls(p) PROVE FrameOK'
  <2>1. \A q \in Plan : q # p => cursor'[q] = cursor[q]
    BY <1>1, <1>12 DEF Polls, StreamOK
  <2> QED BY <1>4, <1>12, <2>1 DEF Polls, Querying
<1>13. ASSUME NEW p \in Plan, Skips(p) PROVE FrameOK'
  <2>1. \A q \in Plan : q # p => cursor'[q] = cursor[q]
    BY <1>1, <1>13 DEF Skips, StreamOK
  <2> QED BY <1>4, <1>13, <2>1 DEF Skips, Querying
<1>14. CASE UNCHANGED vars
  BY <1>2, <1>14 DEF vars, stream
<1> QED BY <1>5, <1>6, <1>7, <1>8, <1>9, <1>10, <1>11, <1>12, <1>13, <1>14 DEF Next, Stream

LEMMA InitInv == Init => IInv
<1> SUFFICES ASSUME Init PROVE IInv
  OBVIOUS
<1>1. StoreOK
  <2>1. <<>> \in Seq(Kinds) /\ Len(<<>>) = 0
    OBVIOUS
  <2> QED BY <2>1, Homes DEF Init, StoreOK
<1>2. StreamOK
  <2>1. Once(todo)
    BY PathsAssumption DEF Init, Once, IsInjective
  <2>2. NotFollowed \in Int /\ <<>> \in Seq(Nat)
    BY DEF NotFollowed
  <2> QED BY <2>1, <2>2 DEF Init, StreamOK, Followed, Connection
<1>3. LinesOK /\ FrameOK
  BY DEF Init, LinesOK, FrameOK, Followed
<1> QED BY <1>1, <1>2, <1>3 DEF IInv, LogInv

LEMMA StepInv == IInv /\ [Next]_vars => IInv'
<1> SUFFICES ASSUME IInv, [Next]_vars PROVE IInv'
  OBVIOUS
<1>1. LogInv /\ StreamOK
  BY DEF IInv, LogInv
<1>2. ASSUME NEW p \in Plan, NEW k \in Kind[p], Logs(p, k) PROVE LogInv'
  BY <1>1, <1>2, LogsKeep
<1>3. ASSUME NEW p \in Plan, Archives(p) PROVE LogInv'
  BY <1>1, <1>3, ArchivesKeep
<1>4. ASSUME NEW pr \in Project, Breaks(pr) PROVE LogInv'
  BY <1>1, <1>4, BreaksKeep
<1>5. ASSUME NewFrame PROVE LogInv'
  <2>1. PICK p \in Plan : TRUE
    BY <1>5 DEF NewFrame
  <2> QED BY <1>1, <1>5, <2>1, LogQuietSteps
<1>6. ASSUME NEW p \in Plan,
             Opens(p) \/ BaselineGivesUp(p) \/ ChangedSinceLastFrame(p)
               \/ IdlePoll(p) \/ Retries(p) \/ Skips(p)
      PROVE  LogInv'
  BY <1>1, <1>6, LogQuietSteps
<1>7. ASSUME NEW p \in Plan, BaselineReads(p) PROVE LogInv'
  BY <1>1, <1>7, BaselineKeeps
<1>8. ASSUME NEW p \in Plan, Polls(p) PROVE LogInv'
  <2>1. Followed(p)
    BY <1>1, <1>8, HeadIsPlan DEF Polls, Querying, IInv, FrameOK
  <2> QED BY <1>1, <1>8, <2>1, PollsKeep
<1>9. ASSUME UNCHANGED vars PROVE LogInv'
  <2>1. UNCHANGED <<store, lines, start, reader, moved, cursor, phase, todo>>
    BY <1>9 DEF vars, stream
  <2> QED BY <1>1, <2>1, LogQuiet DEF StreamOK
<1>10. LogInv'
  BY <1>2, <1>3, <1>4, <1>5, <1>6, <1>7, <1>8, <1>9 DEF Next, Stream
<1> QED BY <1>10, FrameStep DEF IInv

\* The log, the cursors and the lines stay related, whoever writes, archives or breaks
\* a store between two polls.
THEOREM Inductive == Spec => []IInv
<1>1. Init => IInv
  BY InitInv
<1>2. IInv /\ [Next]_vars => IInv'
  BY StepInv
<1> QED BY <1>1, <1>2, PTL DEF Spec

LEMMA LinesSafe == IInv => StreamIsTheLog
<1> SUFFICES ASSUME IInv, NEW p \in Plan, Followed(p)
             PROVE  /\ \A i, j \in DOMAIN lines[p] : i < j => lines[p][i] < lines[p][j]
                    /\ \A i \in Range(lines[p]) : i > start[p]
                    /\ Range(lines[p]) \cap hot[p] =
                         {i \in hot[p] : i \in (start[p] + 1)..cursor[p] /\ Shown(kind[Home[p]][i])}
  BY DEF StreamIsTheLog
<1> DEFINE l == lines[p]
           rows == ShownIds(p)
<1>1. /\ IsLog(l, start[p], cursor[p], hot[p], rows) /\ l \in Seq(Nat) /\ start[p] \in Int
      /\ hot[p] \subseteq 1..lastId[Home[p]]
  BY DEF IInv, LogInv, LinesOK, StreamOK, StoreOK
<1>2. \A i \in hot[p] : i \in rows <=> Shown(kind[Home[p]][i])
  BY <1>1 DEF ShownIds
<1> HIDE DEF rows, l
<1>3. DOMAIN l = 1..Len(l) /\ \A x : x \in Range(l) <=> \E i \in 1..Len(l) : l[i] = x
  BY <1>1, RangeIs
<1>4. \A i, j \in DOMAIN l : i < j => l[i] < l[j]
  BY <1>1, <1>3 DEF IsLog
<1>5. \A i \in Range(l) : i > start[p]
  <2>1. ASSUME NEW i \in 1..Len(l) PROVE l[i] > start[p]
    <3>1. start[p] < l[i] /\ l[i] \in Nat
      BY <1>1 DEF IsLog
    <3> QED BY <1>1, <3>1
  <2> QED BY <1>3, <2>1
<1>6. Range(l) \cap hot[p] = {i \in hot[p] : i \in (start[p] + 1)..cursor[p] /\ Shown(kind[Home[p]][i])}
  BY <1>1, <1>2 DEF IsLog
<1> QED BY <1>4, <1>5, <1>6 DEF l

\* `clu watch` prints every row of a followed plan that its view shows and its cursor
\* has passed, once and in the order they were logged: an archival, a store that breaks
\* and rows of other plans in between neither repeat nor skip one.
THEOREM LinesAreTheLog == Spec => []StreamIsTheLog
<1>1. IInv => StreamIsTheLog
  BY LinesSafe
<1> QED BY <1>1, Inductive, PTL

-----------------------------------------------------------------------------
(* The gate of data_version                                                  *)

\* A plan whose read has to wait for a writer is the only one its project has in the
\* stream.  Without this a retry throws away the reading that other plans of the
\* project had still to act on, and the gate does shut (run watch_retry).
LoneRefusable == \A p \in Refusable \cup Undecodable, q \in Plan : Home[q] = Home[p] => q = p

\* A followed plan has a connection, unless its store is broken.
OpenOK == \A p \in Plan : Followed(p) /\ Home[p] \notin broken => reader[Home[p]] # "closed"

\* A project that no plan of the frame has asked about has all its plans to come.
UnaskedOK ==
  phase = "frames" =>
    \A p, q \in Plan :
      (/\ p \in Range(todo) /\ moved[Home[p]] = "unasked" /\ Home[p] \notin broken
       /\ Followed(q) /\ Home[q] = Home[p]) => q \in Range(todo)

GateInv == OpenOK /\ UnaskedOK /\ GateStaysOpen

\* Somebody else commits.
LEMMA GateOutdated ==
  ASSUME StreamOK, GateInv, NEW pr \in Project, reader' = Outdated(pr),
         \A p \in Plan : (Unread(p)' # {} => Unread(p) # {}) \/ Home[p] = pr,
         UNCHANGED <<broken, moved, cursor, phase, todo>>
  PROVE  GateInv'
<1>1. \A r \in Project : /\ reader'[r] = "closed" <=> reader[r] = "closed"
                         /\ reader[r] \in {"behind", "invalidated"} => reader'[r] = reader[r]
  BY DEF StreamOK, Outdated, Connection
<1>2. reader[pr] # "closed" => reader'[pr] \in {"behind", "invalidated"}
  BY DEF StreamOK, Outdated, Connection
<1>3. OpenOK' /\ UnaskedOK'
  BY <1>1, Homes DEF GateInv, OpenOK, UnaskedOK, Followed
<1>4. ASSUME NEW p \in Plan, Followed(p), Unread(p)' # {}, Home[p] \notin broken
      PROVE  \/ reader'[Home[p]] \in {"behind", "invalidated"}
             \/ moved[Home[p]] = "yes" /\ p \in Range(todo)
  <2>1. CASE Home[p] = pr
    BY <1>2, <1>4, <2>1 DEF GateInv, OpenOK
  <2>2. CASE Unread(p) # {}
    BY <1>1, <1>4, <2>2, Homes DEF GateInv, GateStaysOpen
  <2> QED BY <1>4, <2>1, <2>2
<1>5. GateStaysOpen'
  BY <1>4 DEF GateStaysOpen, Followed
<1> QED BY <1>3, <1>5 DEF GateInv

LEMMA GateStep ==
  ASSUME LoneRefusable, IInv, IInv', GateInv, [Next]_vars
  PROVE  GateInv'
<1>1. StreamOK /\ StreamOK' /\ LogInv
  BY DEF IInv, LogInv
<1>2. ASSUME NEW p \in Plan, NEW k \in Kind[p], Logs(p, k) PROVE GateInv'
  <2>1. \A q \in Plan : q # p => hot'[q] = hot[q] /\ cursor'[q] = cursor[q]
    BY <1>1, <1>2 DEF Logs, LogInv, StoreOK
  <2>2. \A q \in Plan : (Unread(q)' # {} => Unread(q) # {}) \/ Home[q] = Home[p]
    BY <2>1 DEF Unread
  <2> QED BY <1>1, <1>2, <2>2, Homes, GateOutdated DEF Logs
<1>3. ASSUME NEW p \in Plan, Archives(p) PROVE GateInv'
  <2>1. \A q \in Plan : (hot'[q] = hot[q] \/ hot'[q] = {}) /\ cursor'[q] = cursor[q]
    BY <1>1, <1>3 DEF Archives, LogInv, StoreOK
  <2>2. \A q \in Plan : (Unread(q)' # {} => Unread(q) # {}) \/ Home[q] = Home[p]
    BY <2>1 DEF Unread
  <2> QED BY <1>1, <1>3, <2>2, Homes, GateOutdated DEF Archives
<1>4. ASSUME NEW pr \in Project, Breaks(pr) PROVE GateInv'
  BY <1>4 DEF Breaks, stream, GateInv, OpenOK, UnaskedOK, GateStaysOpen, Followed, Unread
<1>5. CASE NewFrame
  <2>1. todo = <<>> /\ todo' = FollowedPaths /\ UNCHANGED <<lastId, hot, kind, broken, reader, cursor>>
    BY <1>5 DEF NewFrame, store
  <2>2. Range(<<>>) = {}
    BY DEF Range
  <2>3. OpenOK'
    BY <2>1 DEF GateInv, OpenOK, Followed
  <2>4. UnaskedOK'
    BY <1>1, <2>1, FrameTakesAll DEF UnaskedOK, Followed
  <2>5. GateStaysOpen'
    BY <2>1, <2>2 DEF GateInv, GateStaysOpen, Followed, Unread
  <2> QED BY <2>3, <2>4, <2>5 DEF GateInv
<1>6. ASSUME NEW p \in Plan, Opens(p) PROVE GateInv'
  <2>1. /\ reader[Home[p]] = "closed" /\ Home[p] \notin broken
        /\ reader' = [reader EXCEPT ![Home[p]] = "current"]
        /\ UNCHANGED <<lastId, hot, kind, broken, moved, cursor, phase, todo>>
    BY <1>6 DEF Opens, store
  <2>2. \A q \in Plan : Followed(q) /\ Home[q] \notin broken => Home[q] # Home[p]
    BY <2>1 DEF GateInv, OpenOK
  <2>3. \A q \in Plan : Followed(q) /\ Home[q] \notin broken => reader'[Home[q]] = reader[Home[q]]
    BY <1>1, <2>1, <2>2, Homes DEF StreamOK
  <2>4. OpenOK'
    BY <2>1, <2>3 DEF GateInv, OpenOK, Followed
  <2>5. UnaskedOK'
    BY <2>1 DEF GateInv, UnaskedOK, Followed
  <2>6. GateStaysOpen'
    BY <2>1, <2>3 DEF GateInv, GateStaysOpen, Followed, Unread
  <2> QED BY <2>4, <2>5, <2>6 DEF GateInv
<1>7. ASSUME NEW p \in Plan, BaselineReads(p) PROVE GateInv'
  <2>1. /\ phase = "baseline" /\ Turn(p) /\ Done /\ reader[Home[p]] # "closed"
        /\ cursor' = [cursor EXCEPT ![p] = Newest(hot[p], 0)]
        /\ UNCHANGED <<lastId, hot, kind, broken, reader, moved, phase>>
    BY <1>7 DEF BaselineReads, store
  <2>2. \A q \in Plan : q # p => cursor'[q] = cursor[q]
    BY <1>1, <2>1 DEF StreamOK
  <2>3. Unread(p)' = {}
    <3>1. lastId[Home[p]] \in Nat /\ hot[p] \subseteq 1..lastId[Home[p]]
      BY <1>1, Homes DEF LogInv, StoreOK
    <3>2. \A i \in hot[p] : i <= Newest(hot[p], 0)
      BY <3>1, NewestIs
    <3>3. cursor'[p] = Newest(hot[p], 0) /\ cursor'[p] \in Int
      BY <1>1, <2>1 DEF StreamOK
    <3>4. ASSUME NEW i \in hot[p] PROVE ~ (i > cursor'[p])
      BY <3>1, <3>2, <3>3
    <3> QED BY <2>1, <3>4 DEF Unread
  <2>4. OpenOK'
    BY <2>1, <2>2 DEF GateInv, OpenOK, Followed
  <2>5. UnaskedOK'
    BY <2>1 DEF UnaskedOK
  <2>6. ASSUME NEW q \in Plan, q # p, Followed(q), Unread(q) # {}, Home[q] \notin broken
        PROVE  reader[Home[q]] \in {"behind", "invalidated"}
    BY <1>1, <2>1, <2>6, Homes DEF GateInv, GateStaysOpen, StreamOK
  <2>7. \A q \in Plan : q # p => Unread(q)' = Unread(q)
    BY <2>1, <2>2 DEF Unread
  <2>8. GateStaysOpen'
    BY <2>1, <2>2, <2>3, <2>6, <2>7 DEF GateStaysOpen, Followed
  <2> QED BY <2>4, <2>5, <2>8 DEF GateInv
<1>8. ASSUME NEW p \in Plan, BaselineGivesUp(p) PROVE GateInv'
  <2>1. phase = "baseline" /\ UNCHANGED <<lastId, hot, kind, broken, reader, moved, cursor, phase>>
    BY <1>8 DEF BaselineGivesUp, store
  <2>2. \A q \in Plan : moved[Home[q]] # "yes"
    BY <1>1, <2>1, Homes DEF StreamOK
  <2> QED BY <2>1, <2>2 DEF GateInv, OpenOK, UnaskedOK, GateStaysOpen, Followed, Unread
<1>9. ASSUME NEW p \in Plan, ChangedSinceLastFrame(p) PROVE GateInv'
  <2> DEFINE pr == Home[p]
  <2>1. /\ phase = "frames" /\ Turn(p) /\ reader[pr] # "closed" /\ moved[pr] = "unasked"
        /\ moved' = [moved EXCEPT ![pr] = IF reader[pr] = "current" THEN "no" ELSE "yes"]
        /\ reader' = [reader EXCEPT ![pr] = "current"]
        /\ UNCHANGED <<lastId, hot, kind, broken, cursor, phase, todo>>
    BY <1>9 DEF ChangedSinceLastFrame, store
  <2>2. p \in Range(todo) /\ pr \in Project
    BY <1>1, <2>1, HeadIsPlan, Homes
  <2> HIDE DEF pr
  <2>3. /\ reader'[pr] = "current" /\ moved'[pr] = (IF reader[pr] = "current" THEN "no" ELSE "yes")
        /\ \A r \in Project : r # pr => reader'[r] = reader[r] /\ moved'[r] = moved[r]
    BY <1>1, <2>1, <2>2 DEF StreamOK
  <2>4. OpenOK'
    BY <2>1, <2>3, Homes DEF GateInv, OpenOK, Followed
  <2>5. UnaskedOK'
    BY <2>1, <2>3, Homes DEF GateInv, UnaskedOK, Followed
  <2>6. ASSUME NEW q \in Plan, Followed(q), Unread(q) # {}, Home[q] \notin broken
        PROVE  \/ reader'[Home[q]] \in {"behind", "invalidated"}
               \/ moved'[Home[q]] = "yes" /\ q \in Range(todo)
    <3>1. CASE Home[q] = pr
      <4>1. reader[pr] \in {"behind", "invalidated"}
        BY <2>1, <2>6, <3>1 DEF GateInv, GateStaysOpen
      <4>2. q \in Range(todo)
        BY <2>1, <2>2, <2>6, <3>1 DEF GateInv, UnaskedOK, pr
      <4> QED BY <2>3, <3>1, <4>1, <4>2
    <3>2. CASE Home[q] # pr
      BY <2>3, <2>6, <3>2, Homes DEF GateInv, GateStaysOpen
    <3> QED BY <3>1, <3>2
  <2>7. GateStaysOpen'
    BY <2>1, <2>6 DEF GateStaysOpen, Followed, Unread
  <2> QED BY <2>4, <2>5, <2>7 DEF GateInv
<1>10. ASSUME NEW p \in Plan, IdlePoll(p) PROVE GateInv'
  <2>1. /\ phase = "frames" /\ Turn(p) /\ Done /\ moved[Home[p]] = "no"
        /\ UNCHANGED <<lastId, hot, kind, broken, reader, moved, cursor, phase>>
    BY <1>10 DEF IdlePoll, store
  <2>2. Range(todo') = Range(todo) \ {p}
    BY <1>1, <2>1, DoneKeeps
  <2>3. \A q \in Plan : q = p => moved[Home[q]] = "no"
    BY <2>1
  <2>4. OpenOK'
    BY <2>1 DEF GateInv, OpenOK, Followed
  <2>5. UnaskedOK'
    BY <2>1, <2>2 DEF GateInv, UnaskedOK, Followed
  <2>6. GateStaysOpen'
    BY <2>1, <2>2 DEF GateInv, GateStaysOpen, Followed, Unread
  <2> QED BY <2>4, <2>5, <2>6 DEF GateInv
<1>11. ASSUME NEW p \in Plan, Polls(p) PROVE GateInv'
  <2> DEFINE at == Newest(EventsAfter(p, cursor[p]), cursor[p])
  <2>1. /\ phase = "frames" /\ Turn(p) /\ Done /\ moved[Home[p]] = "yes"
        /\ cursor' = [cursor EXCEPT ![p] = at]
        /\ UNCHANGED <<lastId, hot, kind, broken, reader, moved, phase>>
    BY <1>11 DEF Polls, Querying, store
  <2>2. Range(todo') = Range(todo) \ {p} /\ p \in Range(todo)
    BY <1>1, <2>1, DoneKeeps, HeadIsPlan
  <2>3. Followed(p)
    BY <2>1, <2>2 DEF IInv, FrameOK
  <2>4. at \in cursor[p]..lastId[Home[p]] /\ \A i \in hot[p] : i > cursor[p] => i <= at
    BY <1>1, <2>3, PollReadsAll
  <2> HIDE DEF at
  <2>5. \A q \in Plan : q # p => cursor'[q] = cursor[q]
    BY <1>1, <2>1 DEF StreamOK
  <2>6. Unread(p)' = {}
    <3>1. cursor[p] \in Int /\ at \in Int /\ cursor[p] <= at /\ hot[p] \in SUBSET Nat /\ cursor'[p] = at
      BY <1>1, <2>1, <2>4 DEF StreamOK, LogInv, StoreOK
    <3>2. ASSUME NEW i \in hot[p] PROVE ~ (i > at)
      BY <2>4, <3>1
    <3> QED BY <2>1, <3>1, <3>2 DEF Unread
  <2>7. \A q \in Plan : q # p => Unread(q)' = Unread(q)
    BY <2>1, <2>5 DEF Unread
  <2>8. OpenOK'
    BY <2>1, <2>3, <2>5 DEF GateInv, OpenOK, Followed
  <2>9. UnaskedOK'
    BY <2>1, <2>2, <2>3, <2>5 DEF GateInv, UnaskedOK, Followed
  <2>10. GateStaysOpen'
    BY <2>1, <2>2, <2>5, <2>6, <2>7 DEF GateInv, GateStaysOpen, Followed
  <2> QED BY <2>8, <2>9, <2>10 DEF GateInv
<1>12. ASSUME NEW p \in Plan, Retries(p) PROVE GateInv'
  <2> DEFINE pr == Home[p]
  <2>1. /\ phase = "frames" /\ Turn(p) /\ Done /\ p \in Refusable /\ pr \notin broken
        /\ reader' = [reader EXCEPT ![pr] = Invalidated(pr)]
        /\ moved' = [moved EXCEPT ![pr] = "unasked"]
        /\ UNCHANGED <<lastId, hot, kind, broken, cursor, phase>>
    BY <1>12 DEF Retries, Querying, store
  <2>2. Range(todo') = Range(todo) \ {p} /\ p \in Range(todo)
    BY <1>1, <2>1, DoneKeeps, HeadIsPlan
  <2>3. Followed(p)
    BY <2>1, <2>2 DEF IInv, FrameOK
  <2>4. \A q \in Plan : Home[q] = pr => q = p
    BY <2>1 DEF LoneRefusable
  <2>5. reader[pr] # "closed"
    BY <2>1, <2>3 DEF GateInv, OpenOK
  <2>6. /\ reader'[pr] = "invalidated"
        /\ \A r \in Project : r # pr => reader'[r] = reader[r] /\ moved'[r] = moved[r]
    BY <1>1, <2>1, <2>5, Homes DEF StreamOK, Invalidated
  <2> HIDE DEF pr
  <2>7. OpenOK'
    BY <2>1, <2>6, Homes DEF GateInv, OpenOK, Followed
  <2>8. UnaskedOK'
    <3> SUFFICES ASSUME NEW q \in Plan, NEW r \in Plan, q \in Range(todo'), moved'[Home[q]] = "unasked",
                        Home[q] \notin broken, Followed(r), Home[r] = Home[q]
                 PROVE  r \in Range(todo')
      BY <2>1 DEF UnaskedOK, Followed
    <3>1. q \in Range(todo) /\ q # p
      BY <2>2
    <3>2. Home[q] # pr
      BY <2>4, <3>1
    <3>3. moved[Home[q]] = "unasked"
      BY <2>6, <3>2, Homes
    <3>4. r \in Range(todo)
      BY <2>1, <3>1, <3>3 DEF GateInv, UnaskedOK
    <3>5. r # p
      BY <3>2 DEF pr
    <3> QED BY <2>2, <3>4, <3>5
  <2>9. GateStaysOpen'
    <3> SUFFICES ASSUME NEW q \in Plan, Followed(q), Unread(q) # {}, Home[q] \notin broken
                 PROVE  \/ reader'[Home[q]] \in {"behind", "invalidated"}
                        \/ moved'[Home[q]] = "yes" /\ q \in Range(todo')
      BY <2>1 DEF GateStaysOpen, Followed, Unread
    <3>1. CASE Home[q] = pr
      BY <2>6, <3>1
    <3>2. CASE Home[q] # pr
      BY <2>2, <2>6, <3>2, Homes DEF GateInv, GateStaysOpen, pr
    <3> QED BY <3>1, <3>2
  <2> QED BY <2>7, <2>8, <2>9 DEF GateInv
<1>13. ASSUME NEW p \in Plan, Skips(p) PROVE GateInv'
  <2> DEFINE pr == Home[p]
  <2>1. /\ phase = "frames" /\ Turn(p) /\ Done /\ (pr \in broken \/ p \in Undecodable)
        /\ reader' = [reader EXCEPT ![pr] = "closed"]
        /\ moved' = [moved EXCEPT ![pr] = "unasked"]
        /\ cursor' = [cursor EXCEPT ![p] = NotFollowed]
        /\ UNCHANGED <<lastId, hot, kind, broken, phase>>
    BY <1>13 DEF Skips, Querying, store
  <2>2. Range(todo') = Range(todo) \ {p} /\ p \in Range(todo)
    BY <1>1, <2>1, DoneKeeps, HeadIsPlan
  <2>9. cursor'[p] = NotFollowed
    BY <1>1, <2>1 DEF StreamOK
  <2>10. \A q \in Plan : Home[q] = pr => Home[q] \in broken \/ q = p
    BY <2>1 DEF LoneRefusable
  <2>3. \A q \in Plan : Home[q] \notin broken /\ q # p =>
          /\ Home[q] # Home[p]
          /\ reader'[Home[q]] = reader[Home[q]] /\ moved'[Home[q]] = moved[Home[q]]
          /\ cursor'[q] = cursor[q] /\ (q \in Range(todo') <=> q \in Range(todo))
    BY <1>1, <2>1, <2>2, <2>10, Homes DEF StreamOK
  <2>4. OpenOK'
    BY <2>1, <2>3, <2>9 DEF GateInv, OpenOK, Followed
  <2>5. UnaskedOK'
    <3> SUFFICES ASSUME NEW q \in Plan, NEW r \in Plan, q \in Range(todo'), moved'[Home[q]] = "unasked",
                        Home[q] \notin broken, cursor'[r] # NotFollowed, Home[r] = Home[q]
                 PROVE  r \in Range(todo')
      BY <2>1 DEF UnaskedOK, Followed
    <3>3. q # p /\ r # p
      BY <2>2, <2>9
    <3>1. q \in Range(todo) /\ moved[Home[q]] = "unasked" /\ cursor[r] # NotFollowed
      BY <2>3, <3>3
    <3>2. r \in Range(todo)
      BY <2>1, <3>1 DEF GateInv, UnaskedOK, Followed
    <3> QED BY <2>3, <3>2, <3>3
  <2>6. GateStaysOpen'
    <3> SUFFICES ASSUME NEW q \in Plan, cursor'[q] # NotFollowed, Unread(q)' # {}, Home[q] \notin broken
                 PROVE  \/ reader'[Home[q]] \in {"behind", "invalidated"}
                        \/ moved'[Home[q]] = "yes" /\ q \in Range(todo')
      BY <2>1 DEF GateStaysOpen, Followed
    <3>2. q # p
      BY <2>9
    <3>1. Unread(q)' = Unread(q) /\ Followed(q)
      BY <2>1, <2>3, <3>2 DEF Unread, Followed
    <3> QED BY <2>3, <3>1, <3>2 DEF GateInv, GateStaysOpen
  <2> QED BY <2>4, <2>5, <2>6 DEF GateInv
<1>14. CASE UNCHANGED vars
  <2>1. UNCHANGED <<lastId, hot, kind, broken, reader, moved, cursor, phase, todo>>
    BY <1>14 DEF vars, store, stream
  <2> QED BY <2>1 DEF GateInv, OpenOK, UnaskedOK, GateStaysOpen, Followed, Unread
<1> QED BY <1>2, <1>3, <1>4, <1>5, <1>6, <1>7, <1>8, <1>9, <1>10, <1>11, <1>12, <1>13, <1>14
        DEF Next, Stream

\* A frame may leave a project unread when data_version has not moved: the next poll of
\* every followed plan with an unread row does query, however many plans share a
\* connection and whatever is logged, archived or broken meanwhile.
THEOREM GateNeverShuts ==
  ASSUME LoneRefusable
  PROVE  Spec => []GateStaysOpen
<1>1. Init => GateInv
  BY DEF Init, GateInv, OpenOK, UnaskedOK, GateStaysOpen, Followed
<1>2. IInv /\ IInv' /\ GateInv /\ [Next]_vars => GateInv'
  BY LoneRefusable, GateStep
<1>3. GateInv => GateStaysOpen
  BY DEF GateInv
<1> QED BY <1>1, <1>2, <1>3, Inductive, PTL DEF Spec
=============================================================================
