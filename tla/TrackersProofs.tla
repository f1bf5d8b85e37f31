--------------------------- MODULE TrackersProofs ---------------------------
(***************************************************************************)
(* Theorems about the scripts that keep sheets and Jira sub-tasks, for     *)
(* every portal, set of cases, sequence of builds and number of faults.    *)
(***************************************************************************)
EXTENDS Trackers, SequenceTheorems, FiniteSetTheorems, TLAPS

-----------------------------------------------------------------------------
(* Numbers and loops.                                                      *)

(* Every non-empty set of numbers has a least one.                         *)
LEMMA Least ==
  ASSUME NEW S, S \subseteq Nat, S # {}
  PROVE  \E x \in S : \A y \in S : x <= y
<1>1. PICK x \in S : \A y \in S : ~(<<y, x>> \in OpToRel(<, Nat))
  BY NatLessThanWellFounded, WFMin, Zenon
<1>2. \A y \in S : y \in Nat /\ <<y, x>> \in Nat \X Nat
  OBVIOUS
<1>3. \A y \in S : ~(y < x)
  BY <1>1, <1>2 DEF OpToRel
<1> QED
  BY <1>2, <1>3

(* Min chooses it.                                                         *)
LEMMA MinIn ==
  ASSUME NEW S, S \subseteq Nat, S # {}
  PROVE  Min(S) \in S
<1>1. \E x \in S : \A y \in S : x <= y
  BY Least
<1> QED
  BY <1>1 DEF Min

(* Induction, said of a set of numbers.                                    *)
LEMMA Induction ==
  ASSUME NEW n \in Nat, NEW S, 0 \in S, \A m \in 0 .. n - 1 : m \in S => m + 1 \in S
  PROVE  \A m \in 0 .. n : m \in S
<1> DEFINE T == {m \in 0 .. n : m \notin S}
<1>1. SUFFICES ASSUME T # {}
               PROVE  FALSE
  OBVIOUS
<1>2. T \subseteq Nat
  OBVIOUS
<1>3. PICK x \in T : \A y \in T : x <= y
  BY <1>1, <1>2, Least
<1>4. x \in 0 .. n /\ x \notin S /\ x # 0
  OBVIOUS
<1>5. x - 1 \in 0 .. n - 1 /\ x - 1 \in Nat /\ x - 1 + 1 = x
  BY <1>4
<1>6. x - 1 \notin S
  BY <1>4, <1>5
<1>7. x - 1 \in T
  BY <1>5, <1>6
<1> QED
  BY <1>3, <1>4, <1>5, <1>7

(* So the loop over a list is well defined: EntriesUpTo is what it says.   *)
LEMMA EntriesUpToDef ==
  ASSUME NEW s, NEW places, NEW L \in Nat, L = Len(s)
  PROVE  EntriesUpTo(s, places) = [n \in 0 .. L |->
           IF n = 0 THEN <<>>
           ELSE IF n \in places THEN Append(EntriesUpTo(s, places)[n - 1], s[n])
           ELSE EntriesUpTo(s, places)[n - 1]]
<1> DEFINE Start == <<>>
           Step(acc, n) == IF n \in places THEN Append(acc, s[n]) ELSE acc
           S == {m \in 0 .. L : \E g :
                   g = [n \in 0 .. m |-> IF n = 0 THEN Start ELSE Step(g[n - 1], n)]}
<1>1. 0 \in S
  <2> DEFINE g == [n \in 0 .. 0 |-> Start]
  <2>1. g = [n \in 0 .. 0 |-> IF n = 0 THEN Start ELSE Step(g[n - 1], n)]
    OBVIOUS
  <2> HIDE DEF g
  <2> QED
    BY <2>1
<1>2. ASSUME NEW m \in 0 .. L - 1, m \in S
      PROVE  m + 1 \in S
  <2>1. PICK g : g = [n \in 0 .. m |-> IF n = 0 THEN Start ELSE Step(g[n - 1], n)]
    BY <1>2
  <2> DEFINE h == [n \in 0 .. m + 1 |-> IF n = m + 1 THEN Step(g[m], m + 1) ELSE g[n]]
  <2>2. m \in Nat /\ DOMAIN g = 0 .. m
    BY <2>1
  <2>3. \A n \in 0 .. m : h[n] = g[n]
    BY <2>2
  <2>4. h[m + 1] = Step(h[m], m + 1)
    <3>1. m \in 0 .. m /\ m + 1 \in 0 .. m + 1
      BY <2>2
    <3> HIDE DEF Step
    <3> QED
      BY <2>3, <3>1
  <2>5. \A n \in 0 .. m : h[n] = IF n = 0 THEN Start ELSE Step(h[n - 1], n)
    <3> SUFFICES ASSUME NEW n \in 0 .. m
                 PROVE  h[n] = IF n = 0 THEN Start ELSE Step(h[n - 1], n)
      OBVIOUS
    <3> HIDE DEF Step, h, Start
    <3>1. n # 0 => n - 1 \in 0 .. m
      BY <2>2
    <3>2. g[n] = IF n = 0 THEN Start ELSE Step(g[n - 1], n)
      BY <2>1
    <3>3. CASE n = 0
      BY <2>3, <3>2, <3>3
    <3>4. CASE n # 0
      <4>1. h[n - 1] = g[n - 1] /\ h[n] = g[n]
        BY <2>3, <3>1, <3>4
      <4> QED
        BY <3>2, <3>4, <4>1
    <3> QED
      BY <3>3, <3>4
  <2>6. h = [n \in 0 .. m + 1 |-> IF n = 0 THEN Start ELSE Step(h[n - 1], n)]
    <3>1. DOMAIN h = 0 .. m + 1 /\ h = [n \in 0 .. m + 1 |-> h[n]]
      OBVIOUS
    <3> HIDE DEF Step, h, Start
    <3>2. \A n \in 0 .. m + 1 : n \in 0 .. m \/ n = m + 1
      BY <2>2
    <3>3. m + 1 # 0 /\ m + 1 - 1 = m
      BY <2>2
    <3>4. \A n \in 0 .. m + 1 : h[n] = IF n = 0 THEN Start ELSE Step(h[n - 1], n)
      BY <2>4, <2>5, <3>2, <3>3
    <3> QED
      BY <3>1, <3>4
  <2>7. m + 1 \in 0 .. L
    OBVIOUS
  <2> HIDE DEF Step, h, Start
  <2> QED
    BY <2>6, <2>7
<1>3. L \in S
  <2> HIDE DEF S
  <2> QED
    BY <1>1, <1>2, Induction
<1>4. \E g : g = [n \in 0 .. L |-> IF n = 0 THEN Start ELSE Step(g[n - 1], n)]
  <2> HIDE DEF Step, Start
  <2> QED
    BY <1>3
<1>5. EntriesUpTo(s, places) = CHOOSE g : g = [n \in 0 .. L |-> IF n = 0 THEN Start ELSE Step(g[n - 1], n)]
  BY DEF EntriesUpTo
<1> HIDE DEF Step, Start
<1>6. EntriesUpTo(s, places) = [n \in 0 .. L |-> IF n = 0 THEN Start ELSE Step(EntriesUpTo(s, places)[n - 1], n)]
  BY <1>4, <1>5
<1> QED
  BY <1>6, Zenon DEF Step, Start

(* The loop keeps the entries at its places, each once and in their order: *)
(* p says which place an entry comes from.                                 *)
Picks(p, s, places, n, e) ==
  /\ p \in Seq(1 .. n) /\ Len(p) = Len(e)
  /\ \A k \in 1 .. Len(p) : p[k] \in places /\ e[k] = s[p[k]]
  /\ \A k, l \in 1 .. Len(p) : k < l => p[k] < p[l]
  /\ \A m \in 1 .. n : m \in places => \E k \in 1 .. Len(p) : p[k] = m

LEMMA EntriesPicks ==
  ASSUME NEW T, NEW s \in Seq(T), NEW places
  PROVE  /\ Entries(s, places) \in Seq(T)
         /\ \E p : Picks(p, s, places, Len(s), Entries(s, places))
<1> DEFINE L == Len(s)
           E(n) == EntriesUpTo(s, places)[n]
           Good == {n \in 0 .. L : E(n) \in Seq(T) /\ \E p : Picks(p, s, places, n, E(n))}
<1>0. L \in Nat
  OBVIOUS
<1>1. /\ E(0) = <<>>
      /\ \A n \in 1 .. L : E(n) = IF n \in places THEN Append(E(n - 1), s[n]) ELSE E(n - 1)
  <2>1. \A n \in 0 .. L : E(n) = IF n = 0 THEN <<>>
                                 ELSE IF n \in places THEN Append(E(n - 1), s[n]) ELSE E(n - 1)
    <3>1. EntriesUpTo(s, places) = [n \in 0 .. L |->
             IF n = 0 THEN <<>>
             ELSE IF n \in places THEN Append(EntriesUpTo(s, places)[n - 1], s[n])
             ELSE EntriesUpTo(s, places)[n - 1]]
      BY <1>0, EntriesUpToDef
    <3> QED
      BY <3>1
  <2> HIDE DEF E
  <2> QED
    BY <1>0, <2>1
<1> HIDE DEF E
<1>2. 0 \in Good
  <2>1. Picks(<<>>, s, places, 0, <<>>)
    BY DEF Picks
  <2>2. Picks(<<>>, s, places, 0, E(0))
    BY <1>1, <2>1, Zenon
  <2>3. E(0) \in Seq(T)
    <3>1. <<>> \in Seq(T)
      OBVIOUS
    <3> QED
      BY <1>1, <3>1, Zenon
  <2>4. 0 \in 0 .. L
    BY <1>0
  <2> QED
    BY <2>2, <2>3, <2>4, Zenon
<1>3. ASSUME NEW n \in 0 .. L - 1, n \in Good
      PROVE  n + 1 \in Good
  <2>1. PICK p : Picks(p, s, places, n, E(n))
    BY <1>3
  <2>2. /\ n \in Nat /\ n + 1 \in 1 .. L /\ n + 1 - 1 = n /\ n + 1 \in 0 .. L
        /\ E(n) \in Seq(T) /\ s[n + 1] \in T
    BY <1>0, <1>3
  <2>3. /\ p \in Seq(1 .. n) /\ Len(p) = Len(E(n)) /\ Len(p) \in Nat
        /\ \A k \in 1 .. Len(p) : p[k] \in 1 .. n /\ p[k] \in places /\ E(n)[k] = s[p[k]]
        /\ \A k, l \in 1 .. Len(p) : k < l => p[k] < p[l]
        /\ \A m \in 1 .. n : m \in places => \E k \in 1 .. Len(p) : p[k] = m
    BY <2>1 DEF Picks
  <2>4. p \in Seq(1 .. n + 1)
    <3>1. 1 .. n \subseteq 1 .. n + 1
      BY <2>2
    <3> QED
      BY <2>3, <3>1, SeqMonotonic
  <2>5. \A m \in 1 .. n + 1 : m \in 1 .. n \/ m = n + 1
    BY <2>2
  <2>6. CASE n + 1 \in places
    <3>1. E(n + 1) = Append(E(n), s[n + 1])
      BY <1>1, <2>2, <2>6
    <3>2. PICK q : q = Append(p, n + 1)
      OBVIOUS
    <3>3. /\ q \in Seq(1 .. n + 1) /\ Len(q) = Len(p) + 1 /\ q[Len(p) + 1] = n + 1
          /\ \A k \in 1 .. Len(p) : q[k] = p[k]
      BY <2>2, <2>4, <3>2, AppendProperties
    <3>4. /\ E(n + 1) \in Seq(T) /\ Len(E(n + 1)) = Len(p) + 1 /\ E(n + 1)[Len(p) + 1] = s[n + 1]
          /\ \A k \in 1 .. Len(p) : E(n + 1)[k] = E(n)[k]
      <4>1. PICK g \in Seq(T), x \in T : g = E(n) /\ x = s[n + 1]
        BY <2>2
      <4>2. /\ Append(g, x) \in Seq(T) /\ Len(Append(g, x)) = Len(g) + 1 /\ Append(g, x)[Len(g) + 1] = x
            /\ \A k \in 1 .. Len(g) : Append(g, x)[k] = g[k]
        BY AppendProperties
      <4>3. Len(g) = Len(p) /\ E(n + 1) = Append(g, x)
        BY <2>3, <3>1, <4>1
      <4> QED
        BY <4>1, <4>2, <4>3
    <3>5. \A k \in 1 .. Len(q) : k \in 1 .. Len(p) \/ k = Len(p) + 1
      BY <2>3, <3>3
    <3>6. \A k \in 1 .. Len(q) : q[k] \in places /\ E(n + 1)[k] = s[q[k]]
      BY <2>3, <2>6, <3>3, <3>4, <3>5
    <3>7. \A k, l \in 1 .. Len(q) : k < l => q[k] < q[l]
      <4> SUFFICES ASSUME NEW k \in 1 .. Len(q), NEW l \in 1 .. Len(q), k < l
                   PROVE  q[k] < q[l]
        OBVIOUS
      <4>1. k \in 1 .. Len(p)
        BY <2>3, <3>3
      <4>2. CASE l \in 1 .. Len(p)
        BY <2>3, <3>3, <4>1, <4>2
      <4>3. CASE l = Len(p) + 1
        <5>1. p[k] \in 1 .. n
          BY <2>3, <4>1
        <5>2. q[k] = p[k] /\ q[l] = n + 1
          BY <3>3, <4>1, <4>3
        <5> QED
          BY <2>2, <5>1, <5>2
      <4> QED
        BY <3>5, <4>2, <4>3
    <3>8. \A m \in 1 .. n + 1 : m \in places => \E k \in 1 .. Len(q) : q[k] = m
      <4>1. Len(p) + 1 \in 1 .. Len(q) /\ \A k \in 1 .. Len(p) : k \in 1 .. Len(q)
        BY <2>3, <3>3
      <4> QED
        BY <2>3, <2>5, <3>3, <4>1
    <3>9. Picks(q, s, places, n + 1, E(n + 1))
      BY <3>3, <3>4, <3>6, <3>7, <3>8 DEF Picks
    <3> QED
      BY <2>2, <3>4, <3>9
  <2>7. CASE n + 1 \notin places
    <3>1. E(n + 1) = E(n)
      BY <1>1, <2>2, <2>7
    <3>2. Picks(p, s, places, n + 1, E(n + 1))
      BY <2>3, <2>4, <2>5, <2>7, <3>1 DEF Picks
    <3> QED
      BY <2>2, <3>1, <3>2
  <2> QED
    BY <2>6, <2>7
<1>4. L \in Good
  <2>1. \A n \in 0 .. L - 1 : n \in Good => n + 1 \in Good
    BY <1>3
  <2> HIDE DEF Good
  <2>2. \A n \in 0 .. L : n \in Good
    BY <1>0, <1>2, <2>1, Induction
  <2> QED
    BY <1>0, <2>2
<1>5. E(L) = Entries(s, places)
  BY DEF E, Entries
<1> QED
  BY <1>4, <1>5

-----------------------------------------------------------------------------
(* The sub-tasks of Jira.                                                  *)

Task == [subject : Subject, open : BOOLEAN]

(* The list of sub-tasks is one, and holds a subject once.                 *)
JiraInv ==
  /\ faults \in Nat
  /\ tasks \in Seq(Task)
  /\ closed \in [now : Nat, all : Nat]
  /\ OneTaskPerSubject

(* No step takes a sub-task away or renames it, nor undoes the tracking of *)
(* a subject within a run.                                                 *)
TasksGrow ==
  /\ tasks' \in Seq(Task)
  /\ Len(tasks) <= Len(tasks')
  /\ \A i \in 1 .. Len(tasks) : tasks'[i].subject = tasks[i].subject
StaysTracked == \A s \in Subject : Tracked(s) => Tracked(s)'

(* Where every sub-task stays open, or one was closed, nothing is lost.    *)
LEMMA TrackedStays ==
  ASSUME \A i \in DOMAIN tasks :
           /\ i \in DOMAIN tasks' /\ tasks'[i].subject = tasks[i].subject
           /\ tasks[i].open \/ closed.now > 0 => tasks'[i].open \/ closed'.now > 0
  PROVE  StaysTracked
BY Zenon DEF StaysTracked, Tracked

(* What create_sub_task does: it opens a listed sub-task that names the    *)
(* subject, or, when there is none, adds one behind the others.            *)
LEMMA CreateFacts ==
  ASSUME JiraInv, NEW s \in Subject, NEW n \in 0 .. Len(tasks), NEW a,
         CreateSubTask(s, n, a), UNCHANGED closed
  PROVE  /\ TasksGrow
         /\ StaysTracked
         /\ \A i \in Len(tasks) + 1 .. Len(tasks') : tasks'[i].subject = s /\ Naming(s, n) = {}
         /\ Len(tasks') <= Len(tasks) + 1
         /\ a # "error" => Tracked(s)'
<1>0. tasks \in Seq(Task) /\ Len(tasks) \in Nat /\ closed.now \in Nat
  BY DEF JiraInv
<1>1. \A i \in 1 .. Len(tasks) : tasks[i] \in Task
  BY <1>0
<1>2. CASE a = "error"
  <2>1. tasks' = tasks
    BY <1>2 DEF CreateSubTask
  <2> QED
    BY <1>0, <1>2, <2>1 DEF TasksGrow, StaysTracked, Tracked
<1>3. CASE a # "error" /\ Naming(s, n) # {}
  <2> DEFINE t == Target(s, n)
  <2>1. t \in Naming(s, n)
    <3>1. Naming(s, n) \subseteq Nat
      BY DEF Naming
    <3> QED
      BY <1>3, <3>1, MinIn DEF Target
  <2>2. t \in 1 .. Len(tasks) /\ <<s, tasks[t].subject>> \in Within
    BY <1>0, <2>1 DEF Naming
  <2>3. tasks' = [tasks EXCEPT ![t].open = TRUE]
    BY <1>3 DEF CreateSubTask
  <2> HIDE DEF t
  <2>4. /\ DOMAIN tasks' = 1 .. Len(tasks)
        /\ \A i \in 1 .. Len(tasks) :
             tasks'[i] = IF i = t THEN [tasks[t] EXCEPT !.open = TRUE] ELSE tasks[i]
    BY <1>0, <2>2, <2>3
  <2>5. \A i \in 1 .. Len(tasks) :
          /\ tasks'[i] \in Task /\ tasks'[i].subject = tasks[i].subject
          /\ tasks[i].open => tasks'[i].open
          /\ i = t => tasks'[i].open = TRUE
    BY <1>1, <2>4 DEF Task
  <2>6. tasks' \in Seq(Task) /\ Len(tasks') = Len(tasks)
    <3>1. tasks' = [i \in 1 .. Len(tasks) |-> tasks'[i]]
      BY <2>3, <2>4, <1>0
    <3>2. \A i \in 1 .. Len(tasks) : tasks'[i] \in Task
      BY <2>5
    <3> QED
      BY <1>0, <3>1, <3>2, IsASeq, LenProperties
  <2>7. TasksGrow
    BY <1>0, <2>5, <2>6 DEF TasksGrow
  <2>8. StaysTracked
    <3>1. DOMAIN tasks = 1 .. Len(tasks)
      BY <1>0
    <3>2. closed'.now = closed.now
      OBVIOUS
    <3> QED
      BY <2>4, <2>5, <3>1, <3>2, TrackedStays, Zenon
  <2>9. Tracked(s)'
    BY <2>2, <2>4, <2>5 DEF Tracked
  <2> QED
    BY <1>0, <2>6, <2>7, <2>8, <2>9
<1>4. CASE a # "error" /\ Naming(s, n) = {}
  <2> DEFINE e == [subject |-> s, open |-> TRUE]
  <2>1. tasks' = Append(tasks, e)
    BY <1>4 DEF CreateSubTask
  <2>2. e \in Task /\ e.subject = s /\ e.open = TRUE
    BY DEF Task
  <2> HIDE DEF e
  <2>3. /\ tasks' \in Seq(Task) /\ Len(tasks') = Len(tasks) + 1
        /\ DOMAIN tasks' = 1 .. Len(tasks) + 1
        /\ \A i \in 1 .. Len(tasks) : tasks'[i] = tasks[i]
        /\ tasks'[Len(tasks) + 1] = e
    BY <1>0, <2>1, <2>2
  <2>4. TasksGrow
    BY <1>0, <2>3 DEF TasksGrow
  <2>5. \A i \in DOMAIN tasks : i \in DOMAIN tasks' /\ tasks'[i] = tasks[i]
    BY <1>0, <2>3
  <2>6. StaysTracked
    BY <2>5, TrackedStays
  <2>7. Tracked(s)'
    <3>1. <<s, s>> \in Within
      BY SubTaskAssumption
    <3>2. Len(tasks) + 1 \in DOMAIN tasks'
      BY <1>0, <2>3
    <3> QED
      BY <2>2, <2>3, <3>1, <3>2 DEF Tracked
  <2>8. \A i \in Len(tasks) + 1 .. Len(tasks') : tasks'[i].subject = s
    BY <1>0, <2>2, <2>3
  <2> QED
    BY <1>0, <1>4, <2>3, <2>4, <2>6, <2>7, <2>8
<1> QED
  BY <1>2, <1>3, <1>4

(* What a person who closes a sub-task does to them.                       *)
LEMMA CloseFacts ==
  ASSUME JiraInv, NEW j \in DOMAIN tasks, CloseTask(j)
  PROVE  /\ TasksGrow
         /\ StaysTracked
         /\ Len(tasks') = Len(tasks)
         /\ closed' \in [now : Nat, all : Nat]
<1>0. tasks \in Seq(Task) /\ Len(tasks) \in Nat /\ closed.now \in Nat /\ closed.all \in Nat
  BY DEF JiraInv
<1>1. tasks' = [tasks EXCEPT ![j].open = FALSE]
  BY DEF CloseTask
<1>2. /\ DOMAIN tasks' = 1 .. Len(tasks)
      /\ \A i \in 1 .. Len(tasks) :
           tasks'[i] = IF i = j THEN [tasks[j] EXCEPT !.open = FALSE] ELSE tasks[i]
  BY <1>0, <1>1
<1>3. \A i \in 1 .. Len(tasks) : tasks'[i] \in Task /\ tasks'[i].subject = tasks[i].subject
  <2>1. \A i \in 1 .. Len(tasks) : tasks[i] \in Task
    BY <1>0
  <2> QED
    BY <1>2, <2>1 DEF Task
<1>4. tasks' \in Seq(Task) /\ Len(tasks') = Len(tasks)
  <2>1. tasks' = [i \in 1 .. Len(tasks) |-> tasks'[i]]
    BY <1>0, <1>1, <1>2
  <2> QED
    BY <1>0, <1>3, <2>1, IsASeq, LenProperties
<1>5. closed' = [now |-> closed.now + 1, all |-> closed.all + 1]
  BY DEF CloseTask
<1>6. closed'.now > 0 /\ closed' \in [now : Nat, all : Nat]
  BY <1>0, <1>5
<1>7. StaysTracked
  <2>1. DOMAIN tasks = 1 .. Len(tasks)
    BY <1>0
  <2> QED
    BY <1>2, <1>3, <1>6, <2>1, TrackedStays, Zenon
<1> QED
  BY <1>0, <1>3, <1>4, <1>6, <1>7 DEF TasksGrow

(* A script that lists every sub-task, or misses only some of other        *)
(* subjects, never adds a second one for a subject.                        *)
LEMMA CreateOnce ==
  ASSUME JiraInv, NEW s \in Subject, NEW n \in 0 .. Len(tasks), NEW a,
         CreateSubTask(s, n, a), UNCHANGED closed, faults' \in Nat,
         \A i \in n + 1 .. Len(tasks) : tasks[i].subject # s
  PROVE  JiraInv'
<1>0. tasks \in Seq(Task) /\ Len(tasks) \in Nat /\ OneTaskPerSubject
  BY DEF JiraInv
<1>1. /\ tasks' \in Seq(Task) /\ Len(tasks') \in Nat
      /\ Len(tasks) <= Len(tasks') /\ Len(tasks') <= Len(tasks) + 1
      /\ \A i \in 1 .. Len(tasks) : tasks'[i].subject = tasks[i].subject
      /\ \A i \in Len(tasks) + 1 .. Len(tasks') : tasks'[i].subject = s /\ Naming(s, n) = {}
  BY CreateFacts DEF TasksGrow
<1>2. Naming(s, n) = {} => \A i \in 1 .. Len(tasks) : tasks[i].subject # s
  <2> SUFFICES ASSUME Naming(s, n) = {}, NEW i \in 1 .. Len(tasks), tasks[i].subject = s
               PROVE  FALSE
    OBVIOUS
  <2>1. i \in 1 .. n
    BY <1>0
  <2>2. <<s, tasks[i].subject>> \in Within
    BY SubTaskAssumption
  <2> QED
    BY <2>1, <2>2 DEF Naming
<1>3. OneTaskPerSubject'
  <2> SUFFICES ASSUME NEW i \in 1 .. Len(tasks'), NEW j \in 1 .. Len(tasks'),
                      tasks'[i].subject = tasks'[j].subject
               PROVE  i = j
    BY <1>1 DEF OneTaskPerSubject
  <2>1. CASE i \in 1 .. Len(tasks) /\ j \in 1 .. Len(tasks)
    BY <1>0, <1>1, <2>1 DEF OneTaskPerSubject
  <2>2. CASE i \notin 1 .. Len(tasks) /\ j \notin 1 .. Len(tasks)
    BY <1>0, <1>1, <2>2
  <2>3. ASSUME NEW k \in 1 .. Len(tasks), NEW m \in 1 .. Len(tasks'), m \notin 1 .. Len(tasks)
        PROVE  tasks'[k].subject # tasks'[m].subject
    <3>1. m \in Len(tasks) + 1 .. Len(tasks')
      BY <1>0, <1>1, <2>3
    <3> QED
      BY <1>1, <1>2, <3>1
  <2> QED
    BY <2>1, <2>2, <2>3
<1> QED
  BY <1>1, <1>3 DEF JiraInv

(* Closing a sub-task keeps the list what it is.                           *)
LEMMA CloseKeeps ==
  ASSUME JiraInv, NEW j \in DOMAIN tasks, CloseTask(j), faults' \in Nat
  PROVE  JiraInv'
<1>1. /\ tasks \in Seq(Task) /\ tasks' \in Seq(Task) /\ Len(tasks') = Len(tasks)
      /\ \A i \in 1 .. Len(tasks) : tasks'[i].subject = tasks[i].subject
      /\ closed' \in [now : Nat, all : Nat]
  BY CloseFacts DEF TasksGrow, JiraInv
<1>2. OneTaskPerSubject'
  <2>1. OneTaskPerSubject /\ DOMAIN tasks = 1 .. Len(tasks) /\ DOMAIN tasks' = 1 .. Len(tasks)
    BY <1>1 DEF JiraInv
  <2> QED
    BY <1>1, <2>1, Zenon DEF OneTaskPerSubject
<1> QED
  BY <1>1, <1>2 DEF JiraInv

(* A call counts its fault.                                                *)
LEMMA CallCounts ==
  ASSUME faults \in Nat, NEW a, Count(a)
  PROVE  faults' \in Nat
BY DEF Count

-----------------------------------------------------------------------------
(* The tracker of low pass rates.                                          *)

SuiteCount == [subject : Subject, passed : Nat, failed : Nat]
LaunchCount == [installed : BOOLEAN, passed : Nat, failed : Nat, destructive : BOOLEAN, suites : Seq(SuiteCount)]

(* The launches whose suites a run looks at, and the suites it tracks.     *)
IsRead(n) == Worth(profiles[n])
LowAt(n, m) ==
  /\ Ran(profiles[n].suites[m])
  /\ Below(profiles[n].suites[m], IF profiles[n].destructive THEN 50 ELSE 90)

(* What a run is past, and what it is to have done at its end.             *)
LowBefore ==
  \A n \in DOMAIN profiles : \A m \in DOMAIN profiles[n].suites :
    n < lnum \/ (n = lnum /\ lpc = "suites" /\ m < snum) =>
      (IsRead(n) /\ LowAt(n, m) => Tracked(profiles[n].suites[m].subject))
LowAll ==
  \A n \in DOMAIN profiles : \A m \in DOMAIN profiles[n].suites :
    IsRead(n) /\ LowAt(n, m) => Tracked(profiles[n].suites[m].subject)

(* The tracker lists the sub-tasks anew for each suite, and only for a     *)
(* suite that is low; what it is past is tracked unless it passed over     *)
(* something.                                                              *)
LowInv ==
  /\ profiles \in Profiles
  /\ lpc \in {"idle", "launch", "suites"}
  /\ lnum \in 1 .. Len(profiles) + 1 /\ snum \in Nat \ {0}
  /\ lwhole \in BOOLEAN /\ ldone \in BOOLEAN
  /\ lseen \in {NotListed, Len(tasks)}
  /\ tool # "profile" => lpc = "idle" /\ ~ldone
  /\ lpc = "suites" => lnum <= Len(profiles) /\ IsRead(lnum)
  /\ lseen # NotListed => lpc = "suites" /\ snum <= Len(Launch.suites) /\ LowAt(lnum, snum)
  /\ lwhole /\ lpc # "idle" => LowBefore
  /\ ldone => lpc = "idle"
  /\ ldone /\ lwhole => LowAll
  /\ tool = "profile" => OnlyLowTracked

(* The launches are sequences of what the assumption says.                 *)
LEMMA LaunchFacts ==
  ASSUME profiles \in Profiles
  PROVE  /\ profiles \in Seq(LaunchCount)
         /\ Len(profiles) \in Nat /\ DOMAIN profiles = 1 .. Len(profiles)
         /\ \A n \in 1 .. Len(profiles) :
              /\ profiles[n].suites \in Seq(SuiteCount)
              /\ Len(profiles[n].suites) \in Nat
              /\ DOMAIN profiles[n].suites = 1 .. Len(profiles[n].suites)
              /\ \A m \in 1 .. Len(profiles[n].suites) : profiles[n].suites[m].subject \in Subject
<1>1. profiles \in Seq(LaunchCount)
  BY ProfileTrackerAssumption DEF LaunchCount, SuiteCount
<1>2. ASSUME NEW n \in 1 .. Len(profiles)
      PROVE  /\ profiles[n].suites \in Seq(SuiteCount)
             /\ \A m \in 1 .. Len(profiles[n].suites) : profiles[n].suites[m].subject \in Subject
  <2>1. profiles[n] \in LaunchCount
    BY <1>1
  <2>2. profiles[n].suites \in Seq(SuiteCount)
    BY <2>1 DEF LaunchCount
  <2>3. \A m \in 1 .. Len(profiles[n].suites) : profiles[n].suites[m] \in SuiteCount
    BY <2>2
  <2> QED
    BY <2>2, <2>3 DEF SuiteCount
<1> QED
  BY <1>1, <1>2

(* A step that gets past only what is not low, or tracks it, keeps the     *)
(* account of what the run is past.                                        *)
LEMMA LowBeforeKept ==
  ASSUME LowInv, StaysTracked, UNCHANGED profiles, LowBefore,
         \A n \in DOMAIN profiles : \A m \in DOMAIN profiles[n].suites :
           /\ n < lnum' \/ (n = lnum' /\ lpc' = "suites" /\ m < snum')
           /\ ~(n < lnum \/ (n = lnum /\ lpc = "suites" /\ m < snum))
           /\ IsRead(n) /\ LowAt(n, m)
           => Tracked(profiles[n].suites[m].subject)'
  PROVE  LowBefore'
<1> SUFFICES ASSUME NEW n \in DOMAIN profiles, NEW m \in DOMAIN profiles[n].suites,
                    n < lnum' \/ (n = lnum' /\ lpc' = "suites" /\ m < snum'),
                    IsRead(n), LowAt(n, m)
             PROVE  Tracked(profiles[n].suites[m].subject)'
  BY DEF LowBefore, IsRead, LowAt
<1>1. profiles[n].suites[m].subject \in Subject
  BY LaunchFacts DEF LowInv
<1>2. CASE n < lnum \/ (n = lnum /\ lpc = "suites" /\ m < snum)
  <2>1. Tracked(profiles[n].suites[m].subject)
    BY <1>2 DEF LowBefore
  <2> QED
    BY <1>1, <2>1 DEF StaysTracked, Tracked
<1> QED
  BY <1>2

(* The listing of the launches begins a run, which is past nothing.        *)
LEMMA GetProwKeeps ==
  ASSUME JiraInv, LowInv, GetProwCaseResult, UNCHANGED tool, tool = "profile"
  PROVE  JiraInv' /\ LowInv' /\ TasksGrow
<1>1. /\ UNCHANGED <<profiles, tasks, tool>> /\ closed' = [closed EXCEPT !.now = 0]
      /\ lpc' \in {"launch", "idle"} /\ lnum' = 1 /\ snum' = 1 /\ lseen' = NotListed
      /\ lwhole' = TRUE /\ ldone' = FALSE /\ faults' \in Nat
  BY CallCounts DEF GetProwCaseResult, JiraInv
<1>2. JiraInv'
  <2>1. closed' \in [now : Nat, all : Nat]
    BY <1>1 DEF JiraInv
  <2>2. OneTaskPerSubject'
    BY <1>1 DEF JiraInv, OneTaskPerSubject
  <2> QED
    BY <1>1, <2>1, <2>2 DEF JiraInv
<1>3. Len(profiles) \in Nat /\ DOMAIN profiles = 1 .. Len(profiles)
  BY LaunchFacts DEF LowInv
<1>4. LowBefore'
  BY <1>1, <1>3 DEF LowBefore
<1>5. OnlyLowTracked'
  <2>1. OnlyLowTracked
    BY DEF LowInv
  <2> QED
    BY <1>1, <2>1 DEF OnlyLowTracked, Ran, AtMost, Below
<1>6. TasksGrow
  BY <1>1 DEF JiraInv, TasksGrow
<1>7. profiles' \in Profiles /\ lnum' \in 1 .. Len(profiles') + 1
  BY <1>1, <1>3 DEF LowInv
<1>9. ~ldone' /\ ldone' \in BOOLEAN /\ lwhole' \in BOOLEAN
  BY <1>1, Zenon
<1>8. /\ snum' \in Nat \ {0}
      /\ lpc' \in {"idle", "launch", "suites"} /\ lpc' # "suites"
      /\ lseen' = NotListed /\ tool' = "profile"
  BY <1>1
<1> HIDE DEF NotListed
<1> QED
  BY <1>2, <1>4, <1>5, <1>6, <1>7, <1>8, <1>9 DEF LowInv

(* A step that leaves Jira alone leaves what was said about it.            *)
LEMMA JiraAlone ==
  ASSUME JiraInv, UNCHANGED jira, faults' \in Nat
  PROVE  JiraInv' /\ TasksGrow /\ StaysTracked
<1>1. /\ tasks \in Seq(Task) /\ Len(tasks) \in Nat
      /\ tasks' = tasks /\ closed' = closed
  BY DEF JiraInv, jira
<1>2. JiraInv'
  BY <1>1 DEF JiraInv, OneTaskPerSubject
<1> QED
  BY <1>1, <1>2 DEF TasksGrow, StaysTracked, Tracked

(* The sub-tasks of a step that leaves the launches and Jira alone are     *)
(* those of suites that are low, as before.                                *)
LEMMA OnlyLowKept ==
  ASSUME LowInv, tool = "profile", UNCHANGED <<profiles, tool, tasks>>
  PROVE  OnlyLowTracked'
<1>1. OnlyLowTracked
  BY DEF LowInv
<1> QED
  BY <1>1 DEF OnlyLowTracked, Ran, AtMost, Below

(* The run ends with all launches behind it.                               *)
LEMMA LaunchesDoneKeeps ==
  ASSUME JiraInv, LowInv, LaunchesDone, UNCHANGED tool, tool = "profile"
  PROVE  JiraInv' /\ LowInv' /\ TasksGrow
<1>1. /\ lpc = "launch" /\ lnum > Len(profiles)
      /\ lpc' = "idle" /\ ldone' = TRUE
      /\ UNCHANGED <<profiles, lnum, snum, lseen, lwhole, jira, faults, tool>>
  BY DEF LaunchesDone
<1>2. JiraInv' /\ TasksGrow
  BY <1>1, JiraAlone DEF JiraInv
<1>3. Len(profiles) \in Nat /\ DOMAIN profiles = 1 .. Len(profiles) /\ lnum \in Nat
  BY LaunchFacts DEF LowInv
<1>4. lwhole => LowAll
  BY <1>1, <1>3 DEF LowAll, LowBefore, LowInv
<1>5. lwhole' => LowAll'
  BY <1>1, <1>4 DEF LowAll, IsRead, LowAt, Tracked, jira
<1>6. OnlyLowTracked'
  BY <1>1, OnlyLowKept DEF jira
<1>7. lseen = NotListed
  BY <1>1 DEF LowInv
<1> QED
  BY <1>1, <1>2, <1>5, <1>6, <1>7 DEF LowInv

(* A launch that is passed over has no suite the run is to track.          *)
LEMMA SkipLaunchKeeps ==
  ASSUME JiraInv, LowInv, SkipLaunch, UNCHANGED tool, tool = "profile"
  PROVE  JiraInv' /\ LowInv' /\ TasksGrow
<1>1. /\ lpc = "launch" /\ lnum <= Len(profiles) /\ ~IsRead(lnum) /\ lnum' = lnum + 1
      /\ UNCHANGED <<profiles, lpc, snum, lseen, lwhole, ldone, jira, faults, tool>>
  BY DEF SkipLaunch, IsRead, Launch
<1>2. JiraInv' /\ TasksGrow /\ StaysTracked
  BY <1>1, JiraAlone DEF JiraInv
<1>3. Len(profiles) \in Nat /\ DOMAIN profiles = 1 .. Len(profiles) /\ lnum \in Nat
  BY LaunchFacts DEF LowInv
<1>4. ASSUME LowBefore
      PROVE  LowBefore'
  <2>1. \A n \in DOMAIN profiles : n < lnum' => n < lnum \/ n = lnum
    BY <1>1, <1>3
  <2> QED
    BY <1>1, <1>2, <1>4, <2>1, LowBeforeKept
<1>5. OnlyLowTracked'
  BY <1>1, OnlyLowKept DEF jira
<1>6. lseen = NotListed /\ ~ldone
  BY <1>1 DEF LowInv
<1>7. lnum' \in 1 .. Len(profiles) + 1
  BY <1>1, <1>3 DEF LowInv
<1> QED
  BY <1>1, <1>2, <1>4, <1>5, <1>6, <1>7 DEF LowInv

(* A launch whose suites cannot be read is passed over, and the run says   *)
(* so.                                                                     *)
LEMMA ReadSuitesKeeps ==
  ASSUME JiraInv, LowInv, ReadSuites, UNCHANGED tool, tool = "profile"
  PROVE  JiraInv' /\ LowInv' /\ TasksGrow
<1>1. /\ lpc = "launch" /\ lnum <= Len(profiles) /\ IsRead(lnum)
      /\ UNCHANGED <<profiles, lseen, ldone, jira, tool>>
      /\ \/ lnum' = lnum + 1 /\ lwhole' = FALSE /\ UNCHANGED <<lpc, snum>>
         \/ lpc' = "idle" /\ UNCHANGED <<lnum, snum, lwhole>>
         \/ lpc' = "suites" /\ snum' = 1 /\ UNCHANGED <<lnum, lwhole>>
  BY DEF ReadSuites, IsRead, Launch
<1>2. faults' \in Nat
  BY CallCounts DEF ReadSuites, JiraInv
<1>3. JiraInv' /\ TasksGrow /\ StaysTracked
  BY <1>1, <1>2, JiraAlone
<1>4. /\ Len(profiles) \in Nat /\ DOMAIN profiles = 1 .. Len(profiles) /\ lnum \in Nat
      /\ \A n \in DOMAIN profiles : DOMAIN profiles[n].suites = 1 .. Len(profiles[n].suites)
  BY LaunchFacts DEF LowInv
<1>5. OnlyLowTracked'
  BY <1>1, OnlyLowKept DEF jira
<1>6. lseen = NotListed /\ ~ldone /\ (lwhole => LowBefore)
  BY <1>1 DEF LowInv
<1>7. CASE lnum' = lnum + 1 /\ lwhole' = FALSE /\ UNCHANGED <<lpc, snum>>
  <2>1. lnum' \in 1 .. Len(profiles) + 1
    BY <1>1, <1>4, <1>7
  <2> QED
    BY <1>1, <1>3, <1>5, <1>6, <1>7, <2>1 DEF LowInv
<1>8. CASE lpc' = "idle" /\ UNCHANGED <<lnum, snum, lwhole>>
  BY <1>1, <1>3, <1>5, <1>6, <1>8 DEF LowInv
<1>9. CASE lpc' = "suites" /\ snum' = 1 /\ UNCHANGED <<lnum, lwhole>>
  <2>1. \A n \in DOMAIN profiles : \A m \in DOMAIN profiles[n].suites : ~(m < 1)
    BY <1>4, LaunchFacts DEF LowInv
  <2>2. LowBefore => LowBefore'
    BY <1>1, <1>3, <1>9, <2>1, LowBeforeKept
  <2>3. IsRead(lnum)'
    BY <1>1, <1>9 DEF IsRead
  <2> QED
    BY <1>1, <1>3, <1>5, <1>6, <1>9, <2>2, <2>3 DEF LowInv
<1> QED
  BY <1>1, <1>7, <1>8, <1>9

(* A suite that is not low is left behind.                                 *)
LEMMA NextSuiteKeeps ==
  ASSUME JiraInv, LowInv, NextSuite, UNCHANGED tool, tool = "profile"
  PROVE  JiraInv' /\ LowInv' /\ TasksGrow
<1>1. /\ lpc = "suites" /\ lseen = NotListed /\ ~LowAt(lnum, snum) /\ snum' = snum + 1
      /\ UNCHANGED <<profiles, lpc, lnum, lseen, lwhole, ldone, jira, faults, tool>>
  BY DEF NextSuite, LowSuite, LowAt, TheSuite, Launch
<1>2. JiraInv' /\ TasksGrow /\ StaysTracked
  BY <1>1, JiraAlone DEF JiraInv
<1>3. /\ snum \in Nat \ {0} /\ snum' \in Nat \ {0}
      /\ \A n \in DOMAIN profiles : DOMAIN profiles[n].suites = 1 .. Len(profiles[n].suites)
  BY <1>1, LaunchFacts DEF LowInv
<1>4. \A n \in DOMAIN profiles : \A m \in DOMAIN profiles[n].suites :
        m < snum' => m < snum \/ m = snum
  BY <1>1, <1>3, LaunchFacts DEF LowInv
<1>5. LowBefore => LowBefore'
  BY <1>1, <1>2, <1>4, LowBeforeKept
<1>6. OnlyLowTracked'
  BY <1>1, OnlyLowKept DEF jira
<1>7. ~ldone /\ lnum <= Len(profiles) /\ IsRead(lnum) /\ IsRead(lnum)'
  BY <1>1 DEF LowInv, IsRead
<1> QED
  BY <1>1, <1>2, <1>3, <1>5, <1>6, <1>7 DEF LowInv

(* A launch is left behind with all its suites.                            *)
LEMMA SuitesDoneKeeps ==
  ASSUME JiraInv, LowInv, SuitesDone, UNCHANGED tool, tool = "profile"
  PROVE  JiraInv' /\ LowInv' /\ TasksGrow
<1>1. /\ lpc = "suites" /\ snum > Len(Launch.suites) /\ lpc' = "launch" /\ lnum' = lnum + 1
      /\ UNCHANGED <<profiles, snum, lseen, lwhole, ldone, jira, faults, tool>>
  BY DEF SuitesDone
<1>2. JiraInv' /\ TasksGrow /\ StaysTracked
  BY <1>1, JiraAlone DEF JiraInv
<1>3. /\ lnum \in 1 .. Len(profiles) /\ Len(profiles) \in Nat /\ DOMAIN profiles = 1 .. Len(profiles)
      /\ snum \in Nat
      /\ \A n \in DOMAIN profiles : /\ DOMAIN profiles[n].suites = 1 .. Len(profiles[n].suites)
                                    /\ Len(profiles[n].suites) \in Nat
  BY <1>1, LaunchFacts DEF LowInv
<1>4. \A n \in DOMAIN profiles : n < lnum' => n < lnum \/ n = lnum
  BY <1>1, <1>3
<1>5. \A m \in DOMAIN profiles[lnum].suites : m < snum
  BY <1>1, <1>3 DEF Launch
<1>6. LowBefore => LowBefore'
  BY <1>1, <1>2, <1>4, <1>5, LowBeforeKept
<1>7. OnlyLowTracked'
  BY <1>1, OnlyLowKept DEF jira
<1>8. ~ldone /\ lseen = NotListed /\ lnum' \in 1 .. Len(profiles) + 1
  <2>1. lseen # NotListed => snum <= Len(Launch.suites)
    BY DEF LowInv
  <2>2. Len(Launch.suites) \in Nat
    BY <1>3 DEF Launch
  <2>3. lseen = NotListed
    BY <1>1, <1>3, <2>1, <2>2
  <2> QED
    BY <1>1, <1>3, <2>3 DEF LowInv
<1> QED
  BY <1>1, <1>2, <1>6, <1>7, <1>8 DEF LowInv

(* The sub-tasks are listed for a suite that is low.                       *)
LEMMA ListTasksKeeps ==
  ASSUME JiraInv, LowInv, ListTasks, UNCHANGED tool, tool = "profile"
  PROVE  JiraInv' /\ LowInv' /\ TasksGrow
<1>1. /\ lpc = "suites" /\ snum <= Len(Launch.suites) /\ LowAt(lnum, snum) /\ lseen' = Len(tasks)
      /\ UNCHANGED <<profiles, lpc, lnum, snum, lwhole, ldone, jira, faults, tool>>
  BY DEF ListTasks, LowSuite, LowAt, TheSuite, Launch, NTasks
<1>2. JiraInv' /\ TasksGrow /\ StaysTracked
  BY <1>1, JiraAlone DEF JiraInv
<1>3. LowBefore => LowBefore'
  BY <1>1, <1>2, LowBeforeKept
<1>4. OnlyLowTracked'
  BY <1>1, OnlyLowKept DEF jira
<1>5. LowAt(lnum, snum)' /\ snum' <= Len(Launch.suites)'
  BY <1>1 DEF LowAt, Launch
<1>6. ~ldone /\ lnum <= Len(profiles) /\ IsRead(lnum) /\ IsRead(lnum)' /\ tasks' = tasks
  BY <1>1 DEF LowInv, IsRead, jira
<1> QED
  BY <1>1, <1>2, <1>3, <1>4, <1>5, <1>6 DEF LowInv

(* A suite that is low gets its sub-task, or the run says it did not.      *)
LEMMA TrackSuiteKeeps ==
  ASSUME JiraInv, LowInv, TrackSuite, UNCHANGED tool, tool = "profile"
  PROVE  JiraInv' /\ LowInv' /\ TasksGrow
<1>1. PICK a \in Answer : /\ Count(a) /\ CreateSubTask(TheSuite.subject, lseen, a)
                          /\ lpc' = AfterTrack(a)
                          /\ lnum' = IF lpc' = "launch" THEN lnum + 1 ELSE lnum
                          /\ lwhole' = (lwhole /\ a = "ok")
  BY DEF TrackSuite
<1>2. /\ lpc = "suites" /\ lseen # NotListed /\ snum' = snum + 1 /\ lseen' = NotListed
      /\ UNCHANGED <<profiles, ldone, closed, tool>>
  BY DEF TrackSuite, LowInv
<1>3. /\ lnum \in 1 .. Len(profiles) /\ Len(profiles) \in Nat /\ DOMAIN profiles = 1 .. Len(profiles)
      /\ snum \in DOMAIN Launch.suites /\ Launch.suites = profiles[lnum].suites /\ snum \in Nat \ {0}
      /\ \A n \in DOMAIN profiles : /\ DOMAIN profiles[n].suites = 1 .. Len(profiles[n].suites)
                                    /\ Len(profiles[n].suites) \in Nat
      /\ TheSuite.subject \in Subject /\ TheSuite.subject = profiles[lnum].suites[snum].subject
  <2>1. lnum \in 1 .. Len(profiles) /\ Len(profiles) \in Nat /\ snum \in Nat \ {0}
    BY <1>2, LaunchFacts DEF LowInv
  <2>2. Launch = profiles[lnum] /\ TheSuite = profiles[lnum].suites[snum]
    BY DEF TheSuite, Launch
  <2>3. snum <= Len(Launch.suites)
    BY <1>2 DEF LowInv
  <2> QED
    BY <2>1, <2>2, <2>3, LaunchFacts DEF LowInv
<1>4. LowAt(lnum, snum) /\ IsRead(lnum) /\ ~ldone /\ lseen = Len(tasks) /\ lseen \in 0 .. Len(tasks)
  <2>1. Len(tasks) \in Nat
    BY DEF JiraInv
  <2> QED
    BY <1>2, <2>1 DEF LowInv
<1>11. PICK subject \in Subject : subject = TheSuite.subject
  BY <1>3
<1>12. subject = profiles[lnum].suites[snum].subject /\ CreateSubTask(subject, lseen, a)
  BY <1>1, <1>3, <1>11
<1>5. /\ TasksGrow /\ StaysTracked /\ (a # "error" => Tracked(subject)')
      /\ \A i \in Len(tasks) + 1 .. Len(tasks') : tasks'[i].subject = subject
  BY <1>12, <1>2, <1>4, CreateFacts
<1>6. JiraInv'
  <2>1. faults' \in Nat
    BY <1>1, CallCounts DEF JiraInv
  <2>2. \A i \in lseen + 1 .. Len(tasks) : tasks[i].subject # subject
    <3>1. Len(tasks) \in Nat
      BY DEF JiraInv
    <3> QED
      BY <1>4, <3>1
  <2> QED
    BY <1>12, <1>2, <1>4, <2>1, <2>2, CreateOnce
<1>7. ASSUME lwhole', LowBefore
      PROVE  LowBefore'
  <2>1. a = "ok" /\ lpc' = "suites" /\ lnum' = lnum
    BY <1>1, <1>7 DEF AfterTrack
  <2>2. \A n, m : n = lnum /\ m = snum => Tracked(profiles[n].suites[m].subject)'
    <3> SUFFICES ASSUME NEW n, NEW m, n = lnum, m = snum
                 PROVE  Tracked(profiles[n].suites[m].subject)'
      OBVIOUS
    <3>1. Tracked(subject)'
      BY <1>5, <2>1
    <3>2. subject = profiles[n].suites[m].subject'
      BY <1>2, <1>12
    <3> QED
      BY <3>1, <3>2 DEF Tracked
  <2>3. \A n \in DOMAIN profiles : \A m \in DOMAIN profiles[n].suites :
          m < snum' => m < snum \/ m = snum
    BY <1>2, <1>3
  <2> QED
    BY <1>2, <1>5, <1>7, <2>1, <2>2, <2>3, LowBeforeKept
<1>8. OnlyLowTracked'
  <2>1. OnlyLowTracked
    BY DEF LowInv
  <2>2. \A i \in DOMAIN tasks' : i \in DOMAIN tasks \/ i \in Len(tasks) + 1 .. Len(tasks')
    BY <1>5 DEF JiraInv, TasksGrow
  <2>3. \A i \in DOMAIN tasks : tasks'[i].subject = tasks[i].subject
    BY <1>5 DEF JiraInv, TasksGrow
  <2>4. lnum \in DOMAIN profiles /\ snum \in DOMAIN profiles[lnum].suites
    BY <1>3
  <2>5. \A i \in DOMAIN tasks' : \E n \in DOMAIN profiles : \E m \in DOMAIN profiles[n].suites :
          profiles[n].suites[m].subject = tasks'[i].subject /\ IsRead(n) /\ LowAt(n, m)
    <3> SUFFICES ASSUME NEW i \in DOMAIN tasks'
                 PROVE  \E n \in DOMAIN profiles : \E m \in DOMAIN profiles[n].suites :
                          profiles[n].suites[m].subject = tasks'[i].subject /\ IsRead(n) /\ LowAt(n, m)
      OBVIOUS
    <3>1. CASE i \in DOMAIN tasks
      BY <2>1, <2>3, <3>1, Zenon DEF OnlyLowTracked, IsRead, Worth, LowAt
    <3>2. CASE i \in Len(tasks) + 1 .. Len(tasks')
      BY <1>4, <1>5, <1>12, <2>4, <3>2, Zenon
    <3> QED
      BY <2>2, <3>1, <3>2
  <2> QED
    <3>1. profiles' = profiles
      BY <1>2
    <3> QED
      BY <2>5, <3>1 DEF OnlyLowTracked, LowAt, IsRead, Worth, Ran, AtMost, Below
<1>9. /\ lpc' \in {"launch", "suites"} /\ lnum' \in 1 .. Len(profiles) + 1 /\ snum' \in Nat \ {0}
      /\ lwhole' \in BOOLEAN /\ (lwhole' => lwhole) /\ (lpc' = "suites" => lnum' = lnum)
  BY <1>1, <1>2, <1>3 DEF AfterTrack, LowInv
<1>10. lpc' = "suites" => lnum' <= Len(profiles) /\ IsRead(lnum)'
  BY <1>2, <1>3, <1>4, <1>9 DEF IsRead
<1> QED
  BY <1>2, <1>4, <1>5, <1>6, <1>7, <1>8, <1>9, <1>10 DEF LowInv

(* A run that dies is past nothing any more, and claims nothing.           *)
LEMMA LowDiesKeeps ==
  ASSUME JiraInv, LowInv, LowDies, UNCHANGED tool, tool = "profile"
  PROVE  JiraInv' /\ LowInv' /\ TasksGrow
<1>1. /\ lpc # "idle" /\ lpc' = "idle" /\ lseen' = NotListed
      /\ UNCHANGED <<profiles, lnum, snum, lwhole, ldone, jira, tool>>
  BY DEF LowDies
<1>2. faults' \in Nat
  BY DEF LowDies, Die, JiraInv
<1>3. JiraInv' /\ TasksGrow
  BY <1>1, <1>2, JiraAlone
<1>4. OnlyLowTracked'
  BY <1>1, OnlyLowKept DEF jira
<1>5. ~ldone
  BY <1>1 DEF LowInv
<1> QED
  BY <1>1, <1>3, <1>4, <1>5 DEF LowInv

(* What was tracked counts as tracked when people close it.                *)
LEMMA LowClosesKeeps ==
  ASSUME JiraInv, LowInv, LowCloses, UNCHANGED tool, tool = "profile"
  PROVE  JiraInv' /\ LowInv' /\ TasksGrow
<1>1. PICK j \in DOMAIN tasks : CloseTask(j)
  BY DEF LowCloses
<1>2. UNCHANGED <<profiles, lpc, lnum, snum, lseen, lwhole, ldone, faults, tool>>
  BY DEF LowCloses
<1>3. TasksGrow /\ StaysTracked /\ Len(tasks') = Len(tasks)
  BY <1>1, CloseFacts
<1>4. JiraInv'
  BY <1>1, <1>2, CloseKeeps DEF JiraInv
<1>5. LowBefore => LowBefore'
  BY <1>2, <1>3, LowBeforeKept
<1>6. LowAll => LowAll'
  <2> SUFFICES ASSUME LowAll, NEW n \in DOMAIN profiles, NEW m \in DOMAIN profiles[n].suites,
                      IsRead(n), LowAt(n, m)
               PROVE  Tracked(profiles[n].suites[m].subject)'
    BY <1>2 DEF LowAll, IsRead, LowAt
  <2>1. PICK s \in Subject : s = profiles[n].suites[m].subject
    BY LaunchFacts DEF LowInv
  <2>2. Tracked(s)'
    BY <1>3, <2>1 DEF LowAll, StaysTracked
  <2>3. s = profiles[n].suites[m].subject'
    BY <1>2, <2>1
  <2> QED
    BY <2>2, <2>3 DEF Tracked
<1>7. OnlyLowTracked'
  <2>1. OnlyLowTracked
    BY DEF LowInv
  <2>2. \A i \in DOMAIN tasks' : i \in DOMAIN tasks /\ tasks'[i].subject = tasks[i].subject
    BY <1>3 DEF JiraInv, TasksGrow
  <2> QED
    BY <1>2, <2>1, <2>2 DEF OnlyLowTracked, Ran, AtMost, Below
<1>8. (lpc = "suites" => IsRead(lnum)') /\ (LowAt(lnum, snum) => LowAt(lnum, snum)')
      /\ Launch' = Launch
  BY <1>2 DEF LowInv, IsRead, LowAt, Launch
<1> QED
  BY <1>2, <1>3, <1>4, <1>5, <1>6, <1>7, <1>8 DEF LowInv

(* Every step of the tracker of low pass rates keeps its account.          *)
LEMMA LowKeeps ==
  ASSUME JiraInv, LowInv, Profile(LowNext)
  PROVE  JiraInv' /\ LowInv' /\ TasksGrow
<1>1. tool = "profile" /\ UNCHANGED tool /\ LowNext
  BY DEF Profile
<1> QED
  BY <1>1, GetProwKeeps, LaunchesDoneKeeps, SkipLaunchKeeps, ReadSuitesKeeps, NextSuiteKeeps,
     SuitesDoneKeeps, ListTasksKeeps, TrackSuiteKeeps, LowDiesKeeps, LowClosesKeeps
     DEF LowNext, LowStep

-----------------------------------------------------------------------------
(* The sheet of builds.                                                    *)

SheetRow == [build : Build, case : BuildCase, link : {0} \cup Build]
Row(b, k) == [build |-> b, case |-> BuildCases[b][k], link |-> b]
Written(b, k) == \E n \in DOMAIN gsheet : gsheet[n] = Row(b, k)

(* How far the script is with the build at hand.                           *)
Past == Len(BuildCases[build]) - Len(gtodo)

(* The cases still to be written are the last ones of the build, those     *)
(* before them are in the sheet, but for the link of the newest row; and   *)
(* the process has met a case of the build as soon as it is past one.      *)
BuildProgress ==
  /\ Len(gtodo) <= Len(BuildCases[build])
  /\ \A k \in 1 .. Len(gtodo) : gtodo[k] = BuildCases[build][Past + k]
  /\ \A k \in 1 .. Past :
       \/ Written(build, k)
       \/ gpc = "link" /\ k = Past /\ gsheet[1].case = BuildCases[build][k]
  /\ Past > 0 => dated

(* Nothing excuses a missing row of the build at hand.                     *)
Clean == build \notin Unnamed /\ excuse[build] = "none"

SheetInv ==
  /\ endNum \in {Erased, 0} \cup Build
  /\ gpc \in {"stopped", "build", "insert", "link", "save"}
  /\ build \in {0} \cup Build
  /\ gtodo \in Seq(BuildCase)
  /\ gsheet \in Seq(SheetRow)
  /\ dated \in BOOLEAN /\ excuse \in [Build -> {"none", "running", "failed"}]
  /\ finished \in 0 .. Len(BuildCases)
  /\ faults = 0 => \A b \in Build : excuse[b] # "failed"
  /\ gpc \in {"build", "insert", "link"} => endNum # Erased
  /\ gpc \in {"insert", "link", "save"} => build \in Build /\ (Clean => BuildProgress)
  /\ gpc \in {"insert", "link"} => build = endNum + 1
  /\ gpc = "save" => gtodo = <<>> /\ endNum = Erased
  /\ gpc = "link" => gsheet # <<>> /\ gsheet[1].build = build
  /\ LinkedToOwnBuild
  /\ SavedBuildWritten
  /\ LostOnlyOverNothing


(* The builds are sequences of what the assumption says.                   *)
LEMMA BuildFacts ==
  /\ Build = 1 .. Len(BuildCases) /\ Len(BuildCases) \in Nat
  /\ \A b \in Build : /\ BuildCases[b] \in Seq(BuildCase) /\ Len(BuildCases[b]) \in Nat
                      /\ DOMAIN BuildCases[b] = 1 .. Len(BuildCases[b])
                      /\ \A k \in 1 .. Len(BuildCases[b]) : BuildCases[b][k] \in BuildCase
<1>1. BuildCases \in Seq(Seq(BuildCase))
  BY BuildAssumption
<1>2. \A b \in Build : BuildCases[b] \in Seq(BuildCase)
  BY <1>1 DEF Build
<1> QED
  BY <1>1, <1>2 DEF Build

(* A step that leaves the sheet alone, saves no build and excuses none     *)
(* that is saved keeps what is said of the builds that are saved.          *)
LEMMA SavedKept ==
  ASSUME LinkedToOwnBuild, SavedBuildWritten, UNCHANGED gsheet,
         \A b \in SavedBuild' : b \in SavedBuild /\ excuse'[b] = excuse[b]
  PROVE  LinkedToOwnBuild' /\ SavedBuildWritten'
BY DEF LinkedToOwnBuild, SavedBuildWritten

(* A call without a fault was answered.                                    *)
LEMMA NoFault ==
  ASSUME faults \in Nat, NEW a, Count(a), faults' = 0
  PROVE  a = "ok" /\ faults = 0
BY DEF Count

(* Excusing the build at hand excuses no other.                            *)
LEMMA Blamed ==
  ASSUME NEW a \in Answer, SheetInv, build \in Build, Blame(a)
  PROVE  /\ excuse' \in [Build -> {"none", "running", "failed"}]
         /\ \A b \in Build \ {build} : excuse'[b] = excuse[b]
         /\ a = "ok" => excuse' = excuse
         /\ a # "ok" => excuse'[build] = "failed"
BY DEF Blame, SheetInv

(* While rows are written nothing that is saved is at hand.                *)
LEMMA NotSaved ==
  ASSUME SheetInv, gpc \in {"insert", "link"}, UNCHANGED <<endNum, build>>
  PROVE  /\ SavedBuild' = SavedBuild /\ build \notin SavedBuild
         /\ \A b \in SavedBuild : b \in Build \ {build}
BY BuildFacts DEF SheetInv, SavedBuild, Erased

(* The script starts, for the first build of a process.                    *)
LEMMA StartKeeps ==
  ASSUME SheetInv, StartScript
  PROVE  SheetInv'
<1>1. /\ gpc = "stopped" /\ endNum # Erased /\ gpc' = "build" /\ dated' = FALSE
      /\ UNCHANGED <<endNum, build, gtodo, gsheet, excuse, faults, finished>>
  BY DEF StartScript
<1>2. dated' \in BOOLEAN
  BY <1>1, Zenon
<1>3. SavedBuild' = SavedBuild
  BY <1>1 DEF SavedBuild
<1> QED
  BY <1>1, <1>2, <1>3, SavedKept DEF SheetInv, LostOnlyOverNothing

(* A build that is begun is not one that is saved.                         *)
LEMMA Begun ==
  ASSUME SheetInv, gpc = "build", build' = endNum + 1, UNCHANGED endNum
  PROVE  \A b \in SavedBuild' : b \in SavedBuild /\ b # build'
<1>1. endNum \in Nat /\ build' \in Nat
  BY BuildFacts DEF SheetInv, Erased
<1>2. \A b \in SavedBuild' : b \in Build /\ b \in Nat /\ b <= endNum
  BY <1>1, BuildFacts DEF SavedBuild
<1> QED
  BY <1>1, <1>2 DEF SavedBuild

(* A build that is begun has all its cases before it.                      *)
LEMMA ReadBuildKeeps ==
  ASSUME SheetInv, ReadBuild, faults \in Nat
  PROVE  SheetInv'
<1>1. /\ gpc = "build" /\ endNum < finished
      /\ build' = endNum + 1 /\ excuse' = [excuse EXCEPT ![build'] = "none"]
      /\ gtodo' = IF build' \in Unnamed THEN <<>> ELSE BuildCases[build']
      /\ gpc' \in {"insert", "stopped"}
      /\ UNCHANGED <<endNum, gsheet, dated, finished>>
  BY DEF ReadBuild
<1>2. build' \in Build /\ endNum \in Nat
  BY <1>1, BuildFacts DEF SheetInv, Erased
<1>3. gtodo' \in Seq(BuildCase) /\ BuildCases[build'] \in Seq(BuildCase) /\ Len(BuildCases[build']) \in Nat
  BY <1>1, <1>2, BuildFacts
<1>4. ASSUME Clean'
      PROVE  BuildProgress'
  <2>1. gtodo' = BuildCases[build']
    BY <1>1, <1>4 DEF Clean
  <2>2. Past' = 0
    BY <1>3, <2>1 DEF Past
  <2>3. Len(gtodo') = Len(BuildCases[build']) /\ \A k \in 1 .. Len(gtodo') : 0 + k = k
    BY <1>3, <2>1
  <2> QED
    BY <1>3, <2>1, <2>2, <2>3 DEF BuildProgress
<1>5. excuse' \in [Build -> {"none", "running", "failed"}] /\ \A b \in Build \ {build'} : excuse'[b] = excuse[b]
  BY <1>1, <1>2 DEF SheetInv
<1>6. faults' = 0 => \A b \in Build : excuse'[b] # "failed"
  <2>1. faults' = 0 => faults = 0
    BY NoFault DEF ReadBuild
  <2>2. excuse'[build'] = "none"
    BY <1>1, <1>2 DEF SheetInv
  <2> QED
    BY <1>5, <2>1, <2>2 DEF SheetInv
<1>7. \A b \in SavedBuild' : b \in SavedBuild /\ excuse'[b] = excuse[b]
  BY <1>1, <1>5, Begun DEF SavedBuild
<1> QED
  BY <1>1, <1>2, <1>3, <1>4, <1>5, <1>6, <1>7, SavedKept DEF SheetInv, LostOnlyOverNothing

(* There is nothing to read.                                               *)
LEMMA NoBuildKeeps ==
  ASSUME SheetInv, NoBuild
  PROVE  SheetInv'
<1>1. /\ gpc = "build" /\ gpc' = "stopped"
      /\ UNCHANGED <<endNum, build, gtodo, gsheet, dated, excuse, finished, faults>>
  BY DEF NoBuild
<1>2. SavedBuild' = SavedBuild
  BY <1>1 DEF SavedBuild
<1> QED
  BY <1>1, <1>2, SavedKept DEF SheetInv, LostOnlyOverNothing

(* A build that is passed over is excused.                                 *)
LEMMA PassOverKeeps ==
  ASSUME SheetInv, PassOverRunning
  PROVE  SheetInv'
<1>1. /\ gpc = "build" /\ endNum < Len(BuildCases)
      /\ build' = endNum + 1 /\ gtodo' = <<>> /\ gpc' = "insert"
      /\ excuse' = [excuse EXCEPT ![build'] = "running"]
      /\ UNCHANGED <<endNum, gsheet, dated, finished, faults>>
  BY DEF PassOverRunning
<1>2. build' \in Build
  BY <1>1, BuildFacts DEF SheetInv, Erased
<1>3. /\ excuse' \in [Build -> {"none", "running", "failed"}]
      /\ \A b \in Build \ {build'} : excuse'[b] = excuse[b]
      /\ excuse'[build'] = "running"
  BY <1>1, <1>2 DEF SheetInv
<1>4. gtodo' \in Seq(BuildCase) /\ ~Clean'
  BY <1>1, <1>3 DEF Clean
<1>5. faults' = 0 => \A b \in Build : excuse'[b] # "failed"
  BY <1>1, <1>3 DEF SheetInv
<1>6. \A b \in SavedBuild' : b \in SavedBuild /\ excuse'[b] = excuse[b]
  BY <1>1, <1>3, Begun DEF SavedBuild
<1> QED
  BY <1>1, <1>2, <1>3, <1>4, <1>5, <1>6, SavedKept DEF SheetInv, LostOnlyOverNothing

(* So is one whose results cannot be read.                                 *)
LEMMA ResultsFailKeeps ==
  ASSUME SheetInv, ResultsFail, faults \in Nat
  PROVE  SheetInv'
<1>1. /\ gpc = "insert" /\ gtodo' = <<>> /\ excuse' = [excuse EXCEPT ![build] = "failed"] /\ faults' # 0
      /\ build \in Build /\ UNCHANGED <<endNum, gpc, build, gsheet, dated, finished>>
  BY DEF ResultsFail, Blame, Die, SheetInv
<1>2. /\ excuse' \in [Build -> {"none", "running", "failed"}]
      /\ \A b \in Build \ {build} : excuse'[b] = excuse[b]
      /\ excuse'[build] = "failed"
  BY <1>1 DEF SheetInv
<1>3. gtodo' \in Seq(BuildCase) /\ ~Clean'
  BY <1>1, <1>2 DEF Clean
<1>4. \A b \in SavedBuild' : b \in SavedBuild /\ excuse'[b] = excuse[b]
  BY <1>1, <1>2, NotSaved
<1> QED
  BY <1>1, <1>2, <1>3, <1>4, SavedKept DEF SheetInv, LostOnlyOverNothing

(* The file is emptied with the whole build in the sheet.                  *)
LEMMA OpenConfigKeeps ==
  ASSUME SheetInv, OpenConfig
  PROVE  SheetInv'
<1>1. /\ gpc = "insert" /\ gtodo = <<>> /\ gpc' = "save" /\ endNum' = Erased
      /\ UNCHANGED <<build, gtodo, gsheet, dated, excuse, faults, finished>>
  BY DEF OpenConfig
<1>2. BuildProgress => BuildProgress'
  BY <1>1 DEF BuildProgress, Past, Written
<1>3. Clean' = Clean
  BY <1>1 DEF Clean
<1>4. \A b \in SavedBuild' : b \in SavedBuild /\ excuse'[b] = excuse[b]
  BY <1>1, BuildFacts DEF SavedBuild, Erased
<1> QED
  BY <1>1, <1>2, <1>3, <1>4, SavedKept DEF SheetInv, LostOnlyOverNothing

(* A process that dies leaves the file as it is, and is a fault.           *)
LEMMA ScriptDiesKeeps ==
  ASSUME SheetInv, ScriptDies, faults \in Nat
  PROVE  SheetInv'
<1>1. /\ gpc' = "stopped" /\ faults' # 0
      /\ UNCHANGED <<endNum, build, gtodo, gsheet, dated, excuse, finished>>
  BY DEF ScriptDies, Die
<1>2. SavedBuild' = SavedBuild
  BY <1>1 DEF SavedBuild
<1> QED
  BY <1>1, <1>2, SavedKept DEF SheetInv, LostOnlyOverNothing

(* Jenkins finishes a build.                                               *)
LEMMA FinishKeeps ==
  ASSUME SheetInv, BuildFinishes
  PROVE  SheetInv'
<1>1. /\ finished < Len(BuildCases) /\ finished' = finished + 1
      /\ UNCHANGED <<endNum, gpc, build, gtodo, gsheet, dated, excuse, faults>>
  BY DEF BuildFinishes
<1>2. finished' \in 0 .. Len(BuildCases)
  BY <1>1, BuildFacts DEF SheetInv
<1>3. (BuildProgress => BuildProgress') /\ Clean' = Clean
  BY <1>1 DEF BuildProgress, Past, Written, Clean
<1>4. SavedBuild' = SavedBuild
  BY <1>1 DEF SavedBuild
<1> QED
  BY <1>1, <1>2, <1>3, <1>4, SavedKept DEF SheetInv, LostOnlyOverNothing

(* A process that saves a build nothing excuses has all its rows in the    *)
(* sheet; one that fails to save it has met no case, in it or before.      *)
LEMMA SaveKeeps ==
  ASSUME SheetInv, SaveConfig
  PROVE  SheetInv'
<1>1. /\ gpc = "save" /\ gtodo = <<>> /\ build \in Build /\ endNum = Erased
      /\ UNCHANGED <<build, gtodo, gsheet, dated, excuse, faults, finished>>
  BY DEF SaveConfig, SheetInv
<1>2. Clean => BuildProgress /\ Past = Len(BuildCases[build])
  BY <1>1, BuildFacts DEF SheetInv, Past
<1>3. CASE dated
  <2>1. endNum' = build /\ gpc' = "build"
    BY <1>3 DEF SaveConfig, Saved
  <2>2. Clean => \A k \in DOMAIN BuildCases[build] : Written(build, k)
    BY <1>1, <1>2, BuildFacts DEF BuildProgress
  <2>3. SavedBuildWritten'
    <3> SUFFICES ASSUME NEW b \in SavedBuild' \ Unnamed, excuse[b] = "none", NEW k \in DOMAIN BuildCases[b]
                 PROVE  \E n \in DOMAIN gsheet : gsheet[n] = [build |-> b, case |-> BuildCases[b][k], link |-> b]
      BY <1>1 DEF SavedBuildWritten, SavedBuild
    <3>1. b \in SavedBuild \/ b = build
      BY <1>1, <2>1, BuildFacts DEF SavedBuild
    <3>2. CASE b \in SavedBuild
      BY <3>2 DEF SheetInv, SavedBuildWritten
    <3>3. CASE b = build
      BY <2>2, <3>3 DEF Clean, Written, Row
    <3> QED
      BY <3>1, <3>2, <3>3
  <2>4. LinkedToOwnBuild'
    BY <1>1 DEF LinkedToOwnBuild, SheetInv
  <2>5. endNum' # Erased
    BY <1>1, <2>1, BuildFacts DEF Erased
  <2> QED
    BY <1>1, <2>1, <2>3, <2>4, <2>5 DEF SheetInv, LostOnlyOverNothing
<1>4. CASE ~dated
  <2>1. gpc' = "stopped" /\ UNCHANGED endNum
    BY <1>4 DEF SaveConfig
  <2>2. Clean => BuildCases[build] = <<>>
    <3>1. Clean => Len(BuildCases[build]) = 0
      BY <1>1, <1>2, <1>4, BuildFacts DEF BuildProgress
    <3> QED
      BY <1>1, <3>1, BuildFacts
  <2>3. SavedBuild' = SavedBuild
    BY <1>1, <2>1 DEF SavedBuild
  <2>4. LostOnlyOverNothing'
    BY <1>1, <2>2 DEF LostOnlyOverNothing, Clean, SheetInv
  <2> QED
    BY <1>1, <2>1, <2>3, <2>4, SavedKept DEF SheetInv
<1> QED
  BY <1>3, <1>4

(* A row put on top moves the others down.                                 *)
LEMMA OnTop ==
  ASSUME NEW S, NEW s \in Seq(S), NEW r \in S
  PROVE  /\ <<r>> \o s \in Seq(S)
         /\ Len(<<r>> \o s) = Len(s) + 1
         /\ DOMAIN (<<r>> \o s) = 1 .. Len(s) + 1
         /\ (<<r>> \o s)[1] = r
         /\ \A n \in 1 .. Len(s) : (<<r>> \o s)[n + 1] = s[n]
<1>1. <<r>> \in Seq(S) /\ Len(<<r>>) = 1 /\ <<r>>[1] = r
  OBVIOUS
<1> QED
  BY <1>1, ConcatProperties

(* A case that is written goes on top, and what is written stays so.       *)
LEMMA InsertKeeps ==
  ASSUME SheetInv, InsertRow, faults \in Nat
  PROVE  SheetInv'
<1>1. /\ gpc = "insert" /\ gtodo # <<>> /\ build \in Build /\ gtodo' = Tail(gtodo)
      /\ gtodo \in Seq(BuildCase) /\ gsheet \in Seq(SheetRow)
      /\ UNCHANGED <<endNum, build, finished>>
  BY DEF InsertRow, Rest, SheetInv
<1>2. dated' = TRUE
  BY DEF InsertRow, Dated
<1>3. PICK a \in Answer :
        /\ gsheet' = IF a = "error" THEN gsheet
                     ELSE <<[build |-> build, case |-> Head(gtodo), link |-> 0]>> \o gsheet
        /\ Count(a) /\ Blame(a)
        /\ gpc' = IF a = "ok" THEN "link" ELSE "insert"
  BY DEF InsertRow
<1>4. /\ Head(gtodo) = gtodo[1] /\ gtodo[1] \in BuildCase /\ gtodo' \in Seq(BuildCase)
      /\ Len(gtodo) \in Nat \ {0} /\ Len(gtodo') = Len(gtodo) - 1
      /\ \A k \in 1 .. Len(gtodo) - 1 : gtodo'[k] = gtodo[k + 1]
  BY <1>1, HeadTailProperties
<1>5. PICK r \in SheetRow : r = [build |-> build, case |-> Head(gtodo), link |-> 0]
  BY <1>1, <1>4 DEF SheetRow
<1>6. r.build = build /\ r.case = gtodo[1] /\ r.link = 0
  BY <1>4, <1>5
<1>7. /\ a = "error" => gsheet' = gsheet
      /\ a # "error" => gsheet' = <<r>> \o gsheet
  BY <1>3, <1>5
<1>8. /\ gsheet' \in Seq(SheetRow)
      /\ a # "error" => /\ gsheet' # <<>> /\ gsheet'[1] = r /\ DOMAIN gsheet' = 1 .. Len(gsheet) + 1
                        /\ \A n \in 1 .. Len(gsheet) : gsheet'[n + 1] = gsheet[n]
  <2>1. CASE a = "error"
    BY <1>1, <1>7, <2>1
  <2>2. CASE a # "error"
    <3>1. PICK t : t = <<r>> \o gsheet
      OBVIOUS
    <3>2. /\ t \in Seq(SheetRow) /\ t[1] = r /\ DOMAIN t = 1 .. Len(gsheet) + 1 /\ Len(t) = Len(gsheet) + 1
          /\ \A n \in 1 .. Len(gsheet) : t[n + 1] = gsheet[n]
      BY <1>1, <3>1, OnTop
    <3>3. t # <<>> /\ gsheet' = t
      BY <1>1, <1>7, <2>2, <3>1, <3>2
    <3> QED
      BY <2>2, <3>2, <3>3
  <2> QED
    BY <2>1, <2>2
<1>9. \A n \in DOMAIN gsheet : \E m \in DOMAIN gsheet' : gsheet'[m] = gsheet[n]
  <2>1. CASE a = "error"
    BY <1>7, <2>1
  <2>2. CASE a # "error"
    <3>1. \A n \in 1 .. Len(gsheet) : n + 1 \in DOMAIN gsheet' /\ gsheet'[n + 1] = gsheet[n]
      BY <1>1, <1>8, <2>2
    <3>2. DOMAIN gsheet = 1 .. Len(gsheet)
      BY <1>1
    <3> QED
      BY <3>1, <3>2, Zenon
  <2> QED
    BY <2>1, <2>2
<1>10. \A b, k : Written(b, k) => Written(b, k)'
  BY <1>9 DEF Written, Row
<1>12. LinkedToOwnBuild'
  <2> SUFFICES ASSUME NEW n \in DOMAIN gsheet'
               PROVE  gsheet'[n].link \in {0, gsheet'[n].build}
    BY DEF LinkedToOwnBuild
  <2>1. CASE a = "error"
    BY <1>7, <2>1 DEF SheetInv, LinkedToOwnBuild
  <2>2. CASE a # "error" /\ n = 1
    BY <1>6, <1>8, <2>2
  <2>3. CASE a # "error" /\ n # 1
    <3>1. n - 1 \in 1 .. Len(gsheet) /\ n - 1 + 1 = n
      BY <1>1, <1>8, <2>3
    <3>2. gsheet'[n] = gsheet[n - 1]
      BY <1>8, <2>3, <3>1
    <3> QED
      BY <1>1, <3>1, <3>2 DEF SheetInv, LinkedToOwnBuild
  <2> QED
    BY <2>1, <2>2, <2>3
<1>16. /\ excuse' \in [Build -> {"none", "running", "failed"}]
       /\ \A b \in Build \ {build} : excuse'[b] = excuse[b]
       /\ a = "ok" => excuse' = excuse
       /\ a # "ok" => excuse'[build] = "failed"
  BY <1>1, <1>3, Blamed
<1>17. faults' = 0 => \A b \in Build : excuse'[b] # "failed"
  BY <1>3, <1>16, NoFault DEF SheetInv
<1>18. SavedBuild' = SavedBuild /\ \A b \in SavedBuild : excuse'[b] = excuse[b]
  BY <1>1, <1>16, NotSaved
<1>11. SavedBuildWritten'
  BY <1>1, <1>9, <1>18 DEF SavedBuildWritten, SheetInv
<1>13. ASSUME Clean'
       PROVE  BuildProgress'
  <2>1. a = "ok" /\ Clean /\ gpc' = "link"
    BY <1>1, <1>3, <1>13, <1>16 DEF Clean
  <2>2. BuildProgress
    BY <1>1, <2>1 DEF SheetInv
  <2>3. Len(BuildCases[build]) \in Nat
    BY <1>1, BuildFacts
  <2>4. Past' = Past + 1 /\ Past \in Nat /\ Past \in Int
    BY <1>1, <1>4, <2>2, <2>3 DEF Past, BuildProgress
  <2>5. \A k \in 1 .. Len(gtodo') : gtodo'[k] = BuildCases'[build'][Past' + k]
    <3> SUFFICES ASSUME NEW k \in 1 .. Len(gtodo')
                 PROVE  gtodo'[k] = BuildCases[build'][Past' + k]
      OBVIOUS
    <3>1. k \in 1 .. Len(gtodo) - 1 /\ k + 1 \in 1 .. Len(gtodo)
      BY <1>4
    <3>2. gtodo[k + 1] = BuildCases[build][Past + (k + 1)]
      BY <2>2, <3>1 DEF BuildProgress
    <3>3. Past' + k = Past + (k + 1)
      BY <2>4, <3>1
    <3> QED
      BY <1>1, <1>4, <3>1, <3>2, <3>3
  <2>6. gsheet'[1].case = BuildCases[build][Past + 1]
    <3>1. 1 \in 1 .. Len(gtodo)
      BY <1>4
    <3>2. gtodo[1] = BuildCases[build][Past + 1]
      BY <2>2, <3>1 DEF BuildProgress
    <3> QED
      BY <1>6, <1>8, <2>1, <3>2
  <2>7. \A k \in 1 .. Past : Written(build, k)
    BY <1>1, <2>2 DEF BuildProgress
  <2>8. \A k \in 1 .. Past : Written(build, k)'
    <3> SUFFICES ASSUME NEW k \in 1 .. Past
                 PROVE  Written(build, k)'
      OBVIOUS
    <3>1. PICK b : b = build
      OBVIOUS
    <3>2. Written(b, k)'
      BY <1>10, <2>7, <3>1
    <3> QED
      BY <1>1, <3>1, <3>2 DEF Written, Row
  <2>9. \A k \in 1 .. Past' : k \in 1 .. Past \/ k = Past'
    BY <2>4
  <2>10. Len(gtodo') <= Len(BuildCases[build])
    BY <1>1, <1>4, <2>2, <2>3 DEF BuildProgress
  <2> QED
    BY <1>1, <1>2, <2>1, <2>4, <2>5, <2>6, <2>8, <2>9, <2>10 DEF BuildProgress
<1>14. dated' \in BOOLEAN
  BY <1>2, Zenon
<1>15. /\ gpc' \in {"link", "insert"} /\ (gpc' = "link" => gsheet' # <<>> /\ gsheet'[1].build = build)
  BY <1>3, <1>6, <1>8
<1> QED
  BY <1>1, <1>4, <1>8, <1>11, <1>12, <1>13, <1>14, <1>15, <1>16, <1>17 DEF SheetInv, LostOnlyOverNothing

(* The newest row is the one of the case at hand: it is linked to the      *)
(* build it belongs to, and to no other.                                   *)
LEMMA LinkKeeps ==
  ASSUME SheetInv, LinkRow, faults \in Nat
  PROVE  SheetInv'
<1>1. /\ gpc = "link" /\ gpc' = "insert" /\ build \in Build /\ gsheet \in Seq(SheetRow)
      /\ gsheet # <<>> /\ gsheet[1].build = build /\ 1 \in 1 .. Len(gsheet) /\ Len(gsheet) \in Nat
      /\ UNCHANGED <<endNum, build, gtodo, dated, finished>>
  BY DEF LinkRow, SheetInv
<1>2. PICK a \in Answer :
        /\ gsheet' = IF a = "error" THEN gsheet ELSE [gsheet EXCEPT ![1].link = build]
        /\ Count(a) /\ Blame(a)
  BY DEF LinkRow, LinkCell
<1>3. \A n \in 1 .. Len(gsheet) : gsheet[n] \in SheetRow
  BY <1>1
<1>4. PICK r : r = [gsheet[1] EXCEPT !.link = build]
  OBVIOUS
<1>5. r \in SheetRow /\ r.build = build /\ r.case = gsheet[1].case /\ r.link = build
  BY <1>1, <1>3, <1>4 DEF SheetRow
<1>6. a # "error" => /\ DOMAIN gsheet' = 1 .. Len(gsheet)
                     /\ gsheet' = [n \in 1 .. Len(gsheet) |-> IF n = 1 THEN r ELSE gsheet[n]]
  <2>1. gsheet = [n \in 1 .. Len(gsheet) |-> gsheet[n]]
    BY <1>1
  <2>2. a # "error" => gsheet' = [gsheet EXCEPT ![1] = r]
    BY <1>2, <1>4
  <2>3. [gsheet EXCEPT ![1] = r] = [n \in 1 .. Len(gsheet) |-> IF n = 1 THEN r ELSE gsheet[n]]
    BY <2>1
  <2> QED
    BY <2>2, <2>3
<1>7. gsheet' \in Seq(SheetRow)
  <2>1. CASE a = "error"
    BY <1>1, <1>2, <2>1
  <2>2. CASE a # "error"
    <3>1. \A n \in 1 .. Len(gsheet) : (IF n = 1 THEN r ELSE gsheet[n]) \in SheetRow
      BY <1>3, <1>5
    <3> QED
      BY <1>1, <1>6, <2>2, <3>1, IsASeq
  <2> QED
    BY <2>1, <2>2
<1>8. LinkedToOwnBuild /\ SavedBuildWritten
  BY DEF SheetInv
<1>9. LinkedToOwnBuild'
  <2>1. CASE a = "error"
    BY <1>2, <1>8, <2>1 DEF LinkedToOwnBuild
  <2>2. CASE a # "error"
    BY <1>1, <1>5, <1>6, <1>8, <2>2 DEF LinkedToOwnBuild
  <2> QED
    BY <2>1, <2>2
<1>10. ASSUME NEW b, NEW k, Written(b, k)
       PROVE  Written(b, k)'
  <2>1. PICK n \in 1 .. Len(gsheet) : gsheet[n] = Row(b, k)
    BY <1>1, <1>10 DEF Written
  <2>2. CASE a = "error"
    BY <1>1, <1>2, <2>1, <2>2 DEF Written, Row
  <2>3. CASE a # "error" /\ n # 1
    BY <1>6, <2>1, <2>3 DEF Written, Row
  <2>4. CASE a # "error" /\ n = 1
    <3>1. build = b
      BY <1>1, <2>1, <2>4 DEF Row
    <3>2. r = Row(b, k)
      BY <1>4, <2>1, <2>4, <3>1 DEF Row
    <3> QED
      BY <1>1, <1>6, <2>4, <3>2 DEF Written, Row
  <2> QED
    BY <2>2, <2>3, <2>4
<1>13. /\ excuse' \in [Build -> {"none", "running", "failed"}]
       /\ \A b \in Build \ {build} : excuse'[b] = excuse[b]
       /\ a = "ok" => excuse' = excuse
       /\ a # "ok" => excuse'[build] = "failed"
  BY <1>1, <1>2, Blamed
<1>14. faults' = 0 => \A b \in Build : excuse'[b] # "failed"
  BY <1>2, <1>13, NoFault DEF SheetInv
<1>15. SavedBuild' = SavedBuild /\ \A b \in SavedBuild : excuse'[b] = excuse[b]
  BY <1>1, <1>13, NotSaved
<1>11. SavedBuildWritten'
  BY <1>8, <1>10, <1>15 DEF SavedBuildWritten, Written, Row
<1>12. ASSUME Clean'
       PROVE  BuildProgress'
  <2>1. a = "ok" /\ BuildProgress
    BY <1>1, <1>12, <1>13 DEF SheetInv, Clean
  <2>2. Past' = Past /\ UNCHANGED <<gtodo, dated, build>>
    BY <1>1 DEF Past
  <2>3. ASSUME NEW k \in 1 .. Past
        PROVE  Written(build, k)'
    <3>1. PICK b : b = build
      OBVIOUS
    <3>2. CASE Written(b, k)
      <4>1. Written(b, k)'
        BY <1>10, <3>2
      <4> QED
        BY <1>1, <3>1, <4>1 DEF Written, Row
    <3>3. CASE gsheet[1].case = BuildCases[build][k]
      <4>1. r = Row(build, k)
        <5>1. r = [build |-> r.build, case |-> r.case, link |-> r.link]
          BY <1>5 DEF SheetRow
        <5> QED
          BY <1>5, <3>3, <5>1 DEF Row
      <4>2. 1 \in DOMAIN gsheet' /\ gsheet'[1] = r
        BY <1>1, <1>6, <2>1
      <4> QED
        BY <1>1, <4>1, <4>2 DEF Written, Row
    <3> QED
      BY <2>1, <3>1, <3>2, <3>3 DEF BuildProgress
  <2> QED
    BY <2>1, <2>2, <2>3 DEF BuildProgress
<1> QED
  BY <1>1, <1>7, <1>9, <1>11, <1>12, <1>13, <1>14 DEF SheetInv, LostOnlyOverNothing

(* Every step of the script keeps its account.                             *)
LEMMA SheetKeeps ==
  ASSUME SheetInv, faults \in Nat, SheetNext
  PROVE  SheetInv'
BY StartKeeps, ReadBuildKeeps, NoBuildKeeps, PassOverKeeps, InsertKeeps, LinkKeeps, OpenConfigKeeps,
   SaveKeeps, ResultsFailKeeps, ScriptDiesKeeps, FinishKeeps DEF SheetNext, SheetStep

-----------------------------------------------------------------------------
(* The sheet of bugs.                                                      *)

BugRow == [bug : Bug, value : 1 .. MaxBugChanges, title : Nat]

(* A bug is among the issues only while no row of it has been met, and     *)
(* what the run read has the bugs of the sheet at their places.            *)
BugsInv ==
  /\ bug \in [Bug -> 0 .. MaxBugChanges] /\ bchanges \in Nat
  /\ bpc \in {"idle", "sheet", "update", "insert", "title"}
  /\ brows \in Seq(BugRow) /\ values \in Seq(BugRow)
  /\ \A n \in DOMAIN brows : brows[n].title \in {0, brows[n].bug}
  /\ DOMAIN issues \subseteq Bug /\ \A b \in DOMAIN issues : issues[b] \in 1 .. MaxBugChanges
  /\ bnum \in 1 .. Len(values) + 1
  /\ bpc = "update" =>
       /\ Len(values) = Len(brows)
       /\ \A n \in DOMAIN brows : /\ values[n].bug = brows[n].bug
                                  /\ n < bnum => brows[n].bug \notin DOMAIN issues
  /\ bpc \in {"insert", "title"} => \A n \in DOMAIN brows : brows[n].bug \notin DOMAIN issues
  /\ bpc = "title" => brows # <<>>
  /\ OneRowPerBug


(* The run begins with the labelled bugs as issues.                        *)
LEMMA GetIssuesKeeps ==
  ASSUME BugsInv, GetIssues
  PROVE  BugsInv'
<1>1. /\ bpc = "idle" /\ UNCHANGED <<bug, brows, values, bnum, badLink, bchanges>>
      /\ \/ issues' = [b \in {c \in Bug : bug[c] > 0} |-> bug[b]] /\ bpc' = "sheet"
         \/ UNCHANGED <<issues, bpc>>
  BY DEF GetIssues
<1>2. CASE issues' = [b \in {c \in Bug : bug[c] > 0} |-> bug[b]] /\ bpc' = "sheet"
  <2>1. \A b \in Bug : bug[b] \in 0 .. MaxBugChanges
    BY DEF BugsInv
  <2>2. DOMAIN issues' \subseteq Bug /\ \A b \in DOMAIN issues' : issues'[b] \in 1 .. MaxBugChanges
    BY <1>2, <2>1, BugAssumption
  <2> QED
    BY <1>1, <1>2, <2>2 DEF BugsInv, OneRowPerBug
<1>3. CASE UNCHANGED <<issues, bpc>>
  BY <1>1, <1>3 DEF BugsInv, OneRowPerBug
<1> QED
  BY <1>1, <1>2, <1>3

(* The rows the run reads are those of the sheet.                          *)
LEMMA ReadSheetKeeps ==
  ASSUME BugsInv, ReadSheet
  PROVE  BugsInv'
<1>1. /\ bpc' \in {"update", "idle"} /\ values' = brows /\ bnum' = 1
      /\ UNCHANGED <<bug, brows, issues, badLink, bchanges>>
  BY DEF ReadSheet
<1>2. \A n \in DOMAIN brows : ~(n < 1)
  BY DEF BugsInv
<1>3. bnum' \in 1 .. Len(values') + 1
  BY <1>1 DEF BugsInv
<1> QED
  BY <1>1, <1>2, <1>3 DEF BugsInv, OneRowPerBug

(* A bug whose row is met is not inserted any more.                        *)
LEMMA UpdateKeeps ==
  ASSUME BugsInv, UpdateRow
  PROVE  BugsInv'
<1>1. /\ bpc = "update" /\ bnum <= Len(values) /\ bnum' = bnum + 1
      /\ bpc' \in {"update", "idle"} /\ issues' = Without(values[bnum].bug)
      /\ UNCHANGED <<bug, values, badLink, bchanges>>
      /\ \/ brows' = brows
         \/ values[bnum].bug \in DOMAIN issues /\ brows' = Put(bnum, issues[values[bnum].bug])
  BY DEF UpdateRow, Pop
<1>2. /\ brows \in Seq(BugRow) /\ DOMAIN brows = 1 .. Len(brows) /\ Len(brows) \in Nat
      /\ Len(values) = Len(brows) /\ bnum \in DOMAIN brows
      /\ values[bnum].bug = brows[bnum].bug /\ OneRowPerBug
  BY <1>1 DEF BugsInv
<1>3. DOMAIN issues' = DOMAIN issues \ {values[bnum].bug}
      /\ \A b \in DOMAIN issues' : issues'[b] = issues[b]
  BY <1>1 DEF Without
<1>4. \A n \in DOMAIN brows : brows[n] \in BugRow
  BY <1>2
<1>5. /\ brows' \in Seq(BugRow) /\ DOMAIN brows' = DOMAIN brows /\ Len(brows') = Len(brows)
      /\ \A n \in DOMAIN brows : brows'[n].bug = brows[n].bug /\ brows'[n].title = brows[n].title
  <2>1. CASE brows' = brows
    BY <1>2, <2>1
  <2>2. CASE values[bnum].bug \in DOMAIN issues /\ brows' = Put(bnum, issues[values[bnum].bug])
    <3>1. PICK v \in 1 .. MaxBugChanges : v = issues[values[bnum].bug]
      BY <2>2 DEF BugsInv
    <3>2. brows' = [brows EXCEPT ![bnum].value = v]
      BY <2>2, <3>1 DEF Put
    <3>3. PICK r : r = [brows[bnum] EXCEPT !.value = v]
      OBVIOUS
    <3>4. r \in BugRow /\ r.bug = brows[bnum].bug /\ r.title = brows[bnum].title
      BY <1>2, <1>4, <3>1, <3>3 DEF BugRow
    <3>5. brows' = [brows EXCEPT ![bnum] = r]
      BY <3>2, <3>3
    <3> QED
      BY <1>2, <3>4, <3>5, ExceptSeq
  <2> QED
    BY <1>1, <2>1, <2>2
<1>6. OneRowPerBug'
  BY <1>2, <1>5, Zenon DEF OneRowPerBug
<1>7. \A n \in DOMAIN brows : n < bnum' => n < bnum \/ n = bnum
  BY <1>1, <1>2
<1>8. \A n \in DOMAIN brows : n < bnum' => brows[n].bug \notin DOMAIN issues'
  BY <1>1, <1>2, <1>3, <1>7 DEF BugsInv
<1>9. \A n \in DOMAIN brows' : brows'[n].title \in {0, brows'[n].bug}
  BY <1>5 DEF BugsInv
<1>10. bnum' \in 1 .. Len(values) + 1
  BY <1>1, <1>2 DEF BugsInv
<1> QED
  BY <1>1, <1>3, <1>5, <1>6, <1>8, <1>9, <1>10 DEF BugsInv

(* When all rows have been met no issue has one.                           *)
LEMMA RowsUpdatedKeeps ==
  ASSUME BugsInv, RowsUpdated
  PROVE  BugsInv'
<1>1. /\ bpc = "update" /\ bnum > Len(values) /\ bpc' \in {"idle", "insert"}
      /\ UNCHANGED <<bug, brows, issues, values, bnum, badLink, bchanges>>
  BY DEF RowsUpdated
<1>2. \A n \in DOMAIN brows : brows[n].bug \notin DOMAIN issues
  BY <1>1 DEF BugsInv
<1> QED
  BY <1>1, <1>2 DEF BugsInv, OneRowPerBug

(* A new row is for a bug without one, and takes it off the issues.        *)
LEMMA InsertBugKeeps ==
  ASSUME BugsInv, InsertBug
  PROVE  BugsInv'
<1>1. PICK a \in Answer, b \in DOMAIN issues :
        /\ brows' = IF a = "error" THEN brows
                    ELSE <<[bug |-> b, value |-> issues[b], title |-> 0]>> \o brows
        /\ issues' = Without(b)
        /\ bpc' = IF a = "ok" THEN "title" ELSE "idle"
  BY DEF InsertBug
<1>2. /\ bpc = "insert" /\ UNCHANGED <<bug, values, bnum, badLink, bchanges>>
  BY DEF InsertBug
<1>3. /\ brows \in Seq(BugRow) /\ DOMAIN brows = 1 .. Len(brows) /\ Len(brows) \in Nat /\ OneRowPerBug
      /\ \A n \in DOMAIN brows : brows[n].bug \notin DOMAIN issues
      /\ \A n \in DOMAIN brows : brows[n].title \in {0, brows[n].bug}
  BY <1>2 DEF BugsInv
<1>4. DOMAIN issues' = DOMAIN issues \ {b} /\ \A c \in DOMAIN issues' : issues'[c] = issues[c]
  BY <1>1 DEF Without
<1>5. PICK r \in BugRow : /\ r = [bug |-> b, value |-> issues[b], title |-> 0]
                          /\ r.bug = b /\ r.title = 0
  <2>1. b \in Bug /\ issues[b] \in 1 .. MaxBugChanges
    BY DEF BugsInv
  <2>2. [bug |-> b, value |-> issues[b], title |-> 0] \in BugRow
    BY <2>1 DEF BugRow
  <2> QED
    BY <2>2
<1>6. CASE a = "error"
  <2>1. brows' = brows /\ bpc' = "idle"
    BY <1>1, <1>6
  <2> QED
    BY <1>2, <1>3, <1>4, <2>1 DEF BugsInv, OneRowPerBug
<1>7. CASE a # "error"
  <2>1. PICK t : t = <<r>> \o brows
    OBVIOUS
  <2>2. /\ t \in Seq(BugRow) /\ t[1] = r /\ DOMAIN t = 1 .. Len(brows) + 1 /\ Len(t) = Len(brows) + 1
        /\ \A n \in 1 .. Len(brows) : t[n + 1] = brows[n]
    BY <1>3, <2>1, OnTop
  <2>3. brows' = t /\ t # <<>>
    BY <1>1, <1>3, <1>5, <1>7, <2>1, <2>2
  <2>4. \A n \in DOMAIN t : n = 1 \/ (n - 1 \in DOMAIN brows /\ t[n] = brows[n - 1])
    <3> SUFFICES ASSUME NEW n \in DOMAIN t, n # 1
                 PROVE  n - 1 \in DOMAIN brows /\ t[n] = brows[n - 1]
      OBVIOUS
    <3>1. n - 1 \in 1 .. Len(brows) /\ n - 1 + 1 = n
      BY <1>3, <2>2
    <3> QED
      BY <1>3, <2>2, <3>1
  <2>5. \A n \in DOMAIN t : t[n].title \in {0, t[n].bug}
    BY <1>3, <1>5, <2>2, <2>4
  <2>6. \A n \in DOMAIN t : t[n].bug \notin DOMAIN issues'
    BY <1>3, <1>4, <1>5, <2>2, <2>4
  <2>7. \A m, n \in DOMAIN t : t[m].bug = t[n].bug => m = n
    <3> SUFFICES ASSUME NEW m \in DOMAIN t, NEW n \in DOMAIN t, t[m].bug = t[n].bug
                 PROVE  m = n
      OBVIOUS
    <3>1. CASE m = 1 \/ n = 1
      BY <1>3, <1>5, <2>2, <2>4, <3>1
    <3>2. CASE m # 1 /\ n # 1
      <4>1. m - 1 \in DOMAIN brows /\ n - 1 \in DOMAIN brows /\ brows[m - 1].bug = brows[n - 1].bug
        BY <2>4, <3>2
      <4>2. m - 1 = n - 1
        BY <1>3, <4>1 DEF OneRowPerBug
      <4> QED
        BY <2>2, <4>2
    <3> QED
      BY <3>1, <3>2
  <2>8. bpc' \in {"title", "idle"}
    BY <1>1
  <2> QED
    BY <1>2, <1>4, <2>2, <2>3, <2>5, <2>6, <2>7, <2>8 DEF BugsInv, OneRowPerBug
<1> QED
  BY <1>6, <1>7

(* The title goes to the row just put on top.                              *)
LEMMA TitleKeeps ==
  ASSUME BugsInv, TitleBug
  PROVE  BugsInv'
<1>1. /\ bpc = "title" /\ bpc' \in {"idle", "insert"}
      /\ brows' = brows \/ brows' = [brows EXCEPT ![1].title = brows[1].bug]
      /\ UNCHANGED <<bug, issues, values, bnum, badLink, bchanges>>
  BY DEF TitleBug, TitleCell
<1>2. /\ brows \in Seq(BugRow) /\ DOMAIN brows = 1 .. Len(brows) /\ 1 \in DOMAIN brows /\ OneRowPerBug
      /\ \A n \in DOMAIN brows : brows[n].title \in {0, brows[n].bug}
      /\ \A n \in DOMAIN brows : brows[n].bug \notin DOMAIN issues
  BY <1>1 DEF BugsInv
<1>3. /\ brows' \in Seq(BugRow) /\ DOMAIN brows' = DOMAIN brows
      /\ \A n \in DOMAIN brows : brows'[n].bug = brows[n].bug /\ brows'[n].title \in {0, brows[n].bug}
  <2>1. CASE brows' = brows
    BY <1>2, <2>1
  <2>2. CASE brows' = [brows EXCEPT ![1].title = brows[1].bug]
    <3>1. PICK r : r = [brows[1] EXCEPT !.title = brows[1].bug]
      OBVIOUS
    <3>2. brows[1] \in BugRow
      BY <1>2
    <3>3. r \in BugRow /\ r.bug = brows[1].bug /\ r.title = brows[1].bug
      <4>1. brows[1].bug \in Nat
        BY <3>2, BugAssumption DEF BugRow, Bug
      <4> QED
        BY <3>1, <3>2, <4>1 DEF BugRow
    <3>4. brows' = [brows EXCEPT ![1] = r]
      BY <2>2, <3>1
    <3> QED
      BY <1>2, <3>3, <3>4, ExceptSeq
  <2> QED
    BY <1>1, <2>1, <2>2
<1>4. OneRowPerBug'
  BY <1>2, <1>3, Zenon DEF OneRowPerBug
<1> QED
  BY <1>1, <1>2, <1>3, <1>4 DEF BugsInv

(* Jira changes without the script.                                        *)
LEMMA BugChangesKeeps ==
  ASSUME BugsInv, NEW b \in Bug, BugChanges(b)
  PROVE  BugsInv'
<1>1. /\ bchanges < MaxBugChanges /\ bchanges' = bchanges + 1
      /\ bug' = bug \/ \E v \in {0, bchanges'} : bug' = [bug EXCEPT ![b] = v]
      /\ UNCHANGED <<brows, bpc, issues, values, bnum>>
  BY DEF BugChanges
<1>2. bchanges' \in Nat /\ bchanges' \in 0 .. MaxBugChanges /\ 0 \in 0 .. MaxBugChanges
  BY <1>1, BugAssumption DEF BugsInv
<1>3. bug' \in [Bug -> 0 .. MaxBugChanges]
  BY <1>1, <1>2 DEF BugsInv
<1> QED
  BY <1>1, <1>2, <1>3 DEF BugsInv, OneRowPerBug

(* Every step of the script, and every change in Jira, keeps its account.  *)
LEMMA BugsKeep ==
  ASSUME BugsInv, BugsNext
  PROVE  BugsInv'
<1>1. CASE BugsDie
  BY <1>1 DEF BugsDie, BugsInv, OneRowPerBug
<1> QED
  BY <1>1, GetIssuesKeeps, ReadSheetKeeps, UpdateKeeps, RowsUpdatedKeeps, InsertBugKeeps, TitleKeeps,
     BugChangesKeeps DEF BugsNext, BugsStep


-----------------------------------------------------------------------------
(* The tracker of unstable cases.                                          *)

CaseRow == [case : Subject, passed : Nat, failed : Nat, product : BOOLEAN]

(* The sub-tasks created since the run listed them are for rows before the *)
(* one at hand, or for it while it is to be linked.                        *)
ListedLongAgo ==
  \A i \in listed + 1 .. Len(tasks) : \E n \in DOMAIN rows :
    /\ n < row \/ (n = row /\ cpc = "link")
    /\ tasks[i].subject = rows[n].case

(* The unstable rows a run is past are tracked.                            *)
RowsTracked ==
  \A n \in DOMAIN rows :
    n < row \/ (n = row /\ cpc = "link") => (Low(rows[n]) => Tracked(rows[n].case))

CaseInv ==
  /\ items \in Portals
  /\ cpc \in {"idle", "list", "items", "sheet", "subtasks", "rows", "link"}
  /\ query \in 1 .. NQuery + 1 /\ cpage \in Nat \ {0}
  /\ todo \in Seq(CLaunch)
  /\ cases \in Seq(Subject) /\ IsInjective(cases)
  /\ DOMAIN got \subseteq Subject \X CLaunch /\ IsFiniteSet(DOMAIN got)
  /\ \A k \in DOMAIN got : got[k] \in Status
  /\ rows \in Seq(CaseRow) /\ \A m, n \in DOMAIN rows : rows[m].case = rows[n].case => m = n
  /\ row \in 1 .. Len(rows) + 1 /\ listed \in 0 .. Len(tasks)
  /\ today \in {"none", "named", "made"} /\ whole \in BOOLEAN /\ done \in BOOLEAN
  /\ tool # "case" => cpc = "idle" /\ ~done
  /\ cpc = "items" => query <= NQuery
  /\ cpc \in {"list", "items", "sheet", "subtasks"} => row = 1
  /\ cpc = "link" => row <= Len(rows)
  /\ cpc \in {"rows", "link"} => ListedLongAgo /\ RowsTracked
  /\ done => cpc = "idle" /\ UnstableTracked

(* Max of a bounded set that is not empty is its greatest member.          *)
LEMMA MaxIn ==
  ASSUME NEW n \in Nat, NEW S, S \subseteq 1 .. n, S # {}
  PROVE  Max(S) \in S /\ \A y \in S : y <= Max(S)
<1> DEFINE D == {n - x : x \in S}
<1>1. D \subseteq Nat /\ D # {}
  <2>1. \A x \in S : n - x \in Nat
    OBVIOUS
  <2> QED
    BY <2>1
<1>2. PICK d \in D : \A e \in D : d <= e
  BY <1>1, Least
<1>3. PICK x \in S : d = n - x
  BY <1>2
<1>4. \A y \in S : n - y \in D /\ y \in 1 .. n
  OBVIOUS
<1>5. \A y \in S : x >= y
  <2> SUFFICES ASSUME NEW y \in S
               PROVE  x >= y
    OBVIOUS
  <2>1. d <= n - y /\ x \in 1 .. n /\ y \in 1 .. n
    BY <1>2, <1>4
  <2> QED
    BY <1>3, <2>1
<1>6. Max(S) \in S /\ \A y \in S : Max(S) >= y
  BY <1>5 DEF Max
<1> QED
  BY <1>4, <1>6

(* What the portal holds for a launch that is to be read.                  *)
CaseItem == [case : Subject, status : Status]
LEMMA ListFacts ==
  ASSUME CaseInv, todo # <<>>
  PROVE  /\ Head(todo) \in CLaunch /\ Tail(todo) \in Seq(CLaunch)
         /\ List \in Seq(CaseItem) /\ Len(List) \in Nat /\ DOMAIN List = 1 .. Len(List)
         /\ \A i \in 1 .. Len(List) : List[i].case \in Subject /\ List[i].status \in Status
         /\ CPageSize \in Nat \ {0} /\ PageOf(cpage, Len(List), CPageSize) \subseteq 1 .. Len(List)
<1>1. Head(todo) \in CLaunch /\ Tail(todo) \in Seq(CLaunch)
  BY HeadTailProperties DEF CaseInv
<1>2. items \in [CLaunch -> Seq(CaseItem)] /\ CPageSize \in Nat \ {0}
  BY CaseAssumption DEF CaseInv, CaseItem
<1>3. List \in Seq(CaseItem)
  BY <1>1, <1>2 DEF List
<1>4. \A i \in 1 .. Len(List) : List[i] \in CaseItem
  BY <1>3
<1> QED
  BY <1>1, <1>2, <1>3, <1>4 DEF CaseItem, PageOf

(* The result recorded for a case is the one of its last item on the page. *)
LEMMA RecordFacts ==
  ASSUME CaseInv, todo # <<>>, NEW S \in SUBSET (1 .. Len(List)), NEW lost
  PROVE  /\ DOMAIN Record(S, lost) = DOMAIN got \cup Keys(S)
         /\ \A k \in Keys(S) :
              /\ Record(S, lost)[k] = Recorded(LastOf(S, k[1]), lost)
              /\ LastOf(S, k[1]) \in S /\ List[LastOf(S, k[1])].case = k[1]
              /\ \A i \in S : List[i].case = k[1] => i <= LastOf(S, k[1])
              /\ Record(S, lost)[k] \in Status
         /\ \A k \in DOMAIN got : k \notin Keys(S) => Record(S, lost)[k] = got[k]
         /\ CasesAt(S) \subseteq Subject
<1>1. ASSUME NEW c \in CasesAt(S)
      PROVE  /\ LastOf(S, c) \in S /\ List[LastOf(S, c)].case = c
             /\ \A i \in S : List[i].case = c => i <= LastOf(S, c)
             /\ Recorded(LastOf(S, c), lost) \in Status
  <2> DEFINE P == {i \in S : List[i].case = c}
  <2>1. P # {} /\ P \subseteq 1 .. Len(List) /\ Len(List) \in Nat
    BY <1>1, ListFacts DEF CasesAt
  <2>2. Max(P) \in P /\ \A y \in P : y <= Max(P)
    BY <2>1, MaxIn
  <2>3. LastOf(S, c) = Max(P)
    BY DEF LastOf
  <2>4. List[LastOf(S, c)].status \in Status
    BY <2>2, <2>3, ListFacts
  <2>5. Recorded(LastOf(S, c), lost) \in Status
    BY <2>4 DEF Recorded, Status
  <2> QED
    BY <2>2, <2>3, <2>5
<1>2. CasesAt(S) \subseteq Subject
  BY ListFacts DEF CasesAt
<1>3. \A k \in Keys(S) : k[1] \in CasesAt(S)
  BY DEF Keys
<1> QED
  BY <1>1, <1>2, <1>3 DEF Record

(* A case goes behind the others when it is first met, and only then.      *)
LEMMA NewCasesFacts ==
  ASSUME CaseInv, todo # <<>>, NEW S \in SUBSET (1 .. Len(List))
  PROVE  /\ cases \o NewCases(S) \in Seq(Subject)
         /\ IsInjective(cases \o NewCases(S))
         /\ Range(cases \o NewCases(S)) = Range(cases) \cup CasesAt(S)
<1> DEFINE first == {i \in S : /\ List[i].case \notin Range(cases)
                               /\ \A j \in S : List[j].case = List[i].case => i <= j}
<1>1. /\ CaseNames \in Seq(Subject) /\ Len(CaseNames) = Len(List) /\ Len(List) \in Nat
      /\ \A i \in 1 .. Len(List) : CaseNames[i] = List[i].case
  BY ListFacts, IsASeq, LenProperties DEF CaseNames
<1>2. /\ NewCases(S) \in Seq(Subject)
      /\ \E p : Picks(p, CaseNames, first, Len(CaseNames), NewCases(S))
  BY <1>1, EntriesPicks DEF NewCases
<1>3. PICK new, p : /\ new \in Seq(Subject) /\ new = NewCases(S)
                     /\ Picks(p, CaseNames, first, Len(List), new)
  BY <1>1, <1>2
<1>4. /\ p \in Seq(1 .. Len(List)) /\ Len(p) = Len(new)
      /\ \A k \in 1 .. Len(p) : p[k] \in 1 .. Len(List) /\ p[k] \in first /\ new[k] = List[p[k]].case
      /\ \A k, l \in 1 .. Len(p) : k < l => p[k] < p[l]
      /\ \A m \in 1 .. Len(List) : m \in first => \E k \in 1 .. Len(p) : p[k] = m
  <2>1. \A k \in 1 .. Len(p) : p[k] \in 1 .. Len(List) /\ CaseNames[p[k]] = List[p[k]].case
    BY <1>1, <1>3 DEF Picks
  <2> HIDE DEF first
  <2> QED
    BY <1>3, <2>1 DEF Picks
<1>5. \A k \in 1 .. Len(new) : new[k] \notin Range(cases) /\ new[k] \in CasesAt(S)
  <2> SUFFICES ASSUME NEW k \in 1 .. Len(new)
               PROVE  new[k] \notin Range(cases) /\ new[k] \in CasesAt(S)
    OBVIOUS
  <2>1. p[k] \in first /\ new[k] = List[p[k]].case
    BY <1>4
  <2> QED
    BY <2>1, Zenon DEF CasesAt
<1>6. \A k, l \in 1 .. Len(new) : k < l => new[k] # new[l]
  <2> SUFFICES ASSUME NEW k \in 1 .. Len(new), NEW l \in 1 .. Len(new), k < l, new[k] = new[l]
               PROVE  FALSE
    OBVIOUS
  <2>1. p[k] < p[l] /\ p[k] \in first /\ p[l] \in first /\ List[p[k]].case = List[p[l]].case
        /\ p[k] \in 1 .. Len(List) /\ p[l] \in 1 .. Len(List)
    BY <1>4
  <2>2. p[l] <= p[k]
    BY <2>1
  <2> QED
    BY <2>1, <2>2
<1>7. /\ cases \in Seq(Subject) /\ Len(cases) \in Nat /\ Len(new) \in Nat
      /\ DOMAIN cases = 1 .. Len(cases) /\ IsInjective(cases) /\ new \in Seq(Subject)
  BY <1>3 DEF CaseInv
<1>8. PICK all : all = cases \o new
  OBVIOUS
<1>9. /\ all \in Seq(Subject) /\ Len(all) = Len(cases) + Len(new) /\ DOMAIN all = 1 .. Len(cases) + Len(new)
      /\ \A n \in 1 .. Len(cases) : all[n] = cases[n]
      /\ \A n \in Len(cases) + 1 .. Len(cases) + Len(new) : all[n] = new[n - Len(cases)]
  BY <1>7, <1>8, ConcatProperties
<1>10. \A n \in DOMAIN all : n \in 1 .. Len(cases) \/ n \in Len(cases) + 1 .. Len(cases) + Len(new)
  BY <1>7, <1>9
<1>11. \A n \in Len(cases) + 1 .. Len(cases) + Len(new) :
         n - Len(cases) \in 1 .. Len(new) /\ all[n] = new[n - Len(cases)] /\ all[n] \notin Range(cases)
  BY <1>5, <1>7, <1>9
<1>12. \A n \in 1 .. Len(cases) : all[n] = cases[n] /\ all[n] \in Range(cases)
  BY <1>7, <1>9 DEF Range
<1>13. IsInjective(all)
  <2> SUFFICES ASSUME NEW m \in DOMAIN all, NEW n \in DOMAIN all, all[m] = all[n]
               PROVE  m = n
    BY DEF IsInjective
  <2>1. CASE m \in 1 .. Len(cases) /\ n \in 1 .. Len(cases)
    BY <1>7, <1>12, <2>1 DEF IsInjective
  <2>2. CASE m \notin 1 .. Len(cases) /\ n \notin 1 .. Len(cases)
    <3>1. PICK k \in 1 .. Len(new) : k = m - Len(cases) /\ all[m] = new[k]
      BY <1>10, <1>11, <2>2
    <3>2. PICK l \in 1 .. Len(new) : l = n - Len(cases) /\ all[n] = new[l]
      BY <1>10, <1>11, <2>2
    <3>3. k = l
      <4>1. ~(k < l) /\ ~(l < k)
        BY <1>6, <3>1, <3>2
      <4> QED
        BY <1>7, <4>1
    <3> QED
      BY <1>7, <1>9, <3>1, <3>2, <3>3
  <2> QED
    BY <1>10, <1>11, <1>12, <2>1, <2>2
<1>14. Range(all) \subseteq Range(cases) \cup CasesAt(S)
  <2>1. \A n \in DOMAIN all : all[n] \in Range(cases) \cup CasesAt(S)
    BY <1>5, <1>10, <1>11, <1>12
  <2> QED
    BY <2>1 DEF Range
<1>15. Range(cases) \subseteq Range(all)
  BY <1>7, <1>9 DEF Range
<1>16. ASSUME NEW c \in CasesAt(S), c \notin Range(cases)
       PROVE  c \in Range(all)
  <2> DEFINE P == {i \in S : List[i].case = c}
  <2>1. P \subseteq Nat /\ P # {}
    <3>1. \A i \in S : i \in Nat
      OBVIOUS
    <3> QED
      BY <1>16, <3>1 DEF CasesAt
  <2>2. PICK i \in P : \A j \in P : i <= j
    BY <2>1, Least
  <2>3. i \in first /\ i \in 1 .. Len(List) /\ List[i].case = c
    BY <1>16, <2>2
  <2>4. PICK k \in 1 .. Len(p) : p[k] = i
    BY <1>4, <2>3
  <2>5. new[k] = c /\ k \in 1 .. Len(new)
    BY <1>4, <2>3, <2>4
  <2>6. Len(cases) + k \in DOMAIN all /\ all[Len(cases) + k] = c
    <3>1. /\ Len(cases) + k \in Len(cases) + 1 .. Len(cases) + Len(new)
          /\ Len(cases) + k \in 1 .. Len(cases) + Len(new) /\ Len(cases) + k - Len(cases) = k
      BY <1>7, <2>5
    <3>2. all[Len(cases) + k] = new[Len(cases) + k - Len(cases)]
      BY <1>9, <3>1
    <3> QED
      BY <1>9, <2>5, <3>1, <3>2
  <2> QED
    BY <2>6 DEF Range
<1> QED
  BY <1>3, <1>8, <1>9, <1>13, <1>14, <1>15, <1>16


(* The queries are sequences of what the assumption says.                  *)
LEMMA QueryFacts ==
  /\ NQuery \in Nat
  /\ \A q \in 1 .. NQuery : LaunchesIn[q] \in Seq(CLaunch)
BY CaseAssumption DEF NQuery

(* A row counts results, and no case has two rows.                         *)
LEMMA RowsFacts ==
  ASSUME CaseInv, NEW places
  PROVE  /\ Entries(AllRows, places) \in Seq(CaseRow)
         /\ \A m, n \in DOMAIN Entries(AllRows, places) :
              Entries(AllRows, places)[m].case = Entries(AllRows, places)[n].case => m = n
         /\ \A m \in DOMAIN Entries(AllRows, places) :
              \E n \in DOMAIN cases : n \in places /\ Entries(AllRows, places)[m] = RowOf(cases[n])
         /\ \A n \in DOMAIN cases : n \in places =>
              \E m \in DOMAIN Entries(AllRows, places) : Entries(AllRows, places)[m] = RowOf(cases[n])
         /\ \A c \in Subject : RowOf(c).case = c
         /\ cases \in Seq(Subject) /\ \A n \in DOMAIN cases : AllRows[n] = RowOf(cases[n])
<1>1. /\ cases \in Seq(Subject) /\ IsInjective(cases) /\ Len(cases) \in Nat
      /\ DOMAIN cases = 1 .. Len(cases)
  BY DEF CaseInv
<1>2. ASSUME NEW c \in Subject
      PROVE  RowOf(c) \in CaseRow /\ RowOf(c).case = c
  <2>1. \A s : Cardinality(Results(c, s)) \in Nat
    <3> SUFFICES ASSUME NEW s
                 PROVE  Cardinality(Results(c, s)) \in Nat
      OBVIOUS
    <3>1. Results(c, s) \subseteq DOMAIN got /\ IsFiniteSet(DOMAIN got)
      BY DEF Results, CaseInv
    <3> QED
      BY <3>1, FS_Subset, FS_CardinalityType
  <2>2. (Results(c, {"FAILED"}) # {}) \in BOOLEAN
    OBVIOUS
  <2> QED
    BY <2>1, <2>2 DEF RowOf, CaseRow
<1>3. \A n \in 1 .. Len(cases) : RowOf(cases[n]) \in CaseRow /\ RowOf(cases[n]).case = cases[n]
  BY <1>1, <1>2
<1>4. /\ AllRows \in Seq(CaseRow) /\ Len(AllRows) = Len(cases)
      /\ \A n \in 1 .. Len(cases) : AllRows[n].case = cases[n] /\ AllRows[n] = RowOf(cases[n])
  BY <1>1, <1>3, IsASeq, LenProperties DEF AllRows
<1>5. PICK e, p : /\ e \in Seq(CaseRow) /\ e = Entries(AllRows, places)
                   /\ Picks(p, AllRows, places, Len(cases), e)
  BY <1>4, EntriesPicks
<1>6. /\ p \in Seq(1 .. Len(cases)) /\ Len(p) = Len(e)
      /\ \A k \in 1 .. Len(e) : p[k] \in 1 .. Len(cases) /\ e[k] = AllRows[p[k]]
      /\ \A k, l \in 1 .. Len(e) : k < l => p[k] < p[l]
  BY <1>5 DEF Picks
<1>13. /\ \A k \in 1 .. Len(e) : p[k] \in places
       /\ \A n \in 1 .. Len(cases) : n \in places => \E k \in 1 .. Len(e) : p[k] = n
       /\ DOMAIN e = 1 .. Len(e)
  BY <1>5, <1>6 DEF Picks
<1>7. \A k \in 1 .. Len(e) : e[k].case = cases[p[k]] /\ e[k] = RowOf(cases[p[k]])
  BY <1>4, <1>6
<1>8. ASSUME NEW m \in 1 .. Len(e), NEW n \in 1 .. Len(e), e[m].case = e[n].case
      PROVE  m = n
  <2>0. /\ p[m] \in DOMAIN cases /\ p[n] \in DOMAIN cases /\ cases[p[m]] = cases[p[n]]
        /\ p[m] \in 1 .. Len(cases)
    BY <1>1, <1>6, <1>7, <1>8
  <2>1. p[m] = p[n]
    BY <1>1, <2>0, Zenon DEF IsInjective
  <2>2. ~(m < n) /\ ~(n < m)
    BY <1>6, <2>0, <2>1
  <2> QED
    BY <2>2
<1>9. \A m \in DOMAIN e : \E n \in DOMAIN cases : n \in places /\ e[m] = RowOf(cases[n])
  BY <1>1, <1>6, <1>7, <1>13, Zenon
<1>10. \A n \in DOMAIN cases : n \in places => \E m \in DOMAIN e : e[m] = RowOf(cases[n])
  <2> SUFFICES ASSUME NEW n \in 1 .. Len(cases), n \in places
               PROVE  \E m \in DOMAIN e : e[m] = RowOf(cases[n])
    BY <1>1
  <2>1. PICK k \in 1 .. Len(e) : p[k] = n
    BY <1>13
  <2> QED
    BY <1>7, <1>13, <2>1, Zenon
<1>11. \A m, n \in DOMAIN e : e[m].case = e[n].case => m = n
  BY <1>8, <1>13
<1>12. \A n \in DOMAIN cases : AllRows[n] = RowOf(cases[n])
  BY <1>1, <1>4
<1> QED
  BY <1>1, <1>2, <1>5, <1>9, <1>10, <1>11, <1>12, Zenon

(* A run begins with nothing read and nothing written.                     *)
LEMMA CollectKeeps ==
  ASSUME JiraInv, CaseInv, CollectResult, UNCHANGED tool, tool = "case"
  PROVE  JiraInv' /\ CaseInv' /\ TasksGrow
<1>1. /\ cpc' = "list" /\ query' = 1 /\ cpage' = 1 /\ todo' = <<>> /\ cases' = <<>> /\ got' = <<>>
      /\ rows' = <<>> /\ row' = 1 /\ listed' = 0 /\ whole' = TRUE /\ done' = FALSE
      /\ closed' = [closed EXCEPT !.now = 0]
      /\ UNCHANGED <<items, today, tasks, faults>>
  BY DEF CollectResult, portal
<1>2. JiraInv'
  <2>1. closed' \in [now : Nat, all : Nat]
    BY <1>1 DEF JiraInv
  <2>2. OneTaskPerSubject'
    BY <1>1 DEF JiraInv, OneTaskPerSubject
  <2> QED
    BY <1>1, <2>1, <2>2 DEF JiraInv
<1>3. TasksGrow
  BY <1>1 DEF JiraInv, TasksGrow
<1>4. ~done' /\ done' \in BOOLEAN /\ whole' \in BOOLEAN
  BY <1>1, Zenon
<1>5. /\ DOMAIN got' = {} /\ IsFiniteSet(DOMAIN got') /\ IsInjective(cases')
      /\ \A m, n \in DOMAIN rows' : rows'[m].case = rows'[n].case => m = n
  <2>1. DOMAIN got' = {} /\ DOMAIN cases' = {} /\ DOMAIN rows' = {}
    BY <1>1
  <2> QED
    BY <2>1, FS_EmptySet DEF IsInjective
<1>6. query' \in 1 .. NQuery + 1 /\ row' \in 1 .. Len(rows') + 1 /\ listed' \in 0 .. Len(tasks')
  BY <1>1, QueryFacts DEF JiraInv
<1>7. todo' \in Seq(CLaunch) /\ cases' \in Seq(Subject) /\ rows' \in Seq(CaseRow) /\ cpage' \in Nat \ {0}
  BY <1>1
<1>8. items' \in Portals /\ today' \in {"none", "named", "made"}
  BY <1>1 DEF CaseInv
<1>9. /\ cpc' = "list" /\ row' = 1 /\ tool' = "case"
  BY <1>1
<1> QED
  BY <1>2, <1>3, <1>4, <1>5, <1>6, <1>7, <1>8, <1>9 DEF CaseInv

(* The steps that read the portal keep the rows and the sub-tasks.         *)
LEMMA ReadingKeeps ==
  ASSUME JiraInv, CaseInv, UNCHANGED tool, tool = "case",
         UNCHANGED <<portal, sheet, today, done, jira>>, faults' \in Nat,
         cpc \in {"list", "items"}, cpc' \in {"list", "items", "sheet"},
         query' \in 1 .. NQuery + 1, cpage' \in Nat \ {0}, todo' \in Seq(CLaunch),
         cases' \in Seq(Subject), IsInjective(cases'),
         DOMAIN got' \subseteq Subject \X CLaunch, IsFiniteSet(DOMAIN got'),
         \A k \in DOMAIN got' : got'[k] \in Status, whole' \in BOOLEAN,
         cpc' = "items" => query' <= NQuery
  PROVE  JiraInv' /\ CaseInv' /\ TasksGrow
<1>1. JiraInv' /\ TasksGrow
  BY JiraAlone
<1>2. UNCHANGED <<items, rows, row, listed, today, done, tasks>>
  BY DEF portal, sheet, jira
<1>3. row = 1 /\ ~done /\ done \in BOOLEAN /\ today \in {"none", "named", "made"} /\ listed \in 0 .. Len(tasks)
  BY DEF CaseInv
<1> QED
  BY <1>1, <1>2, <1>3 DEF CaseInv

(* Queries are made one after the other.                                   *)
LEMMA QueriesKeep ==
  ASSUME JiraInv, CaseInv, UNCHANGED tool, tool = "case",
         ListLaunches \/ QueriesDone \/ NextQuery \/ EmptyLaunch \/ LaunchFails
  PROVE  JiraInv' /\ CaseInv' /\ TasksGrow
<1>0. /\ query \in 1 .. NQuery + 1 /\ cpage \in Nat \ {0} /\ todo \in Seq(CLaunch)
      /\ cases \in Seq(Subject) /\ IsInjective(cases)
      /\ DOMAIN got \subseteq Subject \X CLaunch /\ IsFiniteSet(DOMAIN got)
      /\ \A k \in DOMAIN got : got[k] \in Status
      /\ whole \in BOOLEAN /\ NQuery \in Nat /\ faults \in Nat
      /\ cpc = "items" => query <= NQuery
  BY QueryFacts DEF CaseInv, JiraInv
<1>1. CASE ListLaunches
  <2>1. /\ cpc = "list" /\ query <= NQuery
        /\ \/ todo' = LaunchesIn[query] /\ cpc' = "items" /\ UNCHANGED <<query, whole>>
           \/ query' = query + 1 /\ whole' = FALSE /\ UNCHANGED <<todo, cpc>>
        /\ UNCHANGED <<cpage, cases, got>> /\ UNCHANGED <<portal, sheet, today, done, jira>>
    BY <1>1 DEF ListLaunches
  <2>2. faults' \in Nat
    BY <1>1, CallCounts DEF ListLaunches, JiraInv
  <2>3. todo' \in Seq(CLaunch) /\ query' \in 1 .. NQuery + 1 /\ cpc' \in {"list", "items"}
        /\ (cpc' = "items" => query' <= NQuery)
    BY <1>0, <2>1, QueryFacts
  <2>4. whole' \in BOOLEAN
    BY <1>0, <2>1, Zenon
  <2>5. IsInjective(cases') /\ IsFiniteSet(DOMAIN got')
    BY <1>0, <2>1
  <2> QED
    BY <1>0, <2>1, <2>2, <2>3, <2>4, <2>5, ReadingKeeps
<1>2. CASE QueriesDone
  <2>1. /\ cpc = "list" /\ cpc' = "sheet"
        /\ UNCHANGED <<query, cpage, todo, cases, got, whole, faults>>
        /\ UNCHANGED <<portal, sheet, today, done, jira>>
    BY <1>2 DEF QueriesDone, reading
  <2> QED
    BY <1>0, <2>1, ReadingKeeps
<1>3. CASE NextQuery
  <2>1. /\ cpc = "items" /\ cpc' = "list" /\ query' = query + 1
        /\ UNCHANGED <<cpage, todo, cases, got, whole, faults>>
        /\ UNCHANGED <<portal, sheet, today, done, jira>>
    BY <1>3 DEF NextQuery
  <2>2. query' \in 1 .. NQuery + 1
    BY <1>0, <2>1
  <2> QED
    BY <1>0, <2>1, <2>2, ReadingKeeps
<1>4. CASE EmptyLaunch
  <2>1. /\ cpc = "items" /\ cpc' = "list" /\ query' = (IF query = 1 THEN 2 ELSE NQuery + 1)
        /\ todo' = <<>> /\ whole' = FALSE
        /\ UNCHANGED <<cpage, cases, got, faults>>
        /\ UNCHANGED <<portal, sheet, today, done, jira>>
    BY <1>4 DEF EmptyLaunch
  <2>2. query' \in 1 .. NQuery + 1 /\ todo' \in Seq(CLaunch)
    BY <1>0, <2>1
  <2>3. whole' \in BOOLEAN
    BY <2>1, Zenon
  <2> QED
    BY <1>0, <2>1, <2>2, <2>3, ReadingKeeps
<1>5. CASE LaunchFails
  <2>1. /\ cpc = "items" /\ todo # <<>> /\ cpage' = 1 /\ todo' = Tail(todo) /\ whole' = FALSE
        /\ UNCHANGED <<cpc, query, cases, got>>
        /\ UNCHANGED <<portal, sheet, today, done, jira>>
    BY <1>5 DEF LaunchFails
  <2>2. faults' \in Nat
    BY <1>0, <1>5 DEF LaunchFails, Die
  <2>3. todo' \in Seq(CLaunch) /\ cpage' \in Nat \ {0}
    BY <2>1, ListFacts
  <2>4. whole' \in BOOLEAN
    BY <2>1, Zenon
  <2> QED
    BY <1>0, <2>1, <2>2, <2>3, <2>4, ReadingKeeps
<1> QED
  BY <1>1, <1>2, <1>3, <1>4, <1>5

(* A page of a launch is recorded.                                         *)
LEMMA ReadItemsKeeps ==
  ASSUME JiraInv, CaseInv, UNCHANGED tool, tool = "case", ReadItems
  PROVE  JiraInv' /\ CaseInv' /\ TasksGrow
<1> DEFINE S == PageOf(cpage, Len(List), CPageSize)
<1>1. PICK lost \in SUBSET {i \in S : List[i].status = "SYSTEM"} :
        /\ faults' = faults + Cardinality(lost)
        /\ whole' = (whole /\ lost = {})
        /\ got' = Record(S, lost)
        /\ cases' = cases \o NewCases(S)
  BY DEF ReadItems
<1>2. /\ cpc = "items" /\ todo # <<>> /\ cpc' = "items"
      /\ cpage' \in {1, cpage + 1} /\ todo' \in {todo, Tail(todo)}
      /\ UNCHANGED <<query, portal, sheet, today, done, jira>>
  BY DEF ReadItems
<1>3. S \subseteq 1 .. Len(List) /\ Len(List) \in Nat /\ Head(todo) \in CLaunch
  BY <1>2, ListFacts
<1> HIDE DEF S
<1>4. IsFiniteSet(S) /\ IsFiniteSet(lost)
  <2>1. IsFiniteSet(1 .. Len(List))
    BY <1>3, FS_Interval
  <2> QED
    BY <1>3, <2>1, FS_Subset
<1>5. faults' \in Nat
  BY <1>1, <1>4, FS_CardinalityType DEF JiraInv
<1>6. cases' \in Seq(Subject) /\ IsInjective(cases')
  BY <1>1, <1>2, <1>3, NewCasesFacts
<1>7. /\ DOMAIN got' = DOMAIN got \cup Keys(S)
      /\ \A k \in Keys(S) : got'[k] \in Status
      /\ \A k \in DOMAIN got : k \notin Keys(S) => got'[k] = got[k]
      /\ CasesAt(S) \subseteq Subject
  <2>1. S \in SUBSET (1 .. Len(List)) /\ got' = Record(S, lost)
    BY <1>1, <1>3
  <2>2. /\ DOMAIN Record(S, lost) = DOMAIN got \cup Keys(S)
        /\ \A k \in Keys(S) : Record(S, lost)[k] \in Status
        /\ \A k \in DOMAIN got : k \notin Keys(S) => Record(S, lost)[k] = got[k]
        /\ CasesAt(S) \subseteq Subject
    BY <1>2, <2>1, RecordFacts
  <2> QED
    BY <2>1, <2>2, Zenon
<1>8. DOMAIN got' \subseteq Subject \X CLaunch /\ \A k \in DOMAIN got' : got'[k] \in Status
  BY <1>3, <1>7 DEF Keys, CaseInv
<1>9. IsFiniteSet(DOMAIN got')
  <2>1. IsFiniteSet(CasesAt(S))
    <3> DEFINE f == [i \in S |-> List[i].case]
    <3>1. f \in Surjection(S, CasesAt(S))
      BY Zenon DEF Surjection, CasesAt
    <3> QED
      BY <1>4, <3>1, FS_Surjection
  <2>2. IsFiniteSet({Head(todo)})
    BY FS_Singleton
  <2>3. IsFiniteSet(Keys(S))
    BY <2>1, <2>2, FS_Product DEF Keys
  <2> QED
    <3>1. IsFiniteSet(DOMAIN got)
      BY DEF CaseInv
    <3>2. IsFiniteSet((DOMAIN got) \cup Keys(S))
      BY <2>3, <3>1, FS_Union
    <3> QED
      BY <1>7, <3>2
<1>10. cpage' \in Nat \ {0} /\ todo' \in Seq(CLaunch) /\ query' \in 1 .. NQuery + 1 /\ query' <= NQuery
  <2>1. cpage \in Nat \ {0} /\ todo \in Seq(CLaunch) /\ query \in 1 .. NQuery + 1 /\ query <= NQuery
    BY <1>2 DEF CaseInv
  <2>2. Tail(todo) \in Seq(CLaunch)
    BY <1>2, ListFacts
  <2>3. cpage' \in Nat \ {0}
    BY <1>2, <2>1
  <2>4. todo' \in Seq(CLaunch)
    BY <1>2, <2>1, <2>2
  <2> QED
    BY <1>2, <2>1, <2>3, <2>4
<1>11. whole' \in BOOLEAN
  BY <1>1, Zenon
<1> QED
  BY <1>2, <1>5, <1>6, <1>8, <1>9, <1>10, <1>11, ReadingKeeps


(* The rows are written, one for each case.                                *)
LEMMA WriteSheetKeeps ==
  ASSUME JiraInv, CaseInv, UNCHANGED tool, tool = "case", WriteSheet
  PROVE  JiraInv' /\ CaseInv' /\ TasksGrow
<1>1. /\ cpc = "sheet" /\ UNCHANGED <<portal, row, listed, done, jira, tool>>
      /\ UNCHANGED <<query, cpage, todo, cases, got, whole>>
      /\ \/ /\ rows' = Entries(AllRows, {n \in DOMAIN cases : AllRows[n].passed + AllRows[n].failed > 0})
            /\ today' = "made" /\ cpc' = "subtasks"
         \/ today' \in {today, "named", "made"} /\ cpc' = "idle" /\ UNCHANGED rows
  BY DEF WriteSheet, reading
<1>2. faults' \in Nat
  BY CallCounts DEF WriteSheet, JiraInv
<1>3. JiraInv' /\ TasksGrow
  BY <1>1, <1>2, JiraAlone
<1>4. row = 1 /\ ~done
  BY <1>1 DEF CaseInv
<1>5. CASE cpc' = "idle"
  <2>1. UNCHANGED rows
    BY <1>1, <1>5
  <2>2. today' \in {"none", "named", "made"}
    BY <1>1, Zenon DEF CaseInv
  <2> QED
    BY <1>1, <1>3, <1>4, <1>5, <2>1, <2>2 DEF CaseInv, portal, jira
<1>6. CASE cpc' = "subtasks"
  <2>1. rows' = Entries(AllRows, {n \in DOMAIN cases : AllRows[n].passed + AllRows[n].failed > 0})
    BY <1>1, <1>6
  <2>2. rows' \in Seq(CaseRow) /\ \A m, n \in DOMAIN rows' : rows'[m].case = rows'[n].case => m = n
    <3>1. PICK places : rows' = Entries(AllRows, places)
      BY <2>1
    <3> QED
      BY <3>1, RowsFacts
  <2>3. row' \in 1 .. Len(rows') + 1
    BY <1>1, <1>4, <2>2
  <2>4. today' \in {"none", "named", "made"}
    BY <1>1, Zenon DEF CaseInv
  <2> QED
    BY <1>1, <1>3, <1>4, <1>6, <2>2, <2>3, <2>4 DEF CaseInv, portal, jira
<1> QED
  BY <1>1, <1>5, <1>6

(* The sub-tasks are listed once, before the first row.                    *)
LEMMA GetSubtasksKeeps ==
  ASSUME JiraInv, CaseInv, UNCHANGED tool, tool = "case", GetSubtaskList
  PROVE  JiraInv' /\ CaseInv' /\ TasksGrow
<1>1. /\ cpc = "subtasks" /\ cpc' \in {"rows", "idle"} /\ listed' = Len(tasks)
      /\ UNCHANGED <<portal, rows, row, today, done, jira, tool>>
      /\ UNCHANGED <<query, cpage, todo, cases, got, whole>>
  BY DEF GetSubtaskList, reading
<1>2. faults' \in Nat
  BY CallCounts DEF GetSubtaskList, JiraInv
<1>3. JiraInv' /\ TasksGrow
  BY <1>1, <1>2, JiraAlone
<1>4. row = 1 /\ ~done /\ Len(tasks) \in Nat /\ tasks' = tasks
  BY <1>1 DEF CaseInv, JiraInv, jira
<1>5. ListedLongAgo'
  BY <1>1, <1>4 DEF ListedLongAgo
<1>6. RowsTracked'
  <2>1. \A n \in DOMAIN rows : ~(n < 1)
    BY DEF CaseInv
  <2> QED
    BY <1>1, <1>4, <2>1 DEF RowsTracked
<1>7. listed' \in 0 .. Len(tasks')
  BY <1>1, <1>4
<1> QED
  BY <1>1, <1>3, <1>4, <1>5, <1>6, <1>7 DEF CaseInv, portal

(* The rows are about cases.                                               *)
LEMMA RowFacts ==
  ASSUME CaseInv
  PROVE  \A n \in DOMAIN rows : rows[n].case \in Subject
<1>1. rows \in Seq(CaseRow)
  BY Zenon DEF CaseInv
<1>2. \A n \in DOMAIN rows : rows[n] \in CaseRow
  BY <1>1
<1> QED
  BY <1>2 DEF CaseRow

(* What a step that writes no rows and lists nothing has to keep, once the *)
(* rows are gone through.                                                  *)
LEMMA RowStepKeeps ==
  ASSUME CaseInv, JiraInv, TasksGrow, StaysTracked, UNCHANGED tool, tool = "case",
         UNCHANGED <<portal, reading, rows, listed, today>>,
         cpc \in {"rows", "link"}, cpc' \in {"rows", "link"},
         row' \in 1 .. Len(rows) + 1, cpc' = "link" => row' <= Len(rows), done' = done,
         \A n \in DOMAIN rows : (n < row \/ (n = row /\ cpc = "link")) => (n < row' \/ (n = row' /\ cpc' = "link")),
         \A n \in DOMAIN rows : /\ n < row' \/ (n = row' /\ cpc' = "link")
                                /\ ~(n < row \/ (n = row /\ cpc = "link"))
                                /\ Low(rows[n])
                                => Tracked(rows[n].case)',
         \A i \in Len(tasks) + 1 .. Len(tasks') : \E n \in DOMAIN rows :
           (n < row' \/ (n = row' /\ cpc' = "link")) /\ tasks'[i].subject = rows[n].case
  PROVE  CaseInv'
<1>1. /\ ~done /\ ListedLongAgo /\ RowsTracked /\ listed \in 0 .. Len(tasks) /\ rows \in Seq(CaseRow)
      /\ Len(tasks) \in Nat /\ Len(tasks') \in Nat /\ Len(tasks) <= Len(tasks')
      /\ \A i \in 1 .. Len(tasks) : tasks'[i].subject = tasks[i].subject
  <2>1. /\ ~done /\ ListedLongAgo /\ RowsTracked /\ rows \in Seq(CaseRow)
        /\ listed \in 0 .. Len(tasks)
    BY Zenon DEF CaseInv
  <2>2. tasks \in Seq(Task)
    BY DEF JiraInv
  <2>3. /\ tasks' \in Seq(Task) /\ Len(tasks) <= Len(tasks')
        /\ \A i \in 1 .. Len(tasks) : tasks'[i].subject = tasks[i].subject
    BY DEF TasksGrow
  <2> QED
    BY <2>1, <2>2, <2>3, LenProperties
<1>2. \A n \in DOMAIN rows : rows[n].case \in Subject
  BY RowFacts
<1>3. ListedLongAgo'
  <2> SUFFICES ASSUME NEW i \in listed + 1 .. Len(tasks')
               PROVE  \E n \in DOMAIN rows : /\ n < row' \/ (n = row' /\ cpc' = "link")
                                             /\ tasks'[i].subject = rows[n].case
    BY DEF ListedLongAgo
  <2>1. CASE i \in Len(tasks) + 1 .. Len(tasks')
    BY <2>1
  <2>2. CASE i \in listed + 1 .. Len(tasks)
    <3>1. PICK n \in DOMAIN rows : /\ n < row \/ (n = row /\ cpc = "link")
                                   /\ tasks[i].subject = rows[n].case
      BY <1>1, <2>2 DEF ListedLongAgo
    <3>2. tasks'[i].subject = tasks[i].subject
      BY <1>1, <2>2
    <3> QED
      BY <3>1, <3>2
  <2> QED
    BY <1>1, <2>1, <2>2
<1>4. RowsTracked'
  <2> SUFFICES ASSUME NEW n \in DOMAIN rows, n < row' \/ (n = row' /\ cpc' = "link"), Low(rows[n])
               PROVE  Tracked(rows[n].case)'
    BY DEF RowsTracked, Low
  <2>1. PICK s \in Subject : s = rows[n].case
    BY <1>2
  <2>2. CASE n < row \/ (n = row /\ cpc = "link")
    <3>1. Tracked(s)'
      BY <1>1, <2>1, <2>2 DEF RowsTracked, StaysTracked
    <3>2. s = rows[n].case'
      BY <2>1
    <3> QED
      BY <3>1, <3>2 DEF Tracked
  <2> QED
    BY <2>2
<1>5. listed \in 0 .. Len(tasks')
  BY <1>1
<1> QED
  BY <1>1, <1>3, <1>4, <1>5 DEF CaseInv, portal, reading

(* A step that ends a run before its rows are through claims nothing.      *)
LEMMA IdleKeeps ==
  ASSUME CaseInv, JiraInv, TasksGrow, UNCHANGED tool, tool = "case",
         UNCHANGED <<portal, reading, rows, listed, today, done>>,
         cpc # "idle", cpc' = "idle", row' \in 1 .. Len(rows) + 1
  PROVE  CaseInv'
<1>1. ~done /\ listed \in 0 .. Len(tasks)
  BY Zenon DEF CaseInv
<1>2. listed \in 0 .. Len(tasks')
  <2>1. tasks \in Seq(Task) /\ tasks' \in Seq(Task) /\ Len(tasks) <= Len(tasks')
    BY DEF JiraInv, TasksGrow
  <2> QED
    BY <1>1, <2>1, LenProperties
<1> QED
  BY <1>1, <1>2 DEF CaseInv, portal, reading

(* A row that is not unstable is passed over.                              *)
LEMMA SkipRowKeeps ==
  ASSUME JiraInv, CaseInv, UNCHANGED tool, tool = "case", SkipRow
  PROVE  JiraInv' /\ CaseInv' /\ TasksGrow
<1>1. /\ cpc = "rows" /\ row <= Len(rows) /\ ~Low(rows[row]) /\ row' = row + 1 /\ cpc' = "rows"
      /\ UNCHANGED <<portal, reading, rows, listed, today, done>> /\ UNCHANGED jira /\ faults' \in Nat
  BY DEF SkipRow, JiraInv
<1>2. JiraInv' /\ TasksGrow /\ StaysTracked
  BY <1>1, JiraAlone
<1>3. rows \in Seq(CaseRow) /\ row \in 1 .. Len(rows) + 1
  BY Zenon DEF CaseInv
<1>4. Len(rows) \in Nat /\ row \in 1 .. Len(rows) /\ row' \in 1 .. Len(rows) + 1 /\ DOMAIN rows = 1 .. Len(rows)
  BY <1>1, <1>3
<1>5. \A n \in DOMAIN rows : n < row' <=> n < row \/ n = row
  BY <1>1, <1>4
<1>6. Len(tasks') = Len(tasks) /\ Len(tasks) \in Nat
  BY <1>1 DEF jira, JiraInv
<1>7. \A i \in Len(tasks) + 1 .. Len(tasks') : FALSE
  BY <1>6
<1> QED
  BY <1>1, <1>2, <1>4, <1>5, <1>7, RowStepKeeps

(* What the link of a row does not change.                                 *)
LEMMA LinkTaskKeeps ==
  ASSUME JiraInv, CaseInv, UNCHANGED tool, tool = "case", LinkTask
  PROVE  JiraInv' /\ CaseInv' /\ TasksGrow
<1>1. /\ cpc = "link" /\ row' = row + 1 /\ cpc' \in {"rows", "idle"}
      /\ UNCHANGED <<portal, reading, rows, listed, today, done>> /\ UNCHANGED jira
  BY DEF LinkTask
<1>2. faults' \in Nat
  BY CallCounts DEF LinkTask, JiraInv
<1>3. JiraInv' /\ TasksGrow /\ StaysTracked
  BY <1>1, <1>2, JiraAlone
<1>4. rows \in Seq(CaseRow) /\ row \in 1 .. Len(rows) + 1 /\ row <= Len(rows)
  BY <1>1, Zenon DEF CaseInv
<1>5. Len(rows) \in Nat /\ row' \in 1 .. Len(rows) + 1 /\ DOMAIN rows = 1 .. Len(rows)
  BY <1>1, <1>4
<1>6. CASE cpc' = "idle"
  BY <1>1, <1>3, <1>5, <1>6, IdleKeeps
<1>7. CASE cpc' = "rows"
  <2>1. \A n \in DOMAIN rows : n < row' <=> n < row \/ n = row
    BY <1>1, <1>4, <1>5
  <2>2. Len(tasks') = Len(tasks) /\ Len(tasks) \in Nat
    BY <1>1 DEF jira, JiraInv
  <2>3. \A i \in Len(tasks) + 1 .. Len(tasks') : FALSE
    BY <2>2
  <2> QED
    BY <1>1, <1>3, <1>5, <1>7, <2>1, <2>3, RowStepKeeps
<1> QED
  BY <1>1, <1>6, <1>7

(* The run ends with all rows behind it.                                   *)
LEMMA RowsDoneKeeps ==
  ASSUME JiraInv, CaseInv, UNCHANGED tool, tool = "case", RowsDone
  PROVE  JiraInv' /\ CaseInv' /\ TasksGrow
<1>1. /\ cpc = "rows" /\ row > Len(rows) /\ cpc' = "idle" /\ done' = TRUE
      /\ UNCHANGED <<portal, reading, sheet, today, jira, faults>>
  BY DEF RowsDone
<1>2. JiraInv' /\ TasksGrow /\ StaysTracked
  BY <1>1, JiraAlone DEF JiraInv
<1>3. rows \in Seq(CaseRow) /\ row \in 1 .. Len(rows) + 1 /\ RowsTracked
  BY <1>1, Zenon DEF CaseInv
<1>4. \A n \in DOMAIN rows : n < row
  BY <1>1, <1>3
<1>5. UNCHANGED <<rows, tasks, closed>>
  BY <1>1 DEF sheet, jira
<1>6. UnstableTracked'
  BY <1>3, <1>4, <1>5 DEF RowsTracked, UnstableTracked, Low, Tracked
<1>7. done' \in BOOLEAN
  BY <1>1, Zenon
<1> QED
  BY <1>1, <1>2, <1>6, <1>7 DEF CaseInv, portal, reading, sheet, jira

(* A run that dies.                                                        *)
LEMMA CaseDiesKeeps ==
  ASSUME JiraInv, CaseInv, UNCHANGED tool, tool = "case", CaseDies
  PROVE  JiraInv' /\ CaseInv' /\ TasksGrow
<1>1. /\ cpc # "idle" /\ cpc' = "idle"
      /\ UNCHANGED <<portal, reading, rows, listed, today, done>> /\ UNCHANGED jira /\ row' = row
  BY DEF CaseDies, sheet
<1>2. faults' \in Nat
  BY DEF CaseDies, Die, JiraInv
<1>3. JiraInv' /\ TasksGrow
  BY <1>1, <1>2, JiraAlone
<1>4. row' \in 1 .. Len(rows) + 1
  BY <1>1, Zenon DEF CaseInv
<1> QED
  BY <1>1, <1>3, <1>4, IdleKeeps

(* A new day has no sheet.                                                 *)
LEMMA NextDayKeeps ==
  ASSUME JiraInv, CaseInv, UNCHANGED tool, tool = "case", NextDay
  PROVE  JiraInv' /\ CaseInv' /\ TasksGrow
<1>1. /\ today' = "none"
      /\ UNCHANGED <<items, cpc, query, cpage, todo, cases, got, whole, rows, row, listed, done, faults, tasks, closed>>
  BY DEF NextDay, portal, reading, sheet, jira
<1>2. JiraInv' /\ TasksGrow
  BY <1>1, JiraAlone DEF JiraInv, jira
<1>3. today' \in {"none", "named", "made"}
  BY <1>1, Zenon
<1>4. ListedLongAgo => ListedLongAgo'
  BY <1>1 DEF ListedLongAgo
<1>5. (RowsTracked => RowsTracked') /\ (UnstableTracked => UnstableTracked')
  BY <1>1 DEF RowsTracked, UnstableTracked, Low, Tracked
<1> QED
  BY <1>1, <1>2, <1>3, <1>4, <1>5 DEF CaseInv

(* The sub-task of the row at hand: none but that of an earlier row has    *)
(* come since the listing, so the case has none behind those listed.       *)
LEMMA CreateTaskKeeps ==
  ASSUME JiraInv, CaseInv, UNCHANGED tool, tool = "case", CreateTask
  PROVE  JiraInv' /\ CaseInv' /\ TasksGrow
<1>1. /\ cpc = "rows" /\ row <= Len(rows)
      /\ UNCHANGED <<portal, reading, rows, listed, today, done>> /\ UNCHANGED closed /\ row' = row
  BY DEF CreateTask, sheet
<1>2. /\ rows \in Seq(CaseRow) /\ row \in 1 .. Len(rows) + 1 /\ ListedLongAgo /\ listed \in 0 .. Len(tasks)
      /\ \A m, n \in DOMAIN rows : rows[m].case = rows[n].case => m = n
  BY <1>1, Zenon DEF CaseInv
<1>3. row \in 1 .. Len(rows) /\ Len(rows) \in Nat /\ DOMAIN rows = 1 .. Len(rows) /\ row' \in 1 .. Len(rows) + 1
  BY <1>1, <1>2
<1>4. PICK s \in Subject : s = rows[row].case
  BY <1>3, RowFacts
<1>5. CASE s \notin KnownAuthor
  <2>1. cpc' = "idle" /\ UNCHANGED tasks /\ faults' = faults
    BY <1>4, <1>5 DEF CreateTask
  <2>2. JiraInv' /\ TasksGrow
    BY <1>1, <2>1, JiraAlone DEF jira, JiraInv
  <2> QED
    BY <1>1, <1>3, <2>1, <2>2, IdleKeeps
<1>6. CASE s \in KnownAuthor
  <2>1. PICK a : Count(a) /\ CreateSubTask(s, listed, a) /\ cpc' = IF a = "ok" THEN "link" ELSE "idle"
    BY <1>4, <1>6 DEF CreateTask
  <2>2. faults' \in Nat
    BY <2>1, CallCounts DEF JiraInv
  <2>3. \A i \in listed + 1 .. Len(tasks) : tasks[i].subject # s
    <3> SUFFICES ASSUME NEW i \in listed + 1 .. Len(tasks), tasks[i].subject = s
                 PROVE  FALSE
      OBVIOUS
    <3>1. PICK n \in DOMAIN rows : n < row /\ rows[n].case = s
      BY <1>1, <1>2 DEF ListedLongAgo
    <3> QED
      BY <1>2, <1>3, <1>4, <3>1
  <2>4. JiraInv'
    BY <1>1, <1>2, <2>1, <2>2, <2>3, CreateOnce
  <2>5. /\ TasksGrow /\ StaysTracked /\ (a # "error" => Tracked(s)')
        /\ \A i \in Len(tasks) + 1 .. Len(tasks') : tasks'[i].subject = s
    BY <1>1, <1>2, <2>1, CreateFacts
  <2>6. CASE a = "ok"
    <3>1. cpc' = "link"
      BY <2>1, <2>6
    <3>2. \A n : n = row => Tracked(rows[n].case)'
      <4> SUFFICES ASSUME NEW n, n = row
                   PROVE  Tracked(rows[n].case)'
        OBVIOUS
      <4>1. s = rows[n].case'
        BY <1>1, <1>4
      <4> QED
        BY <2>5, <2>6, <4>1 DEF Tracked
    <3>3. \A i \in Len(tasks) + 1 .. Len(tasks') : \E n \in DOMAIN rows :
            (n < row' \/ (n = row' /\ cpc' = "link")) /\ tasks'[i].subject = rows[n].case
      BY <1>1, <1>3, <1>4, <2>5, <3>1
    <3> QED
      BY <1>1, <1>3, <2>4, <2>5, <3>1, <3>2, <3>3, RowStepKeeps
  <2>7. CASE a # "ok"
    <3>1. cpc' = "idle"
      BY <2>1, <2>7
    <3> QED
      BY <1>1, <1>3, <2>4, <2>5, <3>1, IdleKeeps
  <2> QED
    BY <2>6, <2>7
<1> QED
  BY <1>5, <1>6

(* People close sub-tasks at any time.                                     *)
LEMMA CaseClosesKeeps ==
  ASSUME JiraInv, CaseInv, UNCHANGED tool, tool = "case", CaseCloses
  PROVE  JiraInv' /\ CaseInv' /\ TasksGrow
<1>1. PICK j \in DOMAIN tasks : CloseTask(j)
  BY DEF CaseCloses
<1>2. UNCHANGED <<items, cpc, query, cpage, todo, cases, got, whole, rows, row, listed, today, done, faults>>
  BY DEF CaseCloses, portal, reading, sheet
<1>3. TasksGrow /\ StaysTracked /\ Len(tasks') = Len(tasks)
  BY <1>1, CloseFacts
<1>4. JiraInv'
  BY <1>1, <1>2, CloseKeeps DEF JiraInv
<1>5. \A n \in DOMAIN rows : Tracked(rows[n].case) => Tracked(rows[n].case)'
  <2> SUFFICES ASSUME NEW n \in DOMAIN rows, Tracked(rows[n].case)
               PROVE  Tracked(rows[n].case)'
    OBVIOUS
  <2>2. PICK s \in Subject : s = rows[n].case
    BY RowFacts
  <2>3. Tracked(s)'
    BY <1>3, <2>2 DEF StaysTracked
  <2>4. s = rows[n].case'
    BY <1>2, <2>2
  <2> QED
    BY <2>3, <2>4 DEF Tracked
<1>6. RowsTracked => RowsTracked'
  BY <1>2, <1>5 DEF RowsTracked, Low
<1>7. UnstableTracked => UnstableTracked'
  BY <1>2, <1>5 DEF UnstableTracked
<1>8. ListedLongAgo => ListedLongAgo'
  <2>1. listed \in Nat /\ Len(tasks) \in Nat
    BY DEF CaseInv, JiraInv
  <2>2. \A i \in listed + 1 .. Len(tasks) : tasks'[i].subject = tasks[i].subject
    BY <1>3, <2>1 DEF TasksGrow
  <2> QED
    BY <1>2, <1>3, <2>2 DEF ListedLongAgo
<1> QED
  BY <1>2, <1>3, <1>4, <1>6, <1>7, <1>8 DEF CaseInv

(* Every step of the tracker of unstable cases keeps its account.          *)
LEMMA CaseKeeps ==
  ASSUME JiraInv, CaseInv, Case(CaseNext)
  PROVE  JiraInv' /\ CaseInv' /\ TasksGrow
<1>1. tool = "case" /\ UNCHANGED tool /\ CaseNext
  BY DEF Case
<1> QED
  BY <1>1, CollectKeeps, QueriesKeep, ReadItemsKeeps, WriteSheetKeeps, GetSubtasksKeeps, SkipRowKeeps,
     CreateTaskKeeps, LinkTaskKeeps, RowsDoneKeeps, CaseDiesKeeps, NextDayKeeps, CaseClosesKeeps
     DEF CaseNext, CaseStep

-----------------------------------------------------------------------------
(* The scripts together.                                                   *)

(* Only one script runs; the others, which have not started, lose nothing. *)
IInv ==
  /\ tool \in {"case", "profile", "build", "bugs"}
  /\ tool # "build" => endNum = 0 /\ \A b \in Build : excuse[b] = "none"
  /\ JiraInv /\ CaseInv /\ LowInv /\ SheetInv /\ BugsInv

(* The scripts that do not run are left as they are.                       *)
LEMMA CaseLeft ==
  ASSUME CaseInv, JiraInv, TasksGrow, tool # "case", UNCHANGED tool, UNCHANGED CaseOnly
  PROVE  CaseInv'
<1>1. cpc = "idle" /\ ~done /\ listed \in 0 .. Len(tasks)
  BY DEF CaseInv
<1>2. listed \in 0 .. Len(tasks')
  <2>1. tasks \in Seq(Task) /\ tasks' \in Seq(Task) /\ Len(tasks) <= Len(tasks')
    BY DEF JiraInv, TasksGrow
  <2> QED
    BY <1>1, <2>1, LenProperties
<1>3. UNCHANGED <<items, cpc, query, cpage, todo, cases, got, whole, rows, row, listed, today, done>>
  BY DEF CaseOnly, portal, reading, sheet
<1> QED
  BY <1>1, <1>2, <1>3 DEF CaseInv

LEMMA LowLeft ==
  ASSUME LowInv, tool # "profile", UNCHANGED tool, UNCHANGED LowOnly
  PROVE  LowInv'
<1>1. lpc = "idle" /\ ~ldone /\ lseen = NotListed
  BY DEF LowInv
<1>2. UNCHANGED <<profiles, lpc, lnum, snum, lseen, lwhole, ldone>>
  BY DEF LowOnly
<1> QED
  BY <1>1, <1>2 DEF LowInv

LEMMA SheetSame ==
  ASSUME SheetInv, UNCHANGED gvars,
         faults' = faults \/ (endNum # Erased /\ \A b \in Build : excuse[b] # "failed")
  PROVE  SheetInv'
<1>1. UNCHANGED <<endNum, gpc, build, gtodo, gsheet, dated, finished, excuse>>
  BY DEF gvars
<1>2. BuildProgress => BuildProgress'
  BY <1>1 DEF BuildProgress, Past, Written
<1>5. Clean' = Clean /\ SavedBuild' = SavedBuild
  BY <1>1 DEF Clean, SavedBuild
<1>3. LinkedToOwnBuild' /\ SavedBuildWritten'
  BY <1>1, <1>5, SavedKept DEF SheetInv
<1>4. LostOnlyOverNothing'
  BY <1>1 DEF LostOnlyOverNothing, SheetInv
<1> QED
  BY <1>1, <1>2, <1>3, <1>4, <1>5 DEF SheetInv

LEMMA CaseSame ==
  ASSUME CaseInv, UNCHANGED tool, UNCHANGED CaseOnly, UNCHANGED jira
  PROVE  CaseInv'
<1>1. /\ UNCHANGED <<items, cpc, query, cpage, todo, cases, got, whole, rows, row, listed, today, done>>
      /\ UNCHANGED <<tasks, closed>>
  BY DEF CaseOnly, portal, reading, sheet, jira
<1>2. (ListedLongAgo => ListedLongAgo') /\ (RowsTracked => RowsTracked') /\ (UnstableTracked => UnstableTracked')
  BY <1>1 DEF ListedLongAgo, RowsTracked, UnstableTracked, Low, Tracked
<1> QED
  BY <1>1, <1>2 DEF CaseInv

LEMMA LowSame ==
  ASSUME LowInv, UNCHANGED tool, UNCHANGED LowOnly, UNCHANGED jira
  PROVE  LowInv'
<1>1. UNCHANGED <<profiles, lpc, lnum, snum, lseen, lwhole, ldone>> /\ UNCHANGED <<tasks, closed>>
  BY DEF LowOnly, jira
<1>2. /\ LowBefore => LowBefore'
      /\ LowAll => LowAll'
      /\ OnlyLowTracked => OnlyLowTracked'
  BY <1>1 DEF LowBefore, LowAll, OnlyLowTracked, IsRead, LowAt, Tracked, Worth, Ran, AtMost, Below
<1>3. /\ IsRead(lnum) => IsRead(lnum)'
      /\ LowAt(lnum, snum) => LowAt(lnum, snum)'
      /\ Launch' = Launch
  BY <1>1 DEF IsRead, LowAt, Launch, Worth, Ran, AtMost, Below
<1> QED
  BY <1>1, <1>2, <1>3 DEF LowInv

LEMMA BugsLeft ==
  ASSUME BugsInv, UNCHANGED bvars
  PROVE  BugsInv'
BY DEF BugsInv, bvars, OneRowPerBug

(* Every step counts its fault.                                            *)
LEMMA FaultsCount ==
  ASSUME faults \in Nat, SheetNext \/ BugsNext
  PROVE  faults' \in Nat
<1>1. CASE SheetNext
  BY <1>1, CallCounts DEF SheetNext, SheetStep, StartScript, ReadBuild, NoBuild, PassOverRunning, InsertRow,
     LinkRow, OpenConfig, SaveConfig, ResultsFail, ScriptDies, BuildFinishes, Die
<1>2. CASE BugsNext
  <2>1. CASE GetIssues \/ ReadSheet
    BY <2>1, CallCounts DEF GetIssues, ReadSheet
  <2>2. CASE UpdateRow
    BY <2>2, CallCounts DEF UpdateRow
  <2>3. CASE InsertBug
    BY <2>3, CallCounts DEF InsertBug
  <2>4. CASE TitleBug
    BY <2>4, CallCounts DEF TitleBug
  <2>5. CASE RowsUpdated \/ BugsDie
    BY <2>5 DEF RowsUpdated, BugsDie, Die
  <2>6. \A b \in Bug : BugChanges(b) => faults' = faults
    BY DEF BugChanges
  <2> QED
    BY <1>2, <2>1, <2>2, <2>3, <2>4, <2>5, <2>6 DEF BugsNext, BugsStep
<1> QED
  BY <1>1, <1>2

(* At the start.                                                           *)
LEMMA InitHolds ==
  ASSUME Init
  PROVE  IInv
<1>1. JiraInv
  <2>1. tasks = <<>> /\ closed = [now |-> 0, all |-> 0] /\ faults = 0
    BY DEF Init, LowInit, TasksInit
  <2>2. <<>> \in Seq(Task) /\ DOMAIN tasks = {}
    BY <2>1
  <2> QED
    BY <2>1, <2>2 DEF JiraInv, OneTaskPerSubject
<1>2. CaseInv
  <2>1. /\ items \in Portals /\ cpc = "idle" /\ query = 1 /\ cpage = 1 /\ todo = <<>> /\ cases = <<>>
        /\ got = <<>> /\ rows = <<>> /\ row = 1 /\ listed = 0 /\ today = "none" /\ whole = TRUE /\ done = FALSE
    BY DEF Init, CaseInit
  <2>2. today \in {"none", "named", "made"} /\ whole \in BOOLEAN /\ done \in BOOLEAN /\ ~done
    BY <2>1, Zenon
  <2>3. DOMAIN got = {} /\ IsFiniteSet(DOMAIN got) /\ IsInjective(cases) /\ DOMAIN rows = {}
    <3>1. DOMAIN got = {} /\ DOMAIN cases = {} /\ DOMAIN rows = {}
      BY <2>1
    <3> QED
      BY <3>1, FS_EmptySet DEF IsInjective
  <2>4. query \in 1 .. NQuery + 1 /\ row \in 1 .. Len(rows) + 1 /\ listed \in 0 .. Len(tasks) /\ cpage \in Nat \ {0}
    BY <1>1, <2>1, QueryFacts DEF JiraInv
  <2>5. todo \in Seq(CLaunch) /\ cases \in Seq(Subject) /\ rows \in Seq(CaseRow)
    BY <2>1
  <2> QED
    BY <2>1, <2>2, <2>3, <2>4, <2>5 DEF CaseInv
<1>3. LowInv
  <2>1. /\ profiles \in Profiles /\ lpc = "idle" /\ lnum = 1 /\ snum = 1 /\ lseen = NotListed
        /\ lwhole = TRUE /\ ldone = FALSE /\ tasks = <<>>
    BY DEF Init, LowInit, TasksInit
  <2>2. lwhole \in BOOLEAN /\ ldone \in BOOLEAN /\ ~ldone
    BY <2>1, Zenon
  <2>3. OnlyLowTracked
    BY <2>1 DEF OnlyLowTracked
  <2>4. lnum \in 1 .. Len(profiles) + 1 /\ snum \in Nat \ {0}
    BY <2>1, LaunchFacts
  <2> QED
    BY <2>1, <2>2, <2>3, <2>4 DEF LowInv
<1>4. SheetInv
  <2>1. /\ endNum = 0 /\ gpc = "stopped" /\ build = 0 /\ gtodo = <<>> /\ gsheet = <<>>
        /\ dated = FALSE /\ finished = 0 /\ excuse = [b \in Build |-> "none"]
    BY DEF Init, SheetInit
  <2>2. dated \in BOOLEAN
    BY <2>1, Zenon
  <2>3. LinkedToOwnBuild /\ SavedBuildWritten /\ LostOnlyOverNothing
    <3>1. SavedBuild = {}
      BY <2>1, BuildFacts DEF SavedBuild
    <3> QED
      BY <2>1, <3>1 DEF LinkedToOwnBuild, SavedBuildWritten, LostOnlyOverNothing, Erased
  <2>4. gtodo \in Seq(BuildCase) /\ gsheet \in Seq(SheetRow) /\ finished \in 0 .. Len(BuildCases)
    BY <2>1, BuildFacts
  <2> QED
    BY <2>1, <2>2, <2>3, <2>4 DEF SheetInv
<1>5. BugsInv
  <2>1. /\ bug = [b \in Bug |-> 0] /\ brows = <<>> /\ bpc = "idle" /\ issues = <<>> /\ values = <<>>
        /\ bnum = 1 /\ bchanges = 0
    BY DEF Init, BugsInit
  <2>2. bug \in [Bug -> 0 .. MaxBugChanges] /\ DOMAIN issues = {} /\ DOMAIN brows = {}
    BY <2>1, BugAssumption
  <2>3. brows \in Seq(BugRow) /\ values \in Seq(BugRow) /\ bnum \in 1 .. Len(values) + 1
    BY <2>1
  <2> QED
    BY <2>1, <2>2, <2>3 DEF BugsInv, OneRowPerBug
<1> QED
  BY <1>1, <1>2, <1>3, <1>4, <1>5 DEF IInv, Init, SheetInit

(* And at every step.                                                      *)
LEMMA StepKeeps ==
  ASSUME IInv, [Next]_vars
  PROVE  IInv'
<1> USE DEF IInv
<1>1. CASE Case(CaseNext)
  <2>1. tool = "case" /\ UNCHANGED tool /\ UNCHANGED LowOnly /\ UNCHANGED gvars /\ UNCHANGED bvars /\ endNum' = endNum /\ excuse' = excuse
    BY <1>1 DEF Case, gvars
  <2>2. JiraInv' /\ CaseInv'
    BY <1>1, CaseKeeps
  <2>3. LowInv' /\ BugsInv'
    BY <2>1, LowLeft, BugsLeft
  <2>4. SheetInv'
    BY <2>1, SheetSame DEF Erased
  <2> QED
    BY <2>1, <2>2, <2>3, <2>4
<1>2. CASE Profile(LowNext)
  <2>1. tool = "profile" /\ UNCHANGED tool /\ UNCHANGED CaseOnly /\ UNCHANGED gvars /\ UNCHANGED bvars /\ endNum' = endNum /\ excuse' = excuse
    BY <1>2 DEF Profile, gvars
  <2>2. JiraInv' /\ LowInv' /\ TasksGrow
    BY <1>2, LowKeeps
  <2>3. CaseInv' /\ BugsInv'
    BY <2>1, <2>2, CaseLeft, BugsLeft
  <2>4. SheetInv'
    BY <2>1, SheetSame DEF Erased
  <2> QED
    BY <2>1, <2>2, <2>3, <2>4
<1>3. CASE Sheet(SheetNext)
  <2>1. /\ tool = "build" /\ UNCHANGED tool /\ UNCHANGED CaseOnly /\ UNCHANGED LowOnly /\ UNCHANGED bvars
        /\ UNCHANGED jira /\ SheetNext
    BY <1>3 DEF Sheet, cvars, CaseOnly, reading, sheet
  <2>2. faults \in Nat /\ faults' \in Nat
    BY <2>1, FaultsCount DEF JiraInv
  <2>3. JiraInv' /\ TasksGrow
    BY <2>1, <2>2, JiraAlone
  <2>4. CaseInv' /\ LowInv' /\ BugsInv'
    BY <2>1, <2>3, CaseLeft, LowLeft, BugsLeft
  <2>5. SheetInv'
    BY <2>1, <2>2, SheetKeeps
  <2> QED
    BY <2>1, <2>3, <2>4, <2>5
<1>4. CASE Bugs(BugsNext)
  <2>1. /\ tool = "bugs" /\ UNCHANGED tool /\ UNCHANGED CaseOnly /\ UNCHANGED LowOnly /\ UNCHANGED gvars
        /\ UNCHANGED jira /\ BugsNext /\ endNum' = endNum /\ excuse' = excuse
    BY <1>4 DEF Bugs, cvars, CaseOnly, gvars, reading, sheet
  <2>2. faults' \in Nat
    BY <2>1, FaultsCount DEF JiraInv
  <2>3. JiraInv' /\ TasksGrow
    BY <2>1, <2>2, JiraAlone
  <2>4. CaseInv' /\ LowInv' /\ BugsInv'
    BY <2>1, <2>3, CaseLeft, LowLeft, BugsKeep
  <2>5. SheetInv'
    BY <2>1, SheetSame DEF Erased
  <2> QED
    BY <2>1, <2>3, <2>4, <2>5
<1>5. CASE UNCHANGED vars
  <2>1. /\ UNCHANGED tool /\ UNCHANGED CaseOnly /\ UNCHANGED LowOnly /\ UNCHANGED gvars /\ UNCHANGED bvars
        /\ UNCHANGED jira /\ faults' = faults /\ endNum' = endNum /\ excuse' = excuse /\ tasks' = tasks /\ closed' = closed
    BY <1>5 DEF vars, cvars, CaseOnly, reading, sheet, jira, gvars
  <2>2. JiraInv' /\ TasksGrow
    BY <2>1, JiraAlone DEF JiraInv
  <2>3. CaseInv'
    BY <2>1, CaseSame
  <2>4. LowInv'
    BY <2>1, LowSame
  <2>5. SheetInv'
    BY <2>1, SheetSame
  <2>6. BugsInv'
    BY <2>1, BugsLeft
  <2> QED
    BY <2>1, <2>2, <2>3, <2>4, <2>5, <2>6
<1> QED
  BY <1>1, <1>2, <1>3, <1>4, <1>5 DEF Next

(* So the account of every script holds in every state.                    *)
THEOREM Accounts == Spec => []IInv
<1>1. Init => IInv
  BY InitHolds
<1>2. IInv /\ [Next]_vars => IInv'
  BY StepKeeps
<1> QED
  BY <1>1, <1>2, PTL DEF Spec

-----------------------------------------------------------------------------
(* The rows of the sheet are what the launches hold.                       *)

(* What a launch holds of a case is recorded.                              *)
InGot(launch) ==
  \A case \in Subject : Final(case, launch) # "none" =>
    /\ <<case, launch>> \in DOMAIN got
    /\ got[<<case, launch>>] = Final(case, launch)

(* The launches of the queries from the n-th on.                           *)
Later(n) == UNION {Range(LaunchesIn[q]) : q \in n .. NQuery}

(* Of the launch at hand the first pages are recorded.                     *)
PartRead ==
  todo # <<>> =>
    \A i \in DOMAIN List :
      /\ i <= (cpage - 1) * CPageSize
      /\ \A j \in DOMAIN List : j <= (cpage - 1) * CPageSize /\ List[j].case = List[i].case => j <= i
      => /\ <<List[i].case, Head(todo)>> \in DOMAIN got
         /\ got[<<List[i].case, Head(todo)>>] = List[i].status

(* Nothing is recorded but what a launch holds, of cases that were met; a  *)
(* run that passed over nothing has recorded every launch it is past.      *)
ReadInv ==
  /\ \A k \in DOMAIN got : \E i \in DOMAIN items[k[2]] : items[k[2]][i].case = k[1]
  /\ Range(cases) = {k[1] : k \in DOMAIN got}
  /\ whole /\ cpc = "list" => cpage = 1 /\ \A launch \in CLaunch \ Later(query) : InGot(launch)
  /\ whole /\ cpc = "items" =>
       /\ todo = <<>> => cpage = 1
       /\ PartRead
       /\ \A launch \in CLaunch \ (Range(todo) \cup Later(query + 1)) : InGot(launch)
  /\ whole /\ cpc = "sheet" => \A launch \in CLaunch : InGot(launch)
  /\ RowsExact

(* Final is the status of the last item of a case.                         *)
LEMMA FinalFacts ==
  ASSUME CaseInv, NEW c, NEW launch \in CLaunch
  PROVE  /\ \A i \in DOMAIN items[launch] :
              /\ items[launch][i].case = c => Final(c, launch) # "none"
              /\ /\ items[launch][i].case = c
                 /\ \A j \in DOMAIN items[launch] : items[launch][j].case = c => j <= i
                 => Final(c, launch) = items[launch][i].status
         /\ Final(c, launch) # "none" =>
              \E i \in DOMAIN items[launch] :
                /\ items[launch][i].case = c /\ Final(c, launch) = items[launch][i].status
                /\ \A j \in DOMAIN items[launch] : items[launch][j].case = c => j <= i
<1> DEFINE P == {i \in DOMAIN items[launch] : items[launch][i].case = c}
<1>1. items \in [CLaunch -> Seq(CaseItem)]
  BY CaseAssumption DEF CaseInv, CaseItem
<1>2. PICK s \in Seq(CaseItem) : s = items[launch]
  BY <1>1
<1>3. Len(s) \in Nat /\ DOMAIN s = 1 .. Len(s) /\ \A i \in 1 .. Len(s) : s[i] \in CaseItem
  BY <1>2
<1>4. \A i \in DOMAIN items[launch] : items[launch][i].status \in Status /\ items[launch][i].status # "none"
  BY <1>2, <1>3 DEF CaseItem, Status
<1>5. P \subseteq 1 .. Len(s)
  BY <1>2, <1>3
<1>6. Final(c, launch) = IF P = {} THEN "none" ELSE items[launch][Max(P)].status
  BY DEF Final
<1>7. P # {} => Max(P) \in P /\ \A y \in P : y <= Max(P)
  BY <1>3, <1>5, MaxIn
<1>8. \A i \in DOMAIN items[launch] :
        (items[launch][i].case = c /\ \A j \in DOMAIN items[launch] : items[launch][j].case = c => j <= i)
        => i = Max(P)
  <2> SUFFICES ASSUME NEW i \in DOMAIN items[launch], items[launch][i].case = c,
                      \A j \in DOMAIN items[launch] : items[launch][j].case = c => j <= i
               PROVE  i = Max(P)
    OBVIOUS
  <2>1. i \in P
    OBVIOUS
  <2>2. Max(P) \in P /\ i <= Max(P)
    BY <1>7, <2>1
  <2>3. Max(P) <= i /\ Max(P) \in 1 .. Len(s) /\ i \in 1 .. Len(s)
    BY <1>5, <2>1, <2>2
  <2> QED
    BY <2>2, <2>3
<1> QED
  BY <1>4, <1>6, <1>7, <1>8

(* The pages reach to the end of the list.                                 *)
LEMMA PagesReach ==
  ASSUME NEW n \in Nat, NEW size \in Nat \ {0}, NEW k \in Nat, ~(k < PagesOf(n, size))
  PROVE  n <= k * size
<1> DEFINE q == PagesOf(n, size)
<1>1. q \in Int /\ n + size - 1 < q * size + size
  BY Z3 DEF PagesOf
<1>2. q <= k
  BY <1>1
<1> HIDE DEF q
<1>3. q * size <= k * size
  BY <1>1, <1>2, Z3
<1> QED
  BY <1>1, <1>3, Z3

(* What stands in no way of a later reading.                               *)
LEMMA RowsStayExact ==
  ASSUME RowsExact, UNCHANGED <<items, rows>>, whole' => whole,
         cpc' \in {"subtasks", "rows", "link"} => cpc \in {"subtasks", "rows", "link"}
  PROVE  RowsExact'
<1>1. \A c, l : Final(c, l)' = Final(c, l)
  BY DEF Final
<1>2. \A c, s : Times(c, CLaunch, s)' = Times(c, CLaunch, s)
  BY <1>1 DEF Times
<1> QED
  BY <1>2 DEF RowsExact

LEMMA ReadAlone ==
  ASSUME ReadInv, UNCHANGED portal, UNCHANGED reading, UNCHANGED rows,
         \/ cpc' = cpc
         \/ cpc' = "idle"
         \/ cpc \in {"subtasks", "rows", "link"} /\ cpc' \in {"subtasks", "rows", "link"}
  PROVE  ReadInv'
<1>1. UNCHANGED <<items, query, cpage, todo, cases, got, whole, rows>>
  BY DEF portal, reading
<1>2. \A launch : InGot(launch) => InGot(launch)'
  BY <1>1 DEF InGot, Final
<1>3. PartRead => PartRead'
  BY <1>1 DEF PartRead, List
<1>4. RowsExact'
  BY <1>1, RowsStayExact DEF ReadInv
<1>5. Later(query)' = Later(query) /\ Later(query + 1)' = Later(query + 1)
  BY <1>1 DEF Later
<1> QED
  BY <1>1, <1>2, <1>3, <1>4, <1>5 DEF ReadInv

(* The queries and launches ahead.                                         *)
LEMMA LaterFacts ==
  /\ Later(1) = CLaunch
  /\ \A n \in 1 .. NQuery : Later(n) = Range(LaunchesIn[n]) \cup Later(n + 1)
  /\ Later(NQuery + 1) = {}
<1>1. NQuery \in Nat
  BY QueryFacts
<1>2. \A n \in 1 .. NQuery : n .. NQuery = {n} \cup (n + 1 .. NQuery)
  BY <1>1
<1>3. NQuery + 1 .. NQuery = {}
  BY <1>1
<1>4. \A n \in 1 .. NQuery : Later(n) = Range(LaunchesIn[n]) \cup Later(n + 1)
  BY <1>2 DEF Later
<1> QED
  BY <1>3, <1>4 DEF Later, CLaunch

(* A step that passes over something leaves nothing to be said of what was *)
(* read.                                                                   *)
LEMMA NotWhole ==
  ASSUME ReadInv, UNCHANGED <<items, cases, got>>, ~whole'
  PROVE  ReadInv'
BY DEF ReadInv, RowsExact

(* On the first page of a launch nothing of it is to be recorded yet.      *)
LEMMA FirstPage ==
  ASSUME CaseInv', cpage' = 1
  PROVE  PartRead'
<1> SUFFICES ASSUME todo' # <<>>
             PROVE  \A i \in DOMAIN List' : ~(i <= (cpage' - 1) * CPageSize)
  BY DEF PartRead, List
<1>1. CPageSize \in Nat /\ items' \in [CLaunch -> Seq(CaseItem)]
  BY CaseAssumption DEF CaseInv, CaseItem
<1>2. (cpage' - 1) * CPageSize = 0
  BY <1>1
<1>3. Head(todo') \in CLaunch
  BY HeadTailProperties DEF CaseInv
<1>4. PICK s \in Seq(CaseItem) : s = List'
  BY <1>1, <1>3 DEF List
<1> QED
  BY <1>2, <1>4

(* The steps from query to query and to the sheet.                         *)
LEMMA QueriesRead ==
  ASSUME CaseInv, ReadInv, CaseInv',
         CollectResult \/ ListLaunches \/ QueriesDone \/ NextQuery \/ EmptyLaunch \/ LaunchFails
  PROVE  ReadInv'
<1>0. query \in 1 .. NQuery + 1 /\ NQuery \in Nat /\ whole \in BOOLEAN
  BY QueryFacts DEF CaseInv
<1>7. UNCHANGED <<items, got>> => \A launch : InGot(launch) => InGot(launch)'
  BY DEF InGot, Final
<1>1. CASE CollectResult
  <2>1. cpc' = "list" /\ query' = 1 /\ cpage' = 1 /\ cases' = <<>> /\ got' = <<>>
    BY <1>1 DEF CollectResult
  <2>2. DOMAIN got' = {} /\ Range(cases') = {}
    BY <2>1 DEF Range
  <2>3. CLaunch \ Later(query') = {}
    BY <2>1, LaterFacts
  <2>4. CLaunch \ Later(query)' = {}
    BY <2>3 DEF Later
  <2> QED
    BY <2>1, <2>2, <2>4 DEF ReadInv, RowsExact
<1>2. CASE ListLaunches
  <2>1. /\ cpc = "list" /\ query <= NQuery /\ UNCHANGED <<items, cpage, cases, got>>
        /\ \/ todo' = LaunchesIn[query] /\ cpc' = "items" /\ UNCHANGED <<query, whole>>
           \/ whole' = FALSE
    BY <1>2 DEF ListLaunches, portal
  <2>2. CASE ~whole'
    BY <2>1, <2>2, NotWhole
  <2>3. CASE whole'
    <3>1. todo' = LaunchesIn[query] /\ cpc' = "items" /\ query' = query /\ whole
      BY <2>1, <2>3
    <3>2. cpage' = 1 /\ \A launch \in CLaunch \ Later(query) : InGot(launch)
      BY <2>1, <3>1 DEF ReadInv
    <3>3. Later(query) = Range(todo') \cup Later(query' + 1)
      BY <1>0, <2>1, <3>1, LaterFacts
    <3>4. \A launch \in CLaunch \ (Range(todo') \cup Later(query' + 1)) : InGot(launch)'
      BY <1>7, <2>1, <3>2, <3>3
    <3>5. PartRead'
      BY <3>2, FirstPage
    <3> QED
      BY <2>1, <3>1, <3>2, <3>4, <3>5 DEF ReadInv, RowsExact, Range, Later
  <2> QED
    BY <2>2, <2>3
<1>3. CASE QueriesDone
  <2>1. /\ cpc = "list" /\ query > NQuery /\ cpc' = "sheet"
        /\ UNCHANGED <<items, cases, got, whole>>
    BY <1>3 DEF QueriesDone, portal, reading
  <2>2. Later(query) = {}
    BY <1>0, <2>1, LaterFacts
  <2> QED
    BY <1>7, <2>1, <2>2 DEF ReadInv, RowsExact
<1>4. CASE NextQuery
  <2>1. /\ cpc = "items" /\ todo = <<>> /\ cpc' = "list" /\ query' = query + 1
        /\ UNCHANGED <<items, cpage, cases, got, whole>>
    BY <1>4 DEF NextQuery, portal
  <2>2. Range(todo) = {}
    BY <2>1 DEF Range
  <2>3. Later(query)' = Later(query + 1)
    BY <2>1 DEF Later
  <2> QED
    BY <1>7, <2>1, <2>2, <2>3 DEF ReadInv, RowsExact
<1>5. CASE EmptyLaunch
  <2>1. UNCHANGED <<items, cases, got>> /\ whole' = FALSE
    BY <1>5 DEF EmptyLaunch, portal
  <2> QED
    BY <2>1, NotWhole
<1>6. CASE LaunchFails
  <2>1. UNCHANGED <<items, cases, got>> /\ whole' = FALSE
    BY <1>6 DEF LaunchFails, portal
  <2> QED
    BY <2>1, NotWhole
<1> QED
  BY <1>1, <1>2, <1>3, <1>4, <1>5, <1>6

(* A page recorded behind the pages before it.                             *)
LEMMA PageRead ==
  ASSUME CaseInv, PartRead, todo # <<>>, NEW lo \in Nat, NEW hi \in Nat, lo <= hi,
         lo = (cpage - 1) * CPageSize, hi = cpage * CPageSize,
         NEW S, S = PageOf(cpage, Len(List), CPageSize), got' = Record(S, {})
  PROVE  \A i \in DOMAIN List :
           i <= hi /\ (\A j \in DOMAIN List : j <= hi /\ List[j].case = List[i].case => j <= i)
           => /\ <<List[i].case, Head(todo)>> \in DOMAIN got'
              /\ got'[<<List[i].case, Head(todo)>>] = List[i].status
<1> SUFFICES ASSUME NEW i \in DOMAIN List, i <= hi,
                    \A j \in DOMAIN List : j <= hi /\ List[j].case = List[i].case => j <= i
             PROVE  /\ <<List[i].case, Head(todo)>> \in DOMAIN got'
                    /\ got'[<<List[i].case, Head(todo)>>] = List[i].status
  OBVIOUS
<1>1. /\ Len(List) \in Nat /\ DOMAIN List = 1 .. Len(List)
      /\ S = {k \in 1 .. Len(List) : lo < k /\ k <= hi}
      /\ S \in SUBSET (1 .. Len(List))
  BY ListFacts DEF PageOf
<1>2. PICK c, key : c = List[i].case /\ key = <<c, Head(todo)>> /\ key[1] = c
  <2>1. PICK d : d = List[i].case
    OBVIOUS
  <2>2. <<d, Head(todo)>>[1] = d
    OBVIOUS
  <2> QED
    BY <2>1, <2>2
<1>3. /\ DOMAIN got' = DOMAIN got \cup Keys(S)
      /\ \A k \in Keys(S) :
           /\ got'[k] = Recorded(LastOf(S, k[1]), {})
           /\ LastOf(S, k[1]) \in S /\ List[LastOf(S, k[1])].case = k[1]
           /\ \A j \in S : List[j].case = k[1] => j <= LastOf(S, k[1])
      /\ \A k \in DOMAIN got : k \notin Keys(S) => got'[k] = got[k]
  <2>1. /\ DOMAIN Record(S, {}) = DOMAIN got \cup Keys(S)
        /\ \A k \in Keys(S) :
             /\ Record(S, {})[k] = Recorded(LastOf(S, k[1]), {})
             /\ LastOf(S, k[1]) \in S /\ List[LastOf(S, k[1])].case = k[1]
             /\ \A j \in S : List[j].case = k[1] => j <= LastOf(S, k[1])
        /\ \A k \in DOMAIN got : k \notin Keys(S) => Record(S, {})[k] = got[k]
    BY <1>1, RecordFacts
  <2> QED
    BY <2>1, Zenon
<1>4. CASE key \in Keys(S)
  <2>1. PICK m : m = LastOf(S, c)
    OBVIOUS
  <2>2. /\ m \in S /\ List[m].case = c /\ got'[key] = Recorded(m, {})
        /\ \A j \in S : List[j].case = c => j <= m
    BY <1>2, <1>3, <1>4, <2>1
  <2>3. m <= i /\ m \in 1 .. Len(List) /\ lo < m /\ i \in 1 .. Len(List)
    BY <1>1, <1>2, <2>2
  <2>4. i \in S
    BY <1>1, <2>3
  <2>5. m = i
    BY <1>2, <2>2, <2>3, <2>4
  <2>6. Recorded(m, {}) = List[m].status
    BY DEF Recorded
  <2> QED
    BY <1>2, <1>3, <1>4, <2>2, <2>5, <2>6
<1>5. CASE key \notin Keys(S)
  <2>1. i \notin S
    BY <1>2, <1>5 DEF Keys, CasesAt
  <2>2. i <= lo
    BY <1>1, <2>1
  <2>3. \A j \in DOMAIN List : j <= lo /\ List[j].case = List[i].case => j <= i
    BY <1>1
  <2>4. key \in DOMAIN got /\ got[key] = List[i].status
    BY <1>2, <2>2, <2>3 DEF PartRead
  <2> QED
    BY <1>2, <1>3, <1>5, <2>4
<1> QED
  BY <1>4, <1>5

(* What is recorded of a page comes from it, and of cases that were met.   *)
LEMMA ItemsRead ==
  ASSUME CaseInv, ReadInv, CaseInv', ReadItems
  PROVE  ReadInv'
<1> DEFINE S == PageOf(cpage, Len(List), CPageSize)
<1>1. PICK lost : /\ whole' = (whole /\ lost = {})
                  /\ got' = Record(S, lost)
                  /\ cases' = cases \o NewCases(S)
  BY DEF ReadItems
<1>2. /\ cpc = "items" /\ todo # <<>> /\ cpc' = "items" /\ query' = query
      /\ \/ cpage < PagesOf(Len(List), CPageSize) /\ cpage' = cpage + 1 /\ todo' = todo
         \/ ~(cpage < PagesOf(Len(List), CPageSize)) /\ cpage' = 1 /\ todo' = Tail(todo)
      /\ UNCHANGED <<items, rows>>
  BY DEF ReadItems, portal, sheet
<1>3. /\ S \in SUBSET (1 .. Len(List)) /\ Len(List) \in Nat /\ DOMAIN List = 1 .. Len(List)
      /\ Head(todo) \in CLaunch /\ CPageSize \in Nat \ {0} /\ cpage \in Nat \ {0} /\ todo \in Seq(CLaunch)
  BY <1>2, ListFacts DEF CaseInv
<1> HIDE DEF S
<1>4. /\ DOMAIN got' = DOMAIN got \cup Keys(S)
      /\ \A k \in DOMAIN got : k \notin Keys(S) => got'[k] = got[k]
  <2>1. /\ DOMAIN Record(S, lost) = DOMAIN got \cup Keys(S)
        /\ \A k \in DOMAIN got : k \notin Keys(S) => Record(S, lost)[k] = got[k]
    BY <1>2, <1>3, RecordFacts
  <2> QED
    BY <1>1, <2>1, Zenon
<1>5. \A k \in DOMAIN got' : \E i \in DOMAIN items'[k[2]] : items'[k[2]][i].case = k[1]
  <2> SUFFICES ASSUME NEW k \in DOMAIN got'
               PROVE  \E i \in DOMAIN items[k[2]] : items[k[2]][i].case = k[1]
    BY <1>2
  <2>1. CASE k \in DOMAIN got
    BY <2>1 DEF ReadInv
  <2>2. CASE k \in Keys(S)
    <3>1. k[2] = Head(todo) /\ k[1] \in CasesAt(S)
      BY <2>2 DEF Keys
    <3>2. PICK i \in S : List[i].case = k[1]
      BY <3>1 DEF CasesAt
    <3>3. i \in DOMAIN List /\ List = items[k[2]]
      BY <1>3, <3>1 DEF List
    <3> QED
      BY <3>2, <3>3
  <2> QED
    BY <1>4, <2>1, <2>2
<1>6. Range(cases') = {k[1] : k \in DOMAIN got'}
  <2>1. Range(cases') = Range(cases) \cup CasesAt(S)
    BY <1>1, <1>2, <1>3, NewCasesFacts
  <2>2. CasesAt(S) = {k[1] : k \in Keys(S)}
    <3>1. \A c \in CasesAt(S) : <<c, Head(todo)>> \in Keys(S) /\ <<c, Head(todo)>>[1] = c
      BY DEF Keys
    <3>2. \A k \in Keys(S) : k[1] \in CasesAt(S)
      BY DEF Keys
    <3> QED
      BY <3>1, <3>2
  <2>3. Range(cases) = {k[1] : k \in DOMAIN got}
    BY DEF ReadInv
  <2> QED
    BY <1>4, <2>1, <2>2, <2>3
<1>7. CASE ~whole'
  BY <1>2, <1>5, <1>6, <1>7 DEF ReadInv, RowsExact
<1>8. CASE whole'
  <2>1. whole /\ got' = Record(S, {})
    BY <1>1, <1>8
  <2>2. /\ PartRead
        /\ \A launch \in CLaunch \ (Range(todo) \cup Later(query + 1)) : InGot(launch)
    BY <1>2, <2>1 DEF ReadInv
  <2>3. PICK lo \in Nat, hi \in Nat : lo <= hi /\ lo = (cpage - 1) * CPageSize /\ hi = cpage * CPageSize
    <3>1. PICK lo : lo = (cpage - 1) * CPageSize
      OBVIOUS
    <3>2. PICK hi : hi = cpage * CPageSize
      OBVIOUS
    <3>3. lo \in Nat /\ hi \in Nat /\ lo <= hi
      BY <1>3, <3>1, <3>2, Z3
    <3> QED
      BY <3>1, <3>2, <3>3
  <2>4. \A i \in DOMAIN List :
           i <= hi /\ (\A j \in DOMAIN List : j <= hi /\ List[j].case = List[i].case => j <= i)
           => /\ <<List[i].case, Head(todo)>> \in DOMAIN got'
              /\ got'[<<List[i].case, Head(todo)>>] = List[i].status
    BY <1>2, <2>1, <2>2, <2>3, PageRead DEF S
  <2>5. \A launch : launch # Head(todo) /\ InGot(launch) => InGot(launch)'
    <3> SUFFICES ASSUME NEW launch, launch # Head(todo), InGot(launch),
                        NEW case \in Subject, Final(case, launch)' # "none"
                 PROVE  /\ <<case, launch>> \in DOMAIN got'
                        /\ got'[<<case, launch>>] = Final(case, launch)'
      BY DEF InGot
    <3>1. Final(case, launch)' = Final(case, launch)
      BY <1>2 DEF Final
    <3>2. <<case, launch>> \in DOMAIN got /\ got[<<case, launch>>] = Final(case, launch)
      BY <3>1 DEF InGot
    <3>3. <<case, launch>> \notin Keys(S)
      BY DEF Keys
    <3> QED
      BY <1>4, <3>1, <3>2, <3>3
  <2>6. CASE cpage' = cpage + 1 /\ todo' = todo
    <3>1. PartRead'
      <4>1. (cpage' - 1) * CPageSize = hi
        BY <1>3, <2>3, <2>6
      <4>2. List' = List
        BY <1>2, <2>6 DEF List
      <4> QED
        BY <2>4, <2>6, <4>1, <4>2 DEF PartRead
    <3>2. Head(todo) \in Range(todo)
      BY <1>2, <1>3 DEF Range
    <3>3. \A launch \in CLaunch \ (Range(todo') \cup Later(query' + 1)) : InGot(launch)'
      BY <1>2, <2>2, <2>5, <2>6, <3>2
    <3>4. Later(query + 1)' = Later(query' + 1)
      BY DEF Later
    <3> QED
      BY <1>2, <1>5, <1>6, <2>6, <3>1, <3>3, <3>4 DEF ReadInv, RowsExact
  <2>7. CASE ~(cpage < PagesOf(Len(List), CPageSize)) /\ cpage' = 1 /\ todo' = Tail(todo)
    <3>1. PartRead'
      BY <2>7, FirstPage
    <3>2. Len(List) <= hi
      BY <1>3, <2>3, <2>7, PagesReach
    <3>3. \A launch : launch = Head(todo) => InGot(launch)'
      <4> SUFFICES ASSUME NEW launch, launch = Head(todo),
                          NEW case \in Subject, Final(case, launch)' # "none"
                   PROVE  /\ <<case, launch>> \in DOMAIN got'
                          /\ got'[<<case, launch>>] = Final(case, launch)'
        BY DEF InGot
      <4>1. Final(case, launch)' = Final(case, launch)
        BY <1>2 DEF Final
      <4>2. PICK i \in DOMAIN items[launch] :
              /\ items[launch][i].case = case /\ Final(case, launch) = items[launch][i].status
              /\ \A j \in DOMAIN items[launch] : items[launch][j].case = case => j <= i
        BY <1>3, <4>1, FinalFacts
      <4>3. List = items[launch]
        BY DEF List
      <4>4. i <= hi
        BY <1>3, <2>3, <3>2, <4>2, <4>3
      <4> QED
        BY <2>4, <4>1, <4>2, <4>3, <4>4
    <3>4. Range(todo) = {Head(todo)} \cup Range(todo')
      <4>1. PICK s : s = Tail(todo)
        OBVIOUS
      <4>2. /\ s \in Seq(CLaunch) /\ Len(s) = Len(todo) - 1 /\ Len(todo) \in Nat /\ Len(todo) >= 1
            /\ \A n \in 1 .. Len(s) : s[n] = todo[n + 1]
        BY <1>2, <1>3, <4>1, HeadTailProperties
      <4>3. \A n \in 1 .. Len(todo) : n = 1 \/ (n - 1 \in 1 .. Len(s) /\ todo[n] = s[n - 1])
        BY <4>2
      <4>4. \A n \in 1 .. Len(s) : n + 1 \in 1 .. Len(todo)
        BY <4>2
      <4>5. todo[1] = Head(todo) /\ DOMAIN todo = 1 .. Len(todo) /\ DOMAIN s = 1 .. Len(s) /\ 1 \in 1 .. Len(todo)
        BY <1>3, <4>2
      <4>6. Range(todo) \subseteq {Head(todo)} \cup Range(s)
        <5> SUFFICES ASSUME NEW n \in 1 .. Len(todo), n # 1
                     PROVE  todo[n] \in Range(s)
          BY <4>5 DEF Range
        <5> QED
          BY <4>3, <4>5 DEF Range
      <4>7. Range(s) \subseteq Range(todo)
        <5> SUFFICES ASSUME NEW n \in 1 .. Len(s)
                     PROVE  s[n] \in Range(todo)
          BY <4>5 DEF Range
        <5> QED
          BY <4>2, <4>4, <4>5 DEF Range
      <4>8. Head(todo) \in Range(todo)
        BY <4>5 DEF Range
      <4>9. Range(todo) = {Head(todo)} \cup Range(s)
        BY <4>6, <4>7, <4>8
      <4> QED
        BY <2>7, <4>1, <4>9
    <3>5. \A launch \in CLaunch \ (Range(todo') \cup Later(query' + 1)) : InGot(launch)'
      BY <1>2, <2>2, <2>5, <3>3, <3>4
    <3>6. Later(query + 1)' = Later(query' + 1)
      BY DEF Later
    <3> QED
      BY <1>2, <1>5, <1>6, <2>7, <3>1, <3>5, <3>6 DEF ReadInv, RowsExact
  <2> QED
    BY <1>2, <2>6, <2>7
<1> QED
  BY <1>7, <1>8

(* The results of a case are the launches it ended in, once each is        *)
(* recorded.                                                               *)
LEMMA TimesFacts ==
  ASSUME CaseInv, \A k \in DOMAIN got : \E i \in DOMAIN items[k[2]] : items[k[2]][i].case = k[1],
         \A launch \in CLaunch : InGot(launch),
         NEW c \in Subject, NEW s \in SUBSET Status
  PROVE  /\ IsFiniteSet(Results(c, s))
         /\ Cardinality(Results(c, s)) \in Nat
         /\ Times(c, CLaunch, s) = Cardinality(Results(c, s))
<1> DEFINE R == Results(c, s)
           L == {l \in CLaunch : Final(c, l) \in s}
           f == [k \in R |-> k[2]]
<1>1. DOMAIN got \subseteq Subject \X CLaunch /\ IsFiniteSet(DOMAIN got)
  BY Zenon DEF CaseInv
<1>2. "none" \notin s
  BY DEF Status
<1>3. \A k \in R : /\ k \in DOMAIN got /\ k[1] = c /\ got[k] \in s /\ k[2] \in CLaunch
                   /\ k = <<c, k[2]>>
  BY <1>1 DEF Results
<1>4. ASSUME NEW k \in R
      PROVE  k[2] \in L
  <2>1. PICK i \in DOMAIN items[k[2]] : items[k[2]][i].case = k[1]
    BY <1>3
  <2>2. Final(c, k[2]) # "none"
    BY <1>3, <2>1, FinalFacts
  <2>3. got[<<c, k[2]>>] = Final(c, k[2])
    BY <1>3, <2>2 DEF InGot
  <2>4. got[k] = got[<<c, k[2]>>] /\ got[k] \in s /\ k[2] \in CLaunch
    BY <1>3
  <2> QED
    BY <2>3, <2>4
<1>5. \A l \in L : <<c, l>> \in R /\ <<c, l>>[2] = l
  <2> SUFFICES ASSUME NEW l \in L
               PROVE  <<c, l>> \in R
    OBVIOUS
  <2>1. Final(c, l) # "none" /\ Final(c, l) \in s
    BY <1>2
  <2>2. <<c, l>> \in DOMAIN got /\ got[<<c, l>>] = Final(c, l)
    BY <2>1 DEF InGot
  <2> QED
    BY <2>1, <2>2 DEF Results
<1>6. IsFiniteSet(R)
  BY <1>1, FS_Subset DEF Results
<1>7. Cardinality(L) = Cardinality(R)
  <2>1. f \in [R -> L]
    BY <1>4
  <2>2. \A a, b \in R : f[a] = f[b] => a = b
    BY <1>3
  <2>3. \A l \in L : \E k \in R : f[k] = l
    BY <1>5
  <2>4. DOMAIN f = R
    OBVIOUS
  <2> HIDE DEF f, R, L
  <2>5. ExistsBijection(R, L)
    <3>1. f \in Injection(R, L)
      BY <2>1, <2>2, <2>4 DEF Injection, IsInjective
    <3>2. f \in Surjection(R, L)
      BY <2>1, <2>3 DEF Surjection
    <3> QED
      BY <3>1, <3>2 DEF ExistsBijection, Bijection
  <2> QED
    BY <1>6, <2>5, FS_Bijection
<1>8. Cardinality(R) \in Nat
  BY <1>6, FS_CardinalityType
<1> QED
  BY <1>6, <1>7, <1>8 DEF Times

(* The places of the cases with a result, and what a sheet is to have of a *)
(* case.                                                                   *)
WithResult == {n \in DOMAIN cases : AllRows[n].passed + AllRows[n].failed > 0}
RowsOfCase(e, c) == {n \in DOMAIN e : e[n].case = c}
ExactFor(e, c) ==
  LET p == Times(c, CLaunch, {"PASSED"})
      f == Times(c, CLaunch, {"FAILED", "SYSTEM"})
  IN  IF p + f = 0 THEN RowsOfCase(e, c) = {}
      ELSE /\ Cardinality(RowsOfCase(e, c)) = 1
           /\ \A n \in RowsOfCase(e, c) : e[n].passed = p /\ e[n].failed = f

(* The row of a case has what the launches hold of it.                     *)
LEMMA WrittenExact ==
  ASSUME CaseInv, \A k \in DOMAIN got : \E i \in DOMAIN items[k[2]] : items[k[2]][i].case = k[1],
         Range(cases) = {k[1] : k \in DOMAIN got},
         \A launch \in CLaunch : InGot(launch), NEW c \in Subject
  PROVE  ExactFor(Entries(AllRows, WithResult), c)
<1> DEFINE p == Times(c, CLaunch, {"PASSED"})
           f == Times(c, CLaunch, {"FAILED", "SYSTEM"})
<1>1. /\ p = Cardinality(Results(c, {"PASSED"})) /\ p \in Nat
      /\ f = Cardinality(Results(c, {"FAILED", "SYSTEM"})) /\ f \in Nat
  <2>1. {"PASSED"} \in SUBSET Status /\ {"FAILED", "SYSTEM"} \in SUBSET Status
    BY DEF Status
  <2> QED
    BY <2>1, TimesFacts
<1>2. RowOf(c).passed = p /\ RowOf(c).failed = f
  BY <1>1 DEF RowOf
<1> HIDE DEF p, f
<1>3. PICK places, e : places = WithResult /\ e = Entries(AllRows, places)
  OBVIOUS
<1>4. /\ \A m, n \in DOMAIN e : e[m].case = e[n].case => m = n
      /\ \A m \in DOMAIN e : \E n \in DOMAIN cases : n \in places /\ e[m] = RowOf(cases[n])
      /\ \A n \in DOMAIN cases : n \in places => \E m \in DOMAIN e : e[m] = RowOf(cases[n])
      /\ \A d \in Subject : RowOf(d).case = d
      /\ cases \in Seq(Subject)
      /\ \A n \in DOMAIN cases : AllRows[n] = RowOf(cases[n])
  BY <1>3, RowsFacts
<1>5. \A n \in DOMAIN cases : cases[n] \in Subject
  <2>1. DOMAIN cases = 1 .. Len(cases)
    BY <1>4
  <2> QED
    BY <1>4, <2>1
<1>6. \A n \in RowsOfCase(e, c) : e[n] = RowOf(c) /\ p + f > 0
  <2> SUFFICES ASSUME NEW n \in DOMAIN e, e[n].case = c
               PROVE  e[n] = RowOf(c) /\ p + f > 0
    BY DEF RowsOfCase
  <2>1. PICK m \in DOMAIN cases : m \in places /\ e[n] = RowOf(cases[m])
    BY <1>4
  <2>2. cases[m] = c
    BY <1>4, <1>5, <2>1
  <2>3. AllRows[m] = RowOf(c) /\ AllRows[m].passed + AllRows[m].failed > 0
    BY <1>3, <1>4, <2>1, <2>2 DEF WithResult
  <2> QED
    BY <1>2, <2>1, <2>2, <2>3
<1>7. p + f # 0 => Cardinality(RowsOfCase(e, c)) = 1
  <2> SUFFICES ASSUME p + f # 0
               PROVE  Cardinality(RowsOfCase(e, c)) = 1
    OBVIOUS
  <2>1. (p # 0 \/ f # 0) /\ p + f > 0
    BY <1>1
  <2>2. PICK k \in DOMAIN got : k[1] = c
    <3>1. Results(c, {"PASSED"}) # {} \/ Results(c, {"FAILED", "SYSTEM"}) # {}
      BY <1>1, <2>1, FS_EmptySet
    <3> QED
      BY <3>1 DEF Results
  <2>3. PICK m \in DOMAIN cases : cases[m] = c
    BY <2>2 DEF Range
  <2>4. m \in places
    BY <1>2, <1>3, <1>4, <2>1, <2>3 DEF WithResult
  <2>5. PICK n \in DOMAIN e : e[n] = RowOf(c)
    BY <1>4, <2>3, <2>4
  <2>6. e[n].case = c
    BY <1>4, <2>5
  <2>7. RowsOfCase(e, c) = {n}
    BY <1>4, <2>6 DEF RowsOfCase
  <2> QED
    BY <2>7, FS_Singleton
<1>8. p + f = 0 => RowsOfCase(e, c) = {}
  BY <1>1, <1>6
<1> QED
  BY <1>2, <1>3, <1>6, <1>7, <1>8 DEF ExactFor, p, f

LEMMA WriteSheetRead ==
  ASSUME CaseInv, ReadInv, WriteSheet
  PROVE  ReadInv'
<1>1. /\ cpc = "sheet" /\ UNCHANGED <<items, cases, got, whole>>
      /\ \/ rows' = Entries(AllRows, WithResult) /\ cpc' = "subtasks"
         \/ cpc' = "idle"
  BY DEF WriteSheet, WithResult, reading, portal
<1>2. CASE cpc' = "idle" \/ ~whole
  BY <1>1, <1>2 DEF ReadInv, RowsExact
<1>3. CASE whole /\ cpc' = "subtasks"
  <2>1. /\ \A k \in DOMAIN got : \E i \in DOMAIN items[k[2]] : items[k[2]][i].case = k[1]
        /\ Range(cases) = {k[1] : k \in DOMAIN got}
        /\ \A launch \in CLaunch : InGot(launch)
    BY <1>1, <1>3 DEF ReadInv
  <2>2. \A c \in Subject : ExactFor(Entries(AllRows, WithResult), c)
    BY <2>1, WrittenExact
  <2>3. \A c, s : Times(c, CLaunch, s)' = Times(c, CLaunch, s)
    BY <1>1 DEF Times, Final
  <2>4. PICK e : e = Entries(AllRows, WithResult) /\ rows' = e
    BY <1>1, <1>3
  <2>5. RowsExact'
    BY <2>2, <2>3, <2>4 DEF RowsExact, ExactFor, RowsOfCase
  <2> QED
    BY <1>1, <1>3, <2>1, <2>5 DEF ReadInv
<1> QED
  BY <1>1, <1>2, <1>3

(* The steps after the sheet, and those of the cluster's and Jira's time.  *)
LEMMA AfterRead ==
  ASSUME ReadInv,
         \/ GetSubtaskList \/ SkipRow \/ CreateTask \/ LinkTask \/ RowsDone
         \/ CaseDies \/ NextDay \/ CaseCloses
  PROVE  ReadInv'
<1>1. UNCHANGED portal /\ UNCHANGED reading /\ UNCHANGED rows
  BY DEF GetSubtaskList, SkipRow, CreateTask, LinkTask, RowsDone, CaseDies, NextDay, CaseCloses, sheet
<1>2. \/ cpc' = cpc
      \/ cpc' = "idle"
      \/ cpc \in {"subtasks", "rows", "link"} /\ cpc' \in {"subtasks", "rows", "link"}
  BY DEF GetSubtaskList, SkipRow, CreateTask, LinkTask, RowsDone, CaseDies, NextDay, CaseCloses
<1> QED
  BY <1>1, <1>2, ReadAlone

(* At the start.                                                           *)
LEMMA InitRead ==
  ASSUME Init
  PROVE  ReadInv
<1>1. cpc = "idle" /\ cases = <<>> /\ got = <<>>
  BY DEF Init, CaseInit
<1>2. DOMAIN got = {} /\ Range(cases) = {}
  BY <1>1 DEF Range
<1> QED
  BY <1>1, <1>2 DEF ReadInv, RowsExact

(* And at every step.                                                      *)
LEMMA StepRead ==
  ASSUME IInv, ReadInv, [Next]_vars, IInv'
  PROVE  ReadInv'
<1>1. CaseInv /\ CaseInv'
  BY DEF IInv
<1>2. CASE Case(CaseNext)
  <2>1. CaseNext
    BY <1>2 DEF Case
  <2> QED
    BY <1>1, <2>1, QueriesRead, ItemsRead, WriteSheetRead, AfterRead DEF CaseNext, CaseStep
<1>3. CASE ~Case(CaseNext)
  <2>1. UNCHANGED portal /\ UNCHANGED reading /\ UNCHANGED rows /\ cpc' = cpc
    <3>1. CASE UNCHANGED vars
      BY <3>1 DEF vars, cvars, reading
    <3>2. CASE Profile(LowNext) \/ Sheet(SheetNext) \/ Bugs(BugsNext)
      BY <3>2 DEF Profile, Sheet, Bugs, CaseOnly, cvars, reading, sheet
    <3> QED
      BY <1>3, <3>1, <3>2 DEF Next
  <2> QED
    BY <2>1, ReadAlone
<1> QED
  BY <1>2, <1>3

(* A run of the case tracker that passed over nothing writes one row for   *)
(* every case that passed or failed anywhere, with the launches it passed  *)
(* in and those it failed in, whatever the pages and however often a case  *)
(* is repeated in a launch.                                                *)
THEOREM RowsAreExact == Spec => []RowsExact
<1>1. Init => IInv /\ ReadInv
  BY InitHolds, InitRead
<1>2. (IInv /\ ReadInv) /\ [Next]_vars => (IInv /\ ReadInv)'
  BY StepKeeps, StepRead
<1>3. IInv /\ ReadInv => RowsExact
  BY DEF ReadInv
<1> QED
  BY <1>1, <1>2, <1>3, PTL DEF Spec

(* The variables of the script that runs, and of the others, have their    *)
(* types.                                                                  *)
THEOREM TypeCorrect == Spec => []TypesOK
<1>1. IInv => TypesOK
  <2> SUFFICES ASSUME IInv
               PROVE  CaseTypeOK /\ LowTypeOK /\ SheetTypeOK /\ BugsTypeOK
    BY DEF TypesOK
  <2>0. JiraInv /\ CaseInv /\ LowInv /\ SheetInv /\ BugsInv
    BY DEF IInv
  <2>1. CaseTypeOK
    <3>1. todo \in Seq(CLaunch)
      BY <2>0, Zenon DEF CaseInv
    <3>2. Range(todo) \subseteq CLaunch
      BY <3>1 DEF Range
    <3> QED
      BY <2>0, <3>2 DEF CaseInv, CaseTypeOK
  <2>2. LowTypeOK
    <3>1. Len(tasks) \in Nat
      BY <2>0 DEF JiraInv
    <3>2. lseen \in NotListed .. Len(tasks)
      BY <2>0, <3>1 DEF LowInv, NotListed
    <3> QED
      BY <2>0, <3>2 DEF LowInv, LowTypeOK
  <2>3. SheetTypeOK
    <3>1. gsheet \in Seq(SheetRow)
      BY <2>0, Zenon DEF SheetInv
    <3>2. \A n \in DOMAIN gsheet : gsheet[n] \in SheetRow
      BY <3>1
    <3> QED
      BY <2>0, <3>2 DEF SheetInv, SheetTypeOK, SheetRow
  <2>4. BugsTypeOK
    <3>1. brows \in Seq(BugRow)
      BY <2>0, Zenon DEF BugsInv
    <3>2. \A n \in DOMAIN brows : brows[n] \in BugRow
      BY <3>1
    <3> QED
      BY <2>0, <3>2 DEF BugsInv, BugsTypeOK, BugRow
  <2> QED
    BY <2>1, <2>2, <2>3, <2>4
<1> QED
  BY <1>1, Accounts, PTL

(* However runs die and whatever answers are lost, no subject gets a       *)
(* second sub-task from either tracker (create_sub_task), and no bug a     *)
(* second row (write_e2e_google_sheet of the bugs).                        *)
THEOREM NothingMadeTwice == Spec => []NothingTwice
<1>1. IInv => NothingTwice
  BY DEF IInv, JiraInv, BugsInv, NothingTwice
<1> QED
  BY <1>1, Accounts, PTL

(* A run of the tracker of unstable cases that went through all its rows   *)
(* leaves a sub-task for every unstable case; one of the tracker of low    *)
(* pass rates that passed over nothing leaves one for every suite that is  *)
(* low, and there is one for no other suite.                               *)
THEOREM TracksExactly == Spec => []TrackedExactly
<1>1. IInv => TrackedExactly
  <2> SUFFICES ASSUME IInv
               PROVE  UnstableTracked /\ LowSuitesTracked /\ (tool = "profile" => OnlyLowTracked)
    BY DEF TrackedExactly
  <2>1. LowInv /\ CaseInv
    BY DEF IInv
  <2>2. UnstableTracked
    BY <2>1, Zenon DEF CaseInv, UnstableTracked
  <2>3. LowSuitesTracked
    <3> SUFFICES ASSUME ldone /\ lwhole
                 PROVE  \A n \in DOMAIN profiles : \A m \in DOMAIN profiles[n].suites :
                          /\ Ran(profiles[n].suites[m])
                          /\ profiles[n].installed /\ Ran(profiles[n]) /\ AtMost(profiles[n], 90)
                          /\ Below(profiles[n].suites[m], IF profiles[n].destructive THEN 50 ELSE 90)
                          => Tracked(profiles[n].suites[m].subject)
      BY DEF LowSuitesTracked
    <3>1. LowAll
      BY <2>1, Zenon DEF LowInv
    <3> QED
      BY <3>1, Zenon DEF LowAll, IsRead, Worth, LowAt
  <2> QED
    BY <2>1, <2>2, <2>3 DEF LowInv
<1> QED
  BY <1>1, Accounts, PTL

(* What the script of the builds saves as done is in the sheet, linked to  *)
(* its own build, but for builds still running when they were read, builds *)
(* whose console has no LAUNCH_NAME and builds over which a call failed;   *)
(* and without a fault the number is lost only over a build of which no    *)
(* row was to be written (collect_result_to_googlesheet.py:100, 111-187,   *)
(* 261-267).                                                               *)
THEOREM BuildsAreKept == Spec => []BuildsKept
<1>1. IInv => BuildsKept
  BY DEF IInv, SheetInv, BuildsKept
<1> QED
  BY <1>1, Accounts, PTL
=============================================================================
