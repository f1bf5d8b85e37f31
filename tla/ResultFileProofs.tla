-------------------------- MODULE ResultFileProofs --------------------------
(***************************************************************************)
(* Theorems about ResultFile, for files of any length, lists of any case   *)
(* ids, repeated ones included, and any subteams.                          *)
(***************************************************************************)
EXTENDS ResultFile, SequenceTheorems, FiniteSetTheorems, TLAPS

-----------------------------------------------------------------------------
(* Loops.                                                                  *)

(* Every non-empty set of numbers has a least one.                         *)
LEMMA Least ==
  ASSUME NEW S, S \subseteq Nat, S # {}
  PROVE  \E x \in S : \A y \in S : x <= y
<1>1. PICK x \in S : \A y \in S : ~(<<y, x>> \in OpToRel(<, Nat))
  BY NatLessThanWellFounded, WFMin, Zenon
<1>2. \A y \in S : y \in Nat /\ <<y, x>> \in Nat \X Nat
  OBVIOUS
<1>3. \A y \in S : ~(y < x)
  BY <1>1, <1>2 DEF OpToRel
<1> QED
  BY <1>2, <1>3

(* Induction, said of a set of numbers.                                    *)
LEMMA Induction ==
  ASSUME NEW n \in Nat, NEW S, 0 \in S, \A m \in 0 .. n - 1 : m \in S => m + 1 \in S
  PROVE  \A m \in 0 .. n : m \in S
<1> DEFINE T == {m \in 0 .. n : m \notin S}
<1>1. SUFFICES ASSUME T # {}
               PROVE  FALSE
  OBVIOUS
<1>2. T \subseteq Nat
  OBVIOUS
<1>3. PICK x \in T : \A y \in T : x <= y
  BY <1>1, <1>2, Least
<1>4. x \in 0 .. n /\ x \notin S /\ x # 0
  OBVIOUS
<1>5. x - 1 \in 0 .. n - 1 /\ x - 1 \in Nat /\ x - 1 + 1 = x
  BY <1>4
<1>6. x - 1 \notin S
  BY <1>4, <1>5
<1>7. x - 1 \in T
  BY <1>5, <1>6
<1> QED
  BY <1>3, <1>4, <1>5, <1>7

(* A loop over 1 .. L with a step that stays in A can be run.              *)
Loop(g, L, A, start, step) ==
  g \in [0 .. L -> A] /\ g[0] = start /\ \A n \in 1 .. L : g[n] = step[<<g[n - 1], n>>]

LEMMA LoopExists ==
  ASSUME NEW L \in Nat, NEW A, NEW start \in A, NEW step \in [A \X (1 .. L) -> A]
  PROVE  \E g : Loop(g, L, A, start, step)
<1> DEFINE S == {m \in 0 .. L : \E g \in [0 .. m -> A] :
                    g[0] = start /\ \A n \in 1 .. m : g[n] = step[<<g[n - 1], n>>]}
<1>1. 0 \in S
  <2> DEFINE g == [n \in 0 .. 0 |-> start]
  <2>1. g \in [0 .. 0 -> A] /\ g[0] = start
    OBVIOUS
  <2> HIDE DEF g
  <2>2. \A n \in 1 .. 0 : g[n] = step[<<g[n - 1], n>>]
    OBVIOUS
  <2>3. 0 \in 0 .. L
    OBVIOUS
  <2> QED
    BY <2>1, <2>2, <2>3
<1>2. ASSUME NEW m \in 0 .. L - 1, m \in S
      PROVE  m + 1 \in S
  <2>1. PICK g \in [0 .. m -> A] : g[0] = start /\ \A n \in 1 .. m : g[n] = step[<<g[n - 1], n>>]
    BY <1>2
  <2>2. m \in Nat /\ m \in 0 .. m /\ m + 1 \in 1 .. L /\ m + 1 - 1 = m /\ m + 1 # 0
    OBVIOUS
  <2>3. PICK x \in A : x = step[<<g[m], m + 1>>]
    BY <2>2
  <2> DEFINE h == [n \in 0 .. m + 1 |-> IF n = m + 1 THEN x ELSE g[n]]
  <2>4. h \in [0 .. m + 1 -> A]
    BY <2>2
  <2>5. h[m + 1] = x /\ \A n \in 0 .. m : h[n] = g[n]
    BY <2>2
  <2> HIDE DEF h
  <2>6. \A n \in 1 .. m + 1 : h[n] = step[<<h[n - 1], n>>]
    <3> SUFFICES ASSUME NEW n \in 1 .. m + 1
                 PROVE  h[n] = step[<<h[n - 1], n>>]
      OBVIOUS
    <3>1. CASE n = m + 1
      <4>1. h[n] = x /\ n - 1 = m /\ h[n - 1] = g[m]
        BY <2>2, <2>5, <3>1
      <4> QED
        BY <2>3, <3>1, <4>1
    <3>2. CASE n # m + 1
      <4>1. n \in 1 .. m /\ n \in 0 .. m /\ n - 1 \in 0 .. m
        BY <2>2, <3>2
      <4> QED
        BY <2>1, <2>5, <4>1
    <3> QED
      BY <3>1, <3>2
  <2>7. h[0] = start
    BY <2>1, <2>2, <2>5
  <2> QED
    BY <2>4, <2>6, <2>7
<1>3. \A m \in 0 .. L : m \in S
  <2> HIDE DEF S
  <2> QED
    BY <1>1, <1>2, Induction
<1>4. L \in S
  <2> HIDE DEF S
  <2> QED
    BY <1>3
<1> QED
  BY <1>4 DEF Loop

-----------------------------------------------------------------------------
(* Numbers of entries.                                                     *)

Entry == [id : CaseId \cup {NoCaseId, HealthId}, result : Result]
AnyCase == TestCase \cup MonitorCase

(* What a case enters into a file.                                         *)
LEMMA NamesFacts ==
  ASSUME NEW tc \in AnyCase
  PROVE  /\ Names(tc) \in Seq(Entry) /\ Len(Names(tc)) = Len(Ids(tc)) /\ Len(Ids(tc)) \in Nat \ {0}
         /\ DOMAIN Ids(tc) = 1 .. Len(Ids(tc))
         /\ ResultOf(tc) \in Result
         /\ \A k \in 1 .. Len(Ids(tc)) :
              Names(tc)[k] = [id |-> Ids(tc)[k], result |-> ResultOf(tc)] /\ Names(tc)[k] \in Entry
         /\ \A k \in 1 .. Len(Ids(tc)) : Ids(tc)[k] \in CaseId \cup {NoCaseId}
<1>1. tc.ids \in Seq(CaseId)
  <2>1. tc \in TestCase => tc.ids \in IdLists
    BY DEF TestCase
  <2>2. tc \in MonitorCase => tc.ids = <<>>
    BY DEF MonitorCase
  <2>3. <<>> \in Seq(CaseId)
    OBVIOUS
  <2> QED
    BY <2>1, <2>2, <2>3, ResultFileAssumption DEF AnyCase
<1>2. /\ Ids(tc) \in Seq(CaseId \cup {NoCaseId}) /\ Len(Ids(tc)) \in Nat \ {0}
      /\ DOMAIN Ids(tc) = 1 .. Len(Ids(tc))
  <2>1. CASE tc.ids = <<>>
    BY <2>1 DEF Ids
  <2>2. CASE tc.ids # <<>>
    <3>1. PICK s \in Seq(CaseId) : s = tc.ids /\ s = Ids(tc) /\ s # <<>>
      BY <1>1, <2>2 DEF Ids
    <3>2. s \in Seq(CaseId \cup {NoCaseId})
      BY SeqMonotonic
    <3>3. Len(s) \in Nat \ {0} /\ DOMAIN s = 1 .. Len(s)
      BY <3>1, EmptySeq
    <3> QED
      BY <3>1, <3>2, <3>3
  <2> QED
    BY <2>1, <2>2
<1>3. ResultOf(tc) \in Result
  BY DEF ResultOf, Result
<1>4. PICK s \in Seq(CaseId \cup {NoCaseId}), r \in Result : s = Ids(tc) /\ r = ResultOf(tc)
  BY <1>2, <1>3
<1>5. \A k \in 1 .. Len(s) : [id |-> s[k], result |-> r] \in Entry
  BY DEF Entry
<1>6. PICK e : e = [k \in 1 .. Len(s) |-> [id |-> s[k], result |-> r]] /\ e = Names(tc)
  BY <1>2, <1>4 DEF Names
<1>7. e \in Seq(Entry) /\ Len(e) = Len(s)
  BY <1>5, <1>6, IsASeq, LenProperties
<1> QED
  BY <1>2, <1>3, <1>4, <1>5, <1>6, <1>7

(* NamesUpTo is the loop it says.                                          *)
LEMMA NamesUpToDef ==
  ASSUME cases \in Seq(AnyCase), NEW S, NEW L \in Nat, L = Len(cases)
  PROVE  /\ \A n \in 0 .. L : NamesUpTo(S)[n] \in Seq(Entry)
         /\ NamesUpTo(S)[0] = <<>>
         /\ \A n \in 1 .. L : NamesUpTo(S)[n] = IF n \in S THEN NamesUpTo(S)[n - 1] \o Names(cases[n])
                                                ELSE NamesUpTo(S)[n - 1]
<1> DEFINE Step(acc, n) == IF n \in S THEN acc \o Names(cases[n]) ELSE acc
           A == Seq(Entry)
           U(n) == NamesUpTo(S)[n]
<1>1. \A n \in 1 .. L : Names(cases[n]) \in A
  BY NamesFacts
<1>2. \A acc \in A, n \in 1 .. L : Step(acc, n) \in A
  BY <1>1
<1>3. <<>> \in A
  OBVIOUS
<1>4. PICK step \in [A \X (1 .. L) -> A] : \A acc \in A, n \in 1 .. L : step[<<acc, n>>] = Step(acc, n)
  <2> DEFINE f == [x \in A \X (1 .. L) |-> Step(x[1], x[2])]
  <2> HIDE DEF A, Step
  <2>1. f \in [A \X (1 .. L) -> A] /\ \A acc \in A, n \in 1 .. L : f[<<acc, n>>] = Step(acc, n)
    BY <1>2
  <2> HIDE DEF f
  <2> QED
    BY <2>1
<1> HIDE DEF A, Step
<1>5. PICK g \in [0 .. L -> A] : g[0] = <<>> /\ \A n \in 1 .. L : g[n] = step[<<g[n - 1], n>>]
  <2>1. \E g : Loop(g, L, A, <<>>, step)
    BY <1>3, LoopExists
  <2> QED
    BY <2>1 DEF Loop
<1>6. g = [n \in 0 .. L |-> IF n = 0 THEN <<>> ELSE Step(g[n - 1], n)]
  <2>1. g = [n \in 0 .. L |-> g[n]]
    OBVIOUS
  <2>2. \A n \in 0 .. L : g[n] = IF n = 0 THEN <<>> ELSE Step(g[n - 1], n)
    <3> SUFFICES ASSUME NEW n \in 0 .. L, n # 0
                 PROVE  g[n] = Step(g[n - 1], n)
      BY <1>5
    <3>1. n \in 1 .. L /\ n - 1 \in 0 .. L
      OBVIOUS
    <3> QED
      BY <1>4, <1>5, <3>1
  <2> QED
    BY <2>1, <2>2
<1>7. NamesUpTo(S) = CHOOSE h : h = [n \in 0 .. L |-> IF n = 0 THEN <<>> ELSE Step(h[n - 1], n)]
  BY DEF NamesUpTo, Step
<1>8. NamesUpTo(S) = [n \in 0 .. L |-> IF n = 0 THEN <<>> ELSE Step(NamesUpTo(S)[n - 1], n)]
  BY <1>6, <1>7
<1>9. U(0) = <<>> /\ \A n \in 1 .. L : U(n) = Step(U(n - 1), n)
  <2>1. \A n \in 0 .. L : U(n) = IF n = 0 THEN <<>> ELSE Step(U(n - 1), n)
    BY <1>8
  <2> HIDE DEF U
  <2> QED
    BY <2>1
<1>10. \A n \in 0 .. L : U(n) \in A
  <2> DEFINE Good == {n \in 0 .. L : U(n) \in A}
  <2> HIDE DEF U
  <2>1. 0 \in Good
    BY <1>3, <1>9
  <2>2. \A n \in 0 .. L - 1 : n \in Good => n + 1 \in Good
    <3> SUFFICES ASSUME NEW n \in 0 .. L - 1, U(n) \in A
                 PROVE  U(n + 1) \in A
      OBVIOUS
    <3>1. n + 1 \in 1 .. L /\ n + 1 - 1 = n
      OBVIOUS
    <3>2. U(n + 1) = Step(U(n), n + 1)
      BY <1>9, <3>1
    <3> QED
      BY <1>2, <3>1, <3>2
  <2>3. \A n \in 0 .. L : n \in Good
    <3> HIDE DEF Good
    <3> QED
      BY <2>1, <2>2, Induction
  <2> QED
    BY <2>3
<1>11. \A n \in 1 .. L : U(n) = IF n \in S THEN U(n - 1) \o Names(cases[n]) ELSE U(n - 1)
  BY <1>9 DEF Step
<1> QED
  BY <1>9, <1>10, <1>11 DEF A

(* How many entries of a file are in E.                                    *)
Hits(s, E) == Cardinality({k \in DOMAIN s : s[k] \in E})

(* Two sets have as many members if one is the image of the other.         *)
LEMMA SameNumber ==
  ASSUME NEW S, NEW T, IsFiniteSet(S), NEW f \in [S -> T],
         \A a, b \in S : f[a] = f[b] => a = b, \A t \in T : \E a \in S : f[a] = t
  PROVE  IsFiniteSet(T) /\ Cardinality(T) = Cardinality(S)
<1>1. f \in Injection(S, T)
  BY DEF Injection, IsInjective
<1>2. f \in Surjection(S, T)
  BY DEF Surjection
<1>3. ExistsBijection(S, T)
  BY <1>1, <1>2 DEF ExistsBijection, Bijection
<1> QED
  BY <1>3, FS_Bijection

(* Of two sets without a common member the numbers add up.                 *)
LEMMA Apart ==
  ASSUME NEW S, NEW T, IsFiniteSet(S), IsFiniteSet(T), S \cap T = {}
  PROVE  /\ IsFiniteSet(S \cup T) /\ Cardinality(S \cup T) = Cardinality(S) + Cardinality(T)
         /\ Cardinality(S) \in Nat /\ Cardinality(T) \in Nat
BY FS_Union, FS_EmptySet, FS_CardinalityType

LEMMA HitsFinite ==
  ASSUME NEW T, NEW s \in Seq(T), NEW E
  PROVE  /\ IsFiniteSet({k \in DOMAIN s : s[k] \in E}) /\ Hits(s, E) \in Nat
         /\ Hits(s, E) <= Len(s)
<1>1. DOMAIN s = 1 .. Len(s) /\ Len(s) \in Nat
  OBVIOUS
<1>2. IsFiniteSet(DOMAIN s) /\ Cardinality(DOMAIN s) = Len(s)
  BY <1>1, FS_Interval
<1> QED
  BY <1>2, FS_Subset, FS_CardinalityType DEF Hits

(* In two files after each other there are as many as in both.             *)
LEMMA HitsConcat ==
  ASSUME NEW T, NEW s \in Seq(T), NEW u \in Seq(T), NEW E
  PROVE  Hits(s \o u, E) = Hits(s, E) + Hits(u, E)
<1> DEFINE X == {k \in DOMAIN s : s[k] \in E}
           Y == {k \in DOMAIN u : u[k] \in E}
           Z == {k + Len(s) : k \in Y}
           f == [k \in Y |-> k + Len(s)]
<1>1. /\ DOMAIN s = 1 .. Len(s) /\ DOMAIN u = 1 .. Len(u) /\ Len(s) \in Nat /\ Len(u) \in Nat
      /\ DOMAIN (s \o u) = 1 .. (Len(s) + Len(u))
      /\ \A i \in 1 .. (Len(s) + Len(u)) : (s \o u)[i] = IF i <= Len(s) THEN s[i] ELSE u[i - Len(s)]
  BY ConcatProperties
<1>2. IsFiniteSet(X) /\ IsFiniteSet(Y)
  BY HitsFinite
<1>3. IsFiniteSet(Z) /\ Cardinality(Z) = Cardinality(Y)
  <2>1. f \in [Y -> Z] /\ \A t \in Z : \E a \in Y : f[a] = t
    OBVIOUS
  <2>2. \A a, b \in Y : f[a] = f[b] => a = b
    BY <1>1
  <2> HIDE DEF f, Y, Z
  <2> QED
    BY <1>2, <2>1, <2>2, SameNumber
<1>4. X \cap Z = {}
  BY <1>1
<1>5. {k \in DOMAIN (s \o u) : (s \o u)[k] \in E} = X \cup Z
  <2> SUFFICES ASSUME NEW k
               PROVE  (k \in DOMAIN (s \o u) /\ (s \o u)[k] \in E) <=> (k \in X \/ k \in Z)
    OBVIOUS
  <2>1. k \in X => k \in DOMAIN (s \o u) /\ (s \o u)[k] \in E
    BY <1>1
  <2>2. k \in Z => k \in DOMAIN (s \o u) /\ (s \o u)[k] \in E
    <3> SUFFICES ASSUME NEW j \in Y, k = j + Len(s)
                 PROVE  k \in DOMAIN (s \o u) /\ (s \o u)[k] \in E
      OBVIOUS
    <3>1. j \in 1 .. Len(u) /\ u[j] \in E
      BY <1>1
    <3>2. k \in 1 .. (Len(s) + Len(u)) /\ ~(k <= Len(s)) /\ k - Len(s) = j
      BY <1>1, <3>1
    <3> QED
      BY <1>1, <3>1, <3>2
  <2>3. ASSUME k \in 1 .. (Len(s) + Len(u)), (s \o u)[k] \in E
        PROVE  k \in X \/ k \in Z
    <3>1. CASE k <= Len(s)
      BY <1>1, <2>3, <3>1
    <3>2. CASE ~(k <= Len(s))
      <4>1. k - Len(s) \in 1 .. Len(u) /\ u[k - Len(s)] \in E /\ k - Len(s) + Len(s) = k
        BY <1>1, <2>3, <3>2
      <4>2. k - Len(s) \in Y
        BY <1>1, <4>1
      <4> QED
        BY <4>1, <4>2
    <3> QED
      BY <3>1, <3>2
  <2> QED
    BY <1>1, <2>1, <2>2, <2>3
<1> HIDE DEF X, Y, Z
<1> QED
  BY <1>2, <1>3, <1>4, <1>5, Apart DEF Hits, X, Y

(* The entry made where a test names an id.                                *)
EntryAt(p) == Names(cases[p[1]])[p[2]]

LEMMA MentionFacts ==
  ASSUME cases \in Seq(AnyCase)
  PROVE  /\ \A i \in 1 .. Len(cases) : \A k \in 1 .. Len(Ids(cases[i])) : <<i, k>> \in Mention
         /\ \A p \in Mention : /\ p = <<p[1], p[2]>> /\ p[1] \in 1 .. Len(cases)
                               /\ p[2] \in 1 .. Len(Ids(cases[p[1]])) /\ cases[p[1]] \in AnyCase
                               /\ EntryAt(p) = [id |-> Named(p), result |-> ResultOf(cases[p[1]])]
                               /\ EntryAt(p) \in Entry
         /\ \A p \in Mention : Named(p) \in CaseId \cup {NoCaseId}
<1>1. DOMAIN cases = 1 .. Len(cases) /\ \A i \in 1 .. Len(cases) : cases[i] \in AnyCase
  OBVIOUS
<1>2. \A i \in 1 .. Len(cases) : DOMAIN Ids(cases[i]) = 1 .. Len(Ids(cases[i]))
  BY <1>1, NamesFacts
<1>3. \A i \in 1 .. Len(cases) : \A k \in 1 .. Len(Ids(cases[i])) : <<i, k>> \in Mention
  BY <1>1, <1>2 DEF Mention
<1>4. ASSUME NEW p \in Mention
      PROVE  /\ p = <<p[1], p[2]>> /\ p[1] \in 1 .. Len(cases)
             /\ p[2] \in 1 .. Len(Ids(cases[p[1]])) /\ cases[p[1]] \in AnyCase
  <2>1. PICK i \in 1 .. Len(cases) : p \in {i} \X (1 .. Len(Ids(cases[i])))
    BY <1>1, <1>2 DEF Mention
  <2> QED
    BY <1>1, <2>1
<1>5. \A p \in Mention : /\ EntryAt(p) = [id |-> Named(p), result |-> ResultOf(cases[p[1]])]
                         /\ EntryAt(p) \in Entry
  BY <1>4, NamesFacts DEF EntryAt, Named
<1>6. \A p \in Mention : Named(p) \in CaseId \cup {NoCaseId}
  BY <1>4, NamesFacts DEF Named
<1> QED
  BY <1>3, <1>4, <1>5, <1>6

(* The tests of a case have as many entries in E as there are places that  *)
(* make one.                                                               *)
LEMMA CaseHits ==
  ASSUME cases \in Seq(AnyCase), NEW i \in 1 .. Len(cases), NEW E,
         NEW Q, Q = {p \in Mention : p[1] = i /\ EntryAt(p) \in E}
  PROVE  IsFiniteSet(Q) /\ Cardinality(Q) = Hits(Names(cases[i]), E)
<1> DEFINE K == {k \in DOMAIN Names(cases[i]) : Names(cases[i])[k] \in E}
           f == [k \in K |-> <<i, k>>]
<1>1. /\ Names(cases[i]) \in Seq(Entry) /\ DOMAIN Names(cases[i]) = 1 .. Len(Ids(cases[i]))
  <2>1. cases[i] \in AnyCase
    OBVIOUS
  <2>2. Names(cases[i]) \in Seq(Entry) /\ Len(Names(cases[i])) = Len(Ids(cases[i]))
    BY <2>1, NamesFacts
  <2>3. PICK s \in Seq(Entry) : s = Names(cases[i])
    BY <2>2
  <2>4. DOMAIN s = 1 .. Len(s)
    OBVIOUS
  <2> QED
    BY <2>2, <2>3, <2>4
<1>2. IsFiniteSet(K)
  BY <1>1, HitsFinite
<1>3. f \in [K -> Q]
  <2> SUFFICES ASSUME NEW k \in K
               PROVE  <<i, k>> \in Q
    OBVIOUS
  <2>1. <<i, k>> \in Mention
    BY <1>1, MentionFacts
  <2>2. EntryAt(<<i, k>>) = Names(cases[i])[k]
    BY DEF EntryAt
  <2> QED
    BY <2>1, <2>2
<1>4. \A a, b \in K : f[a] = f[b] => a = b
  OBVIOUS
<1>5. \A p \in Q : \E k \in K : f[k] = p
  <2> SUFFICES ASSUME NEW p \in Q
               PROVE  p[2] \in K /\ p = <<i, p[2]>>
    OBVIOUS
  <2>1. p = <<p[1], p[2]>> /\ p[2] \in 1 .. Len(Ids(cases[p[1]])) /\ p[1] = i /\ EntryAt(p) \in E
    BY MentionFacts
  <2> QED
    BY <1>1, <2>1 DEF EntryAt
<1> HIDE DEF K, f
<1>6. IsFiniteSet(Q) /\ Cardinality(Q) = Cardinality(K)
  BY <1>2, <1>3, <1>4, <1>5, SameNumber
<1> QED
  BY <1>6 DEF Hits, K

(* So it is for the entries of the tests at places S of the file.          *)
LEMMA FileHits ==
  ASSUME cases \in Seq(AnyCase), NEW S, NEW E
  PROVE  /\ NamesOf(S) \in Seq(Entry)
         /\ IsFiniteSet({p \in Mention : p[1] \in S /\ EntryAt(p) \in E})
         /\ Hits(NamesOf(S), E) = Cardinality({p \in Mention : p[1] \in S /\ EntryAt(p) \in E})
<1> DEFINE U(n) == NamesUpTo(S)[n]
           P(n) == {p \in Mention : p[1] <= n /\ p[1] \in S /\ EntryAt(p) \in E}
<1>1. PICK L \in Nat : L = Len(cases)
  OBVIOUS
<1>2. /\ \A n \in 0 .. L : U(n) \in Seq(Entry)
      /\ U(0) = <<>>
      /\ \A n \in 1 .. L : U(n) = IF n \in S THEN U(n - 1) \o Names(cases[n]) ELSE U(n - 1)
  BY <1>1, NamesUpToDef
<1> DEFINE Good == {n \in 0 .. L : IsFiniteSet(P(n)) /\ Hits(U(n), E) = Cardinality(P(n))}
<1> HIDE DEF U
<1>3. 0 \in Good
  <2>1. P(0) = {}
    BY <1>1, MentionFacts
  <2>2. Hits(U(0), E) = Cardinality({})
    <3>1. DOMAIN U(0) = {}
      BY <1>2
    <3>2. {k \in DOMAIN U(0) : U(0)[k] \in E} = {}
      BY <3>1
    <3> QED
      BY <3>2 DEF Hits
  <2> HIDE DEF P
  <2> QED
    BY <2>1, <2>2, FS_EmptySet
<1>4. ASSUME NEW n \in 0 .. L - 1, n \in Good
      PROVE  n + 1 \in Good
  <2>1. n + 1 \in 1 .. L /\ n + 1 \in 0 .. L /\ n \in 0 .. L /\ n + 1 - 1 = n
    BY <1>1
  <2>2. \A p \in Mention : p[1] <= n + 1 <=> p[1] <= n \/ p[1] = n + 1
    <3> SUFFICES ASSUME NEW p \in Mention
                 PROVE  p[1] <= n + 1 <=> p[1] <= n \/ p[1] = n + 1
      OBVIOUS
    <3>1. p[1] \in Nat
      BY <1>1, MentionFacts
    <3> QED
      BY <2>1, <3>1
  <2>3. CASE n + 1 \in S
    <3>1. PICK Q : Q = {p \in Mention : p[1] = n + 1 /\ EntryAt(p) \in E}
      OBVIOUS
    <3>2. IsFiniteSet(Q) /\ Cardinality(Q) = Hits(Names(cases[n + 1]), E)
      BY <1>1, <2>1, <3>1, CaseHits
    <3>3. P(n + 1) = P(n) \cup Q
      BY <2>2, <2>3, <3>1
    <3>4. P(n) \cap Q = {}
      BY <2>1, <3>1
    <3>5. Names(cases[n + 1]) \in Seq(Entry)
      BY <1>1, <2>1, NamesFacts
    <3>6. Hits(U(n + 1), E) = Hits(U(n), E) + Hits(Names(cases[n + 1]), E)
      <4>1. U(n + 1) = U(n) \o Names(cases[n + 1]) /\ U(n) \in Seq(Entry)
        BY <1>2, <2>1, <2>3
      <4> HIDE DEF P, Good
      <4>2. Hits(U(n) \o Names(cases[n + 1]), E) = Hits(U(n), E) + Hits(Names(cases[n + 1]), E)
        BY <3>5, <4>1, HitsConcat
      <4> QED
        BY <4>1, <4>2
    <3> HIDE DEF P
    <3> QED
      BY <1>4, <2>1, <3>2, <3>3, <3>4, <3>6, Apart
  <2>4. CASE n + 1 \notin S
    <3>1. U(n + 1) = U(n)
      BY <1>2, <2>1, <2>4
    <3>2. P(n + 1) = P(n)
      BY <2>2, <2>4
    <3> HIDE DEF P
    <3> QED
      BY <1>4, <2>1, <3>1, <3>2
  <2> QED
    BY <2>3, <2>4
<1>5. L \in Good
  <2>1. \A n \in 0 .. L - 1 : n \in Good => n + 1 \in Good
    BY <1>4
  <2> HIDE DEF Good
  <2>2. \A n \in 0 .. L : n \in Good
    BY <1>3, <2>1, Induction
  <2> QED
    BY <1>1, <2>2
<1>6. P(L) = {p \in Mention : p[1] \in S /\ EntryAt(p) \in E}
  BY <1>1, MentionFacts
<1>7. U(L) = NamesOf(S) /\ U(L) \in Seq(Entry)
  BY <1>1, <1>2 DEF U, NamesOf
<1> HIDE DEF P
<1> QED
  BY <1>5, <1>6, <1>7

(* The attributes count the places where the tests name an id.             *)
LEMMA TallyIs ==
  ASSUME cases \in Seq(AnyCase), NEW own, own \subseteq DOMAIN cases
  PROVE  /\ IsFiniteSet({p \in Mention : p[1] \in own})
         /\ Tally(own) = Cardinality({p \in Mention : p[1] \in own})
         /\ Tally(own) \in Nat
<1> DEFINE First == {p \in Mention : p[1] \in own /\ ~(p[2] > 1)}
           Rest == {p \in Mention : p[1] \in own /\ p[2] > 1}
           All == {p \in Mention : p[1] \in own}
           f == [i \in own |-> <<i, 1>>]
<1>1. IsFiniteSet(All)
  <2>1. {p \in Mention : p[1] \in own /\ EntryAt(p) \in Entry} = All
    BY MentionFacts
  <2>2. IsFiniteSet({p \in Mention : p[1] \in own /\ EntryAt(p) \in Entry})
    BY FileHits
  <2> QED
    BY <2>1, <2>2
<1>2. IsFiniteSet(First) /\ IsFiniteSet(Rest)
  BY <1>1, FS_Subset
<1>3. DOMAIN cases = 1 .. Len(cases) /\ Len(cases) \in Nat /\ IsFiniteSet(own)
  <2>1. DOMAIN cases = 1 .. Len(cases) /\ Len(cases) \in Nat
    OBVIOUS
  <2>2. IsFiniteSet(1 .. Len(cases))
    BY <2>1, FS_Interval
  <2> QED
    BY <2>1, <2>2, FS_Subset
<1>4. \A i \in own : <<i, 1>> \in First
  <2> SUFFICES ASSUME NEW i \in own
               PROVE  <<i, 1>> \in Mention
    <3>1. \A i \in own : <<i, 1>>[1] \in own /\ ~(<<i, 1>>[2] > 1)
      OBVIOUS
    <3> HIDE DEF f, Rest, All
    <3> QED
      BY <3>1
  <2>1. i \in 1 .. Len(cases) /\ 1 \in 1 .. Len(Ids(cases[i]))
    <3>1. cases[i] \in AnyCase /\ i \in 1 .. Len(cases)
      BY <1>3
    <3>2. Len(Ids(cases[i])) \in Nat \ {0}
      BY <3>1, NamesFacts
    <3> QED
      BY <3>1, <3>2
  <2> QED
    BY <2>1, MentionFacts
<1>5. \A p \in First : p[1] \in own /\ p = <<p[1], 1>>
  <2> SUFFICES ASSUME NEW p \in First
               PROVE  p = <<p[1], 1>>
    OBVIOUS
  <2>1. p = <<p[1], p[2]>> /\ p[2] \in 1 .. Len(Ids(cases[p[1]])) /\ cases[p[1]] \in AnyCase
    BY MentionFacts
  <2>2. Len(Ids(cases[p[1]])) \in Nat
    BY <2>1, NamesFacts
  <2>3. p[2] = 1
    BY <2>1, <2>2
  <2> QED
    BY <2>1, <2>3
<1>6. Cardinality(First) = Cardinality(own)
  <2>1. f \in [own -> First] /\ \A a, b \in own : f[a] = f[b] => a = b
    BY <1>4
  <2>2. \A p \in First : \E i \in own : f[i] = p
    BY <1>5
  <2> HIDE DEF f, First
  <2> QED
    BY <1>3, <2>1, <2>2, SameNumber
<1>7. First \cap Rest = {} /\ First \cup Rest = All
  OBVIOUS
<1> HIDE DEF First, Rest, All
<1>8. Cardinality(All) = Cardinality(First) + Cardinality(Rest) /\ Cardinality(All) \in Nat
  BY <1>1, <1>2, <1>7, Apart, FS_CardinalityType
<1> QED
  BY <1>1, <1>6, <1>8 DEF Tally, Rest, All

-----------------------------------------------------------------------------
(* The teams' files.                                                       *)

(* Entries that are one entry, or have one result, are hits.               *)
LEMMA CountIsHits ==
  ASSUME NEW s \in Seq(Entry)
  PROVE  /\ \A e : CountIn(s, e) = Hits(s, {e})
         /\ \A r : With(s, r) = Hits(s, {x \in Entry : x.result = r})
         /\ Len(s) = Hits(s, Entry)
<1>1. DOMAIN s = 1 .. Len(s) /\ Len(s) \in Nat /\ \A k \in DOMAIN s : s[k] \in Entry
  OBVIOUS
<1>2. \A e : CountIn(s, e) = Hits(s, {e})
  <2> SUFFICES ASSUME NEW e
               PROVE  {k \in DOMAIN s : s[k] = e} = {k \in DOMAIN s : s[k] \in {e}}
    BY DEF CountIn, Hits
  <2> QED
    OBVIOUS
<1>3. \A r : With(s, r) = Hits(s, {x \in Entry : x.result = r})
  <2> SUFFICES ASSUME NEW r
               PROVE  {k \in DOMAIN s : s[k].result = r} = {k \in DOMAIN s : s[k] \in {x \in Entry : x.result = r}}
    BY DEF With, Hits
  <2> QED
    BY <1>1
<1>4. Len(s) = Hits(s, Entry)
  <2>1. {k \in DOMAIN s : s[k] \in Entry} = 1 .. Len(s)
    BY <1>1
  <2>2. Cardinality(1 .. Len(s)) = Len(s)
    BY <1>1, FS_Interval
  <2> QED
    BY <2>1, <2>2 DEF Hits
<1> QED
  BY <1>2, <1>3, <1>4

(* What a file that lists the tests at places S holds, and what its        *)
(* attributes say.                                                         *)
LEMMA Listed ==
  ASSUME cases \in Seq(AnyCase), NEW S, S \subseteq DOMAIN cases
  PROVE  /\ NamesOf(S) \in Seq(Entry)
         /\ \A id, r : CountIn(NamesOf(S), [id |-> id, result |-> r])
                       = Cardinality({p \in Mention : p[1] \in S /\ Named(p) = id /\ ResultOf(cases[p[1]]) = r})
         /\ Tally(S) = Len(NamesOf(S)) /\ Tally(S) \in Nat
         /\ \A r : /\ Tally({i \in S : ResultOf(cases[i]) = r}) = With(NamesOf(S), r)
                   /\ Tally({i \in S : ResultOf(cases[i]) = r}) \in Nat
<1>1. NamesOf(S) \in Seq(Entry)
  BY FileHits
<1>2. ASSUME NEW E
      PROVE  Hits(NamesOf(S), E) = Cardinality({p \in Mention : p[1] \in S /\ EntryAt(p) \in E})
  BY FileHits
<1>3. ASSUME NEW id, NEW r
      PROVE  CountIn(NamesOf(S), [id |-> id, result |-> r])
             = Cardinality({p \in Mention : p[1] \in S /\ Named(p) = id /\ ResultOf(cases[p[1]]) = r})
  <2>1. PICK E : E = {[id |-> id, result |-> r]}
    OBVIOUS
  <2>2. CountIn(NamesOf(S), [id |-> id, result |-> r]) = Hits(NamesOf(S), E)
    BY <1>1, <2>1, CountIsHits
  <2>3. \A p \in Mention : EntryAt(p) \in E <=> Named(p) = id /\ ResultOf(cases[p[1]]) = r
    BY <2>1, MentionFacts
  <2>4. {p \in Mention : p[1] \in S /\ EntryAt(p) \in E}
        = {p \in Mention : p[1] \in S /\ Named(p) = id /\ ResultOf(cases[p[1]]) = r}
    BY <2>3
  <2> QED
    BY <1>2, <2>2, <2>4
<1>4. Tally(S) = Len(NamesOf(S)) /\ Tally(S) \in Nat
  <2>1. Len(NamesOf(S)) = Hits(NamesOf(S), Entry)
    BY <1>1, CountIsHits
  <2>2. {p \in Mention : p[1] \in S /\ EntryAt(p) \in Entry} = {p \in Mention : p[1] \in S}
    BY MentionFacts
  <2> QED
    BY <1>2, <2>1, <2>2, TallyIs
<1>5. ASSUME NEW r
      PROVE  /\ Tally({i \in S : ResultOf(cases[i]) = r}) = With(NamesOf(S), r)
             /\ Tally({i \in S : ResultOf(cases[i]) = r}) \in Nat
  <2>1. PICK own : own = {i \in S : ResultOf(cases[i]) = r}
    OBVIOUS
  <2>2. PICK E : E = {x \in Entry : x.result = r}
    OBVIOUS
  <2>3. With(NamesOf(S), r) = Hits(NamesOf(S), E)
    BY <1>1, <2>2, CountIsHits
  <2>4. \A p \in Mention : EntryAt(p) \in E <=> ResultOf(cases[p[1]]) = r
    BY <2>2, MentionFacts
  <2>5. {p \in Mention : p[1] \in S /\ EntryAt(p) \in E} = {p \in Mention : p[1] \in own}
    BY <2>1, <2>4
  <2>6. own \subseteq DOMAIN cases
    BY <2>1
  <2>7. Tally(own) = Cardinality({p \in Mention : p[1] \in own}) /\ Tally(own) \in Nat
    BY <2>6, TallyIs
  <2> QED
    BY <1>2, <2>1, <2>3, <2>5, <2>7
<1> QED
  BY <1>1, <1>3, <1>4, <1>5

(* A team's file lists the team's tests, and its attributes count them.    *)
LEMMA TeamFileIs ==
  ASSUME cases \in Seq(AnyCase), NEW t
  PROVE  LET f == TeamFile(t)
         IN /\ f.entries \in Seq(Entry)
            /\ \A id, r : CountIn(f.entries, [id |-> id, result |-> r])
                          = Cardinality({p \in Mention : /\ TeamOf(cases[p[1]]) = t
                                                         /\ Named(p) = id /\ ResultOf(cases[p[1]]) = r})
            /\ f.counts.tests = Len(f.entries)
            /\ f.counts.failures = With(f.entries, "FAIL")
            /\ f.counts.skipped = With(f.entries, "SKIP")
<1>1. PICK own : own = {i \in DOMAIN cases : TeamOf(cases[i]) = t}
  OBVIOUS
<1>2. own \subseteq DOMAIN cases /\ DOMAIN cases = 1 .. Len(cases)
  BY <1>1
<1>3. \A i \in DOMAIN cases : cases[i] \in AnyCase
  OBVIOUS
<1>4. \A i \in own : /\ cases[i].failure = 1 <=> ResultOf(cases[i]) = "FAIL"
                     /\ cases[i].skipped = 1 <=> ResultOf(cases[i]) = "SKIP"
  <2> SUFFICES ASSUME NEW tc \in AnyCase
               PROVE  /\ tc.failure = 1 <=> ResultOf(tc) = "FAIL"
                      /\ tc.skipped = 1 <=> ResultOf(tc) = "SKIP"
    BY <1>2, <1>3
  <2>1. tc.failure \in {0, 1} /\ tc.skipped \in {0, 1} /\ ~(tc.failure = 1 /\ tc.skipped = 1)
    <3>1. CASE tc \in TestCase
      <4>1. tc.failure \in {0, 1} /\ tc.skipped \in {0, 1} /\ (tc.failure \in {0} \/ tc.skipped \in {0})
        BY <3>1, Zenon DEF TestCase
      <4> QED
        BY <4>1
    <3>2. CASE tc \in MonitorCase
      BY <3>2 DEF MonitorCase
    <3> QED
      BY <3>1, <3>2 DEF AnyCase
  <2>2. CASE tc.failure = 1
    <3>1. ResultOf(tc) = "FAIL"
      BY <2>2 DEF ResultOf
    <3> QED
      BY <2>1, <2>2, <3>1
  <2>3. CASE tc.failure # 1 /\ tc.skipped = 1
    <3>1. ResultOf(tc) = "SKIP"
      BY <2>1, <2>3 DEF ResultOf
    <3> QED
      BY <2>3, <3>1
  <2>4. CASE tc.failure # 1 /\ tc.skipped # 1
    <3>1. ResultOf(tc) = "PASS"
      BY <2>4 DEF ResultOf
    <3> QED
      BY <2>4, <3>1
  <2> QED
    BY <2>2, <2>3, <2>4
<1>5. /\ {i \in own : cases[i].failure = 1} = {i \in own : ResultOf(cases[i]) = "FAIL"}
      /\ {i \in own : cases[i].skipped = 1} = {i \in own : ResultOf(cases[i]) = "SKIP"}
  BY <1>4
<1>6. PICK F, K : /\ F = {i \in own : ResultOf(cases[i]) = "FAIL"}
                  /\ K = {i \in own : ResultOf(cases[i]) = "SKIP"}
  OBVIOUS
<1>7. TeamFile(t) = [entries |-> NamesOf(own), counts |-> Attributes(Tally(own), Tally(F), Tally(K))]
  BY <1>1, <1>5, <1>6 DEF TeamFile
<1>8. PICK f : f = TeamFile(t)
  OBVIOUS
<1>9. /\ f.entries = NamesOf(own) /\ f.counts.tests = Tally(own)
      /\ f.counts.failures = Tally(F) /\ f.counts.skipped = Tally(K)
  BY <1>7, <1>8 DEF Attributes
<1>10. \A p \in Mention : p[1] \in own <=> TeamOf(cases[p[1]]) = t
  BY <1>1, <1>2, MentionFacts
<1>11. \A id, r : {p \in Mention : p[1] \in own /\ Named(p) = id /\ ResultOf(cases[p[1]]) = r}
                  = {p \in Mention : /\ TeamOf(cases[p[1]]) = t
                                     /\ Named(p) = id /\ ResultOf(cases[p[1]]) = r}
  BY <1>10
<1>12. /\ f.entries \in Seq(Entry)
       /\ \A id, r : CountIn(f.entries, [id |-> id, result |-> r])
                     = Cardinality({p \in Mention : /\ TeamOf(cases[p[1]]) = t
                                                    /\ Named(p) = id /\ ResultOf(cases[p[1]]) = r})
  <2>1. /\ NamesOf(own) \in Seq(Entry)
        /\ \A id, r : CountIn(NamesOf(own), [id |-> id, result |-> r])
                      = Cardinality({p \in Mention : p[1] \in own /\ Named(p) = id /\ ResultOf(cases[p[1]]) = r})
    BY <1>2, Listed
  <2> QED
    BY <1>9, <1>11, <2>1
<1>13. /\ f.counts.tests = Len(f.entries)
       /\ f.counts.failures = With(f.entries, "FAIL")
       /\ f.counts.skipped = With(f.entries, "SKIP")
  BY <1>2, <1>6, <1>9, Listed
<1> QED
  BY <1>8, <1>12, <1>13

(* Moved to the end, the tests with several ids enter what they would      *)
(* have entered in their place.                                            *)
GeneratedEntries == NamesOf(DOMAIN cases \ Several) \o NamesOf(Several)
LEMMA GenerateIs ==
  ASSUME cases \in Seq(AnyCase)
  PROVE  /\ GeneratedEntries \in Seq(Entry)
         /\ \A id, r : CountIn(GeneratedEntries, [id |-> id, result |-> r])
                       = Cardinality({p \in Mention : Named(p) = id /\ ResultOf(cases[p[1]]) = r})
<1>0. PICK entries : entries = GeneratedEntries
  OBVIOUS
<1>1. PICK S, R : S = Several /\ R = DOMAIN cases \ S
  OBVIOUS
<1>2. S \subseteq DOMAIN cases /\ R \subseteq DOMAIN cases /\ DOMAIN cases = 1 .. Len(cases)
  BY <1>1 DEF Several
<1>3. NamesOf(S) \in Seq(Entry) /\ NamesOf(R) \in Seq(Entry)
  BY FileHits
<1>4. entries \in Seq(Entry)
  BY <1>0, <1>1, <1>3 DEF GeneratedEntries
<1>5. ASSUME NEW id, NEW r
      PROVE  CountIn(entries, [id |-> id, result |-> r])
             = Cardinality({p \in Mention : Named(p) = id /\ ResultOf(cases[p[1]]) = r})
  <2>1. PICK E : E = {[id |-> id, result |-> r]}
    OBVIOUS
  <2>2. PICK X, Y : X = {p \in Mention : p[1] \in R /\ EntryAt(p) \in E} /\ Y = {p \in Mention : p[1] \in S /\ EntryAt(p) \in E}
    OBVIOUS
  <2>3. Hits(NamesOf(R), E) = Cardinality(X) /\ IsFiniteSet(X)
    BY <2>2, FileHits
  <2>4. Hits(NamesOf(S), E) = Cardinality(Y) /\ IsFiniteSet(Y)
    BY <2>2, FileHits
  <2>5. Hits(entries, E) = Hits(NamesOf(R), E) + Hits(NamesOf(S), E)
    BY <1>0, <1>1, <1>3, HitsConcat DEF GeneratedEntries
  <2>6. X \cap Y = {}
    BY <1>1, <2>2
  <2>7. \A p \in Mention : EntryAt(p) \in E <=> Named(p) = id /\ ResultOf(cases[p[1]]) = r
    BY <2>1, MentionFacts
  <2>8. \A p \in Mention : p[1] \in R \/ p[1] \in S
    BY <1>1, <1>2, MentionFacts
  <2>9. X \cup Y = {p \in Mention : Named(p) = id /\ ResultOf(cases[p[1]]) = r}
    BY <2>2, <2>7, <2>8
  <2>10. Cardinality(X \cup Y) = Hits(entries, E)
    <3>1. Cardinality(X \cup Y) = Cardinality(X) + Cardinality(Y)
      BY <2>3, <2>4, <2>6, Apart
    <3> QED
      BY <2>3, <2>4, <2>5, <3>1
  <2>11. CountIn(entries, [id |-> id, result |-> r]) = Hits(entries, E)
    BY <1>4, <2>1, CountIsHits
  <2> QED
    BY <2>9, <2>10, <2>11
<1> QED
  BY <1>0, <1>4, <1>5

-----------------------------------------------------------------------------
(* The summary.                                                            *)

Key == (CaseId \cup {NoCaseId}) \X Nat
Sums == UNION {[K -> Result] : K \in SUBSET Key}

(* A summary with one more line.                                           *)
LEMMA PutFacts ==
  ASSUME NEW sum \in Sums, NEW key \in Key, NEW r \in Result
  PROVE  /\ Put(sum, key, r) \in Sums
         /\ DOMAIN Put(sum, key, r) = DOMAIN sum \cup {key}
         /\ Put(sum, key, r)[key] = r
         /\ \A k \in DOMAIN sum : k # key => Put(sum, key, r)[k] = sum[k]
<1>1. PICK K \in SUBSET Key : sum \in [K -> Result]
  BY DEF Sums
<1>2. PICK new : new = Put(sum, key, r)
  OBVIOUS
<1>3. new = [x \in {key} \cup K |-> IF x = key THEN r ELSE sum[x]]
  BY <1>1, <1>2 DEF Put
<1>4. {key} \cup K \in SUBSET Key
  BY <1>1
<1>5. new \in [{key} \cup K -> Result]
  BY <1>1, <1>3
<1>6. new \in Sums
  BY <1>4, <1>5 DEF Sums
<1> QED
  BY <1>1, <1>2, <1>3, <1>6

(* The summary before the first line.                                      *)
LEMMA NoLines == <<>> \in Sums /\ DOMAIN <<>> = {}
<1>1. <<>> \in [{} -> Result]
  OBVIOUS
<1>2. {} \in SUBSET Key
  OBVIOUS
<1> QED
  BY <1>1, <1>2 DEF Sums

(* The ids of a test are printed one after the other.                      *)
Acc == [result : Result, sum : Sums]

LEMMA PrintIdFacts ==
  ASSUME NEW acc \in Acc, NEW id \in CaseId, NEW new, new = PrintId(acc, id),
         NEW key, key = <<id, 0>>
  PROVE  /\ new \in Acc /\ new.sum \in Sums /\ acc.sum \in Sums
         /\ DOMAIN new.sum = DOMAIN acc.sum \cup {key}
         /\ new.sum[key] = new.result
         /\ \A k \in DOMAIN acc.sum : k # key => new.sum[k] = acc.sum[k]
         /\ new.result = IF key \in DOMAIN acc.sum /\ (acc.sum[key] = "FAIL" \/ (acc.sum[key] = "PASS" /\ acc.result = "SKIP"))
                         THEN acc.sum[key] ELSE acc.result
<1> DEFINE before == IF key \in DOMAIN acc.sum THEN acc.sum[key] ELSE "none"
           r == IF before = "FAIL" \/ (before = "PASS" /\ acc.result = "SKIP") THEN before ELSE acc.result
<1>1. key \in Key
  BY DEF Key
<1>2. acc.result \in Result /\ acc.sum \in Sums
  BY DEF Acc
<1>3. r \in Result
  BY <1>2 DEF Result
<1>4. new = [result |-> r, sum |-> Put(acc.sum, key, r)]
  BY DEF PrintId
<1>5. r = IF key \in DOMAIN acc.sum /\ (acc.sum[key] = "FAIL" \/ (acc.sum[key] = "PASS" /\ acc.result = "SKIP"))
          THEN acc.sum[key] ELSE acc.result
  OBVIOUS
<1> HIDE DEF r
<1>6. /\ Put(acc.sum, key, r) \in Sums
      /\ DOMAIN Put(acc.sum, key, r) = DOMAIN acc.sum \cup {key}
      /\ Put(acc.sum, key, r)[key] = r
      /\ \A k \in DOMAIN acc.sum : k # key => Put(acc.sum, key, r)[k] = acc.sum[k]
  BY <1>1, <1>2, <1>3, PutFacts
<1>7. new.result = r /\ new.sum = Put(acc.sum, key, r) /\ new \in Acc
  BY <1>3, <1>4, <1>6 DEF Acc
<1> QED
  BY <1>2, <1>5, <1>6, <1>7

LEMMA IdsUpToDef ==
  ASSUME NEW sum \in Sums, NEW tc, tc.ids \in Seq(CaseId), ResultOf(tc) \in Result, NEW L \in Nat, L = Len(tc.ids)
  PROVE  /\ \A k \in 0 .. L : IdsUpTo(sum, tc)[k] \in Acc
         /\ IdsUpTo(sum, tc)[0] = [result |-> ResultOf(tc), sum |-> sum]
         /\ \A k \in 1 .. L : IdsUpTo(sum, tc)[k] = PrintId(IdsUpTo(sum, tc)[k - 1], tc.ids[k])
<1> DEFINE Step(acc, k) == PrintId(acc, tc.ids[k])
           start == [result |-> ResultOf(tc), sum |-> sum]
           U(k) == IdsUpTo(sum, tc)[k]
<1>1. \A acc \in Acc, k \in 1 .. L : Step(acc, k) \in Acc
  <2>1. \A k \in 1 .. L : tc.ids[k] \in CaseId
    OBVIOUS
  <2> QED
    BY <2>1, PrintIdFacts
<1>2. start \in Acc
  BY DEF Acc
<1>3. PICK step \in [Acc \X (1 .. L) -> Acc] : \A acc \in Acc, k \in 1 .. L : step[<<acc, k>>] = Step(acc, k)
  <2> DEFINE f == [x \in Acc \X (1 .. L) |-> Step(x[1], x[2])]
  <2> HIDE DEF Step
  <2>1. f \in [Acc \X (1 .. L) -> Acc] /\ \A acc \in Acc, k \in 1 .. L : f[<<acc, k>>] = Step(acc, k)
    BY <1>1
  <2> HIDE DEF f
  <2> QED
    BY <2>1
<1> HIDE DEF Step, start
<1>4. PICK g \in [0 .. L -> Acc] : g[0] = start /\ \A k \in 1 .. L : g[k] = step[<<g[k - 1], k>>]
  <2>1. \E g : Loop(g, L, Acc, start, step)
    BY <1>2, LoopExists
  <2> QED
    BY <2>1 DEF Loop
<1>5. g = [k \in 0 .. L |-> IF k = 0 THEN start ELSE Step(g[k - 1], k)]
  <2>1. g = [k \in 0 .. L |-> g[k]]
    OBVIOUS
  <2>2. \A k \in 0 .. L : g[k] = IF k = 0 THEN start ELSE Step(g[k - 1], k)
    <3> SUFFICES ASSUME NEW k \in 0 .. L, k # 0
                 PROVE  g[k] = Step(g[k - 1], k)
      BY <1>4
    <3>1. k \in 1 .. L /\ k - 1 \in 0 .. L
      OBVIOUS
    <3> QED
      BY <1>3, <1>4, <3>1
  <2> QED
    BY <2>1, <2>2
<1>6. IdsUpTo(sum, tc) = CHOOSE h : h = [k \in 0 .. L |-> IF k = 0 THEN start ELSE Step(h[k - 1], k)]
  BY DEF IdsUpTo, Step, start
<1>7. IdsUpTo(sum, tc) = [k \in 0 .. L |-> IF k = 0 THEN start ELSE Step(IdsUpTo(sum, tc)[k - 1], k)]
  BY <1>5, <1>6
<1>8. U(0) = start /\ \A k \in 1 .. L : U(k) = Step(U(k - 1), k)
  <2>1. \A k \in 0 .. L : U(k) = IF k = 0 THEN start ELSE Step(U(k - 1), k)
    BY <1>7
  <2> HIDE DEF U
  <2> QED
    BY <2>1
<1>9. \A k \in 0 .. L : U(k) \in Acc
  <2> DEFINE Good == {k \in 0 .. L : U(k) \in Acc}
  <2> HIDE DEF U
  <2>1. 0 \in Good
    BY <1>2, <1>8
  <2>2. \A k \in 0 .. L - 1 : k \in Good => k + 1 \in Good
    <3> SUFFICES ASSUME NEW k \in 0 .. L - 1, U(k) \in Acc
                 PROVE  U(k + 1) \in Acc
      OBVIOUS
    <3>1. k + 1 \in 1 .. L /\ k + 1 - 1 = k
      OBVIOUS
    <3>2. U(k + 1) = Step(U(k), k + 1)
      BY <1>8, <3>1
    <3> QED
      BY <1>1, <3>1, <3>2
  <2>3. \A k \in 0 .. L : k \in Good
    <3> HIDE DEF Good
    <3> QED
      BY <2>1, <2>2, Induction
  <2> QED
    BY <2>3
<1> QED
  BY <1>8, <1>9 DEF Step, start

Fails(sum) == \E k \in DOMAIN sum : sum[k] = "FAIL"
FailsAt(sum, key) == key \in DOMAIN sum /\ sum[key] = "FAIL"
SameAt(sum, new, key) == (key \in DOMAIN new <=> key \in DOMAIN sum) /\ (key \in DOMAIN sum => new[key] = sum[key])

(* What the first k ids of a test have done to the summary: no failure is  *)
(* made up, none is lost, a failing test fails each id, and other lines    *)
(* stay as they are.                                                       *)
IdsDone(sum, tc, k, acc) ==
  /\ acc.result = "FAIL" \/ Fails(acc.sum) => ResultOf(tc) = "FAIL" \/ Fails(sum)
  /\ \A key : FailsAt(sum, key) => FailsAt(acc.sum, key)
  /\ ResultOf(tc) = "FAIL" => acc.result = "FAIL" /\ \A j \in 1 .. k : FailsAt(acc.sum, <<tc.ids[j], 0>>)
  /\ \A key : (\A j \in 1 .. k : key # <<tc.ids[j], 0>>) => SameAt(sum, acc.sum, key)

LEMMA IdsDoneAll ==
  ASSUME NEW sum \in Sums, NEW tc, tc.ids \in Seq(CaseId), ResultOf(tc) \in Result, NEW L \in Nat, L = Len(tc.ids)
  PROVE  \A k \in 0 .. L : IdsDone(sum, tc, k, IdsUpTo(sum, tc)[k])
<1> DEFINE U(k) == IdsUpTo(sum, tc)[k]
           Good == {k \in 0 .. L : IdsDone(sum, tc, k, U(k))}
<1>1. /\ \A k \in 0 .. L : U(k) \in Acc
      /\ U(0) = [result |-> ResultOf(tc), sum |-> sum]
      /\ \A k \in 1 .. L : U(k) = PrintId(U(k - 1), tc.ids[k])
  BY IdsUpToDef
<1> HIDE DEF U
<1>2. 0 \in Good
  <2>1. U(0).result = ResultOf(tc) /\ U(0).sum = sum
    BY <1>1
  <2>2. IdsDone(sum, tc, 0, U(0))
    BY <2>1 DEF IdsDone, SameAt
  <2> QED
    BY <2>2
<1>3. ASSUME NEW m \in 0 .. L - 1, m \in Good
      PROVE  m + 1 \in Good
  <2>1. m + 1 \in 1 .. L /\ m + 1 \in 0 .. L /\ m \in 0 .. L /\ m + 1 - 1 = m
    OBVIOUS
  <2>2. PICK a, b, id, key : a = U(m) /\ b = U(m + 1) /\ id = tc.ids[m + 1] /\ key = <<id, 0>>
    OBVIOUS
  <2>3. a \in Acc /\ id \in CaseId /\ b = PrintId(a, id)
    BY <1>1, <2>1, <2>2
  <2>4. /\ DOMAIN b.sum = DOMAIN a.sum \cup {key}
        /\ b.sum[key] = b.result
        /\ \A k \in DOMAIN a.sum : k # key => b.sum[k] = a.sum[k]
        /\ b.result = IF key \in DOMAIN a.sum /\ (a.sum[key] = "FAIL" \/ (a.sum[key] = "PASS" /\ a.result = "SKIP"))
                      THEN a.sum[key] ELSE a.result
    BY <2>2, <2>3, PrintIdFacts
  <2>5. IdsDone(sum, tc, m, a)
    BY <1>3, <2>2
  <2> HIDE DEF Good
  <2>6. b.result = "FAIL" => a.result = "FAIL" \/ FailsAt(a.sum, key)
    BY <2>4 DEF FailsAt
  <2>7. \A k : FailsAt(a.sum, k) => FailsAt(b.sum, k)
    BY <2>4 DEF FailsAt
  <2>8. a.result = "FAIL" => b.result = "FAIL" /\ FailsAt(b.sum, key)
    BY <2>4 DEF FailsAt
  <2>9. \A k : k # key => SameAt(a.sum, b.sum, k)
    BY <2>4 DEF SameAt
  <2>10. Fails(b.sum) => a.result = "FAIL" \/ Fails(a.sum)
    BY <2>4 DEF Fails
  <2>11. b.result = "FAIL" \/ Fails(b.sum) => ResultOf(tc) = "FAIL" \/ Fails(sum)
    <3>1. FailsAt(a.sum, key) => Fails(a.sum)
      BY DEF FailsAt, Fails
    <3> QED
      BY <2>5, <2>6, <2>10, <3>1 DEF IdsDone
  <2>12. \A k : FailsAt(sum, k) => FailsAt(b.sum, k)
    BY <2>5, <2>7 DEF IdsDone
  <2>13. ASSUME ResultOf(tc) = "FAIL"
         PROVE  b.result = "FAIL" /\ \A j \in 1 .. m + 1 : FailsAt(b.sum, <<tc.ids[j], 0>>)
    <3>1. a.result = "FAIL" /\ \A j \in 1 .. m : FailsAt(a.sum, <<tc.ids[j], 0>>)
      BY <2>5, <2>13 DEF IdsDone
    <3>2. \A j \in 1 .. m + 1 : j \in 1 .. m \/ j = m + 1
      OBVIOUS
    <3> QED
      BY <2>2, <2>7, <2>8, <3>1, <3>2
  <2>14. ASSUME NEW k, \A j \in 1 .. m + 1 : k # <<tc.ids[j], 0>>
         PROVE  SameAt(sum, b.sum, k)
    <3>1. k # key /\ \A j \in 1 .. m : k # <<tc.ids[j], 0>>
      BY <2>1, <2>2, <2>14
    <3>2. SameAt(sum, a.sum, k)
      BY <2>5, <3>1 DEF IdsDone
    <3>3. SameAt(a.sum, b.sum, k)
      BY <2>9, <3>1
    <3> QED
      BY <3>2, <3>3 DEF SameAt
  <2>15. IdsDone(sum, tc, m + 1, b)
    BY <2>11, <2>12, <2>13, <2>14 DEF IdsDone
  <2> QED
    BY <2>1, <2>2, <2>15 DEF Good
<1>4. \A k \in 0 .. L : k \in Good
  <2>1. \A m \in 0 .. L - 1 : m \in Good => m + 1 \in Good
    BY <1>3
  <2> HIDE DEF Good
  <2> QED
    BY <1>2, <2>1, Induction
<1> QED
  BY <1>4 DEF U

(* The lines of a case, and what it does to the summary.                   *)
LinesOf(i) == IF cases[i].ids = <<>> THEN {<<NoCaseId, i>>} ELSE {<<cases[i].ids[j], 0>> : j \in 1 .. Len(cases[i].ids)}
CaseDone(sum, i, new) ==
  LET tc == cases[i]
  IN /\ new \in Sums
     /\ Fails(new) => Fails(sum) \/ (~tc.monitor /\ ResultOf(tc) = "FAIL")
     /\ \A key : FailsAt(sum, key) => FailsAt(new, key)
     /\ ~tc.monitor /\ ResultOf(tc) = "FAIL" => \A key \in LinesOf(i) : FailsAt(new, key)
     /\ \A key : tc.monitor \/ key \notin LinesOf(i) => SameAt(sum, new, key)
     /\ ~tc.monitor /\ Len(tc.ids) = 1 =>
          LET key == <<tc.ids[1], 0>>
          IN key \in DOMAIN new /\ new[key] = IF key \in DOMAIN sum /\ (sum[key] = "FAIL" \/ (sum[key] = "PASS" /\ ResultOf(tc) = "SKIP"))
                                              THEN sum[key] ELSE ResultOf(tc)

(* The ids of a case.                                                      *)
LEMMA CaseIds ==
  ASSUME NEW tc \in AnyCase
  PROVE  tc.ids \in Seq(CaseId) /\ ResultOf(tc) \in Result /\ Len(tc.ids) \in Nat /\ tc.monitor \in BOOLEAN
         /\ (tc.monitor => tc.ids = <<>>)
<1>1. tc \in TestCase => tc.ids \in IdLists /\ tc.monitor \in {FALSE}
  BY DEF TestCase
<1>2. tc \in MonitorCase => tc.ids \in {<<>>} /\ tc.monitor \in {TRUE}
  BY DEF MonitorCase
<1>3. <<>> \in Seq(CaseId)
  OBVIOUS
<1>4. tc.ids \in Seq(CaseId)
  BY <1>1, <1>2, <1>3, ResultFileAssumption DEF AnyCase
<1>5. tc.monitor \in BOOLEAN /\ (tc.monitor => tc.ids = <<>>)
  BY <1>1, <1>2, Zenon DEF AnyCase
<1>6. Len(tc.ids) \in Nat
  BY <1>4
<1> QED
  BY <1>4, <1>5, <1>6, NamesFacts

(* A case leaves a summary a summary.                                      *)
LEMMA PrintCaseType ==
  ASSUME cases \in Seq(AnyCase), NEW i \in 1 .. Len(cases), NEW sum \in Sums
  PROVE  PrintCase(sum, i) \in Sums
<1>1. PICK tc, new : tc = cases[i] /\ new = PrintCase(sum, i)
  OBVIOUS
<1>2. tc \in AnyCase
  BY <1>1
<1>3. tc.ids \in Seq(CaseId) /\ ResultOf(tc) \in Result /\ Len(tc.ids) \in Nat
  BY <1>2, CaseIds
<1>4. new = sum \/ new = Put(sum, <<NoCaseId, i>>, ResultOf(tc)) \/ new = IdsUpTo(sum, tc)[Len(tc.ids)].sum
  BY <1>1, Zenon DEF PrintCase
<1>5. CASE new = Put(sum, <<NoCaseId, i>>, ResultOf(tc))
  <2>1. PICK r \in Result : r = ResultOf(tc)
    BY <1>3
  <2>2. i \in Nat
    <3>1. Len(cases) \in Nat
      OBVIOUS
    <3> QED
      BY <3>1
  <2>3. PICK key \in Key : key = <<NoCaseId, i>>
    BY <2>2 DEF Key
  <2>4. Put(sum, key, r) \in Sums
    BY PutFacts
  <2> QED
    BY <1>1, <1>5, <2>1, <2>3, <2>4
<1>6. CASE new = IdsUpTo(sum, tc)[Len(tc.ids)].sum
  <2>1. PICK L, acc : L = Len(tc.ids) /\ L \in Nat /\ acc = IdsUpTo(sum, tc)[L]
    BY <1>3
  <2>2. L \in 0 .. L
    BY <2>1
  <2>3. acc \in Acc
    BY <1>3, <2>1, <2>2, IdsUpToDef
  <2> QED
    BY <1>1, <1>6, <2>1, <2>3 DEF Acc
<1> QED
  BY <1>1, <1>4, <1>5, <1>6

LEMMA PrintCaseDone ==
  ASSUME cases \in Seq(AnyCase), NEW i \in 1 .. Len(cases), NEW sum \in Sums, <<NoCaseId, i>> \notin DOMAIN sum
  PROVE  CaseDone(sum, i, PrintCase(sum, i))
<1>1. PICK tc, new : tc = cases[i] /\ new = PrintCase(sum, i)
  OBVIOUS
<1>2. tc \in AnyCase
  BY <1>1
<1>3. tc.ids \in Seq(CaseId) /\ ResultOf(tc) \in Result /\ Len(tc.ids) \in Nat /\ tc.monitor \in BOOLEAN
      /\ (tc.monitor => tc.ids = <<>>)
  BY <1>2, CaseIds
<1>4. CASE tc.monitor
  <2>1. new = sum
    BY <1>1, <1>4, Zenon DEF PrintCase
  <2>2. \A key : SameAt(sum, sum, key)
    BY DEF SameAt
  <2>3. CaseDone(sum, i, sum)
    BY <1>1, <1>4, <2>2 DEF CaseDone
  <2> QED
    BY <1>1, <2>1, <2>3
<1>5. CASE ~tc.monitor /\ tc.ids = <<>>
  <2>1. PICK key : key = <<NoCaseId, i>>
    OBVIOUS
  <2>2. new = Put(sum, key, ResultOf(tc))
    BY <1>1, <1>5, <2>1, Zenon DEF PrintCase
  <2>3. key \in Key
    <3>1. Len(cases) \in Nat
      OBVIOUS
    <3>2. i \in Nat
      BY <3>1
    <3> QED
      BY <2>1, <3>2 DEF Key
  <2>4. /\ new \in Sums
        /\ DOMAIN new = DOMAIN sum \cup {key}
        /\ new[key] = ResultOf(tc)
        /\ \A k \in DOMAIN sum : k # key => new[k] = sum[k]
    <3>1. PICK r \in Result : r = ResultOf(tc)
      BY <1>3
    <3>2. new = Put(sum, key, r)
      BY <2>2, <3>1
    <3>3. /\ Put(sum, key, r) \in Sums
          /\ DOMAIN Put(sum, key, r) = DOMAIN sum \cup {key}
          /\ Put(sum, key, r)[key] = r
          /\ \A k \in DOMAIN sum : k # key => Put(sum, key, r)[k] = sum[k]
      BY <2>3, PutFacts
    <3> QED
      BY <3>1, <3>2, <3>3
  <2>5. Len(tc.ids) # 1
    <3>1. Len(<<>>) = 0
      OBVIOUS
    <3> QED
      BY <1>5, <3>1
  <2>6. Fails(new) => Fails(sum) \/ ResultOf(tc) = "FAIL"
    BY <2>4 DEF Fails
  <2>7. \A k : FailsAt(sum, k) => FailsAt(new, k)
    BY <2>1, <2>4 DEF FailsAt
  <2>8. ResultOf(tc) = "FAIL" => FailsAt(new, key)
    BY <2>4 DEF FailsAt
  <2>9. \A k : k # key => SameAt(sum, new, k)
    BY <2>4 DEF SameAt
  <2>10. CaseDone(sum, i, new)
    BY <1>1, <1>5, <2>1, <2>4, <2>5, <2>6, <2>7, <2>8, <2>9 DEF CaseDone, LinesOf
  <2> QED
    BY <1>1, <2>10
<1>6. CASE ~tc.monitor /\ tc.ids # <<>>
  <2>1. PICK L, acc : L = Len(tc.ids) /\ L \in Nat /\ acc = IdsUpTo(sum, tc)[L]
    BY <1>3
  <2>2. new = acc.sum
    BY <1>1, <1>6, <2>1, Zenon DEF PrintCase
  <2>3. L \in 0 .. L
    BY <2>1
  <2>4. IdsDone(sum, tc, L, acc)
    BY <1>3, <2>1, <2>3, IdsDoneAll
  <2>5. acc \in Acc /\ new \in Sums
    <3>1. acc \in Acc
      BY <1>3, <2>1, <2>3, IdsUpToDef
    <3> QED
      BY <2>2, <3>1 DEF Acc
  <2>6. PICK Lines : Lines = {<<tc.ids[j], 0>> : j \in 1 .. L}
    OBVIOUS
  <2>7. Fails(new) => Fails(sum) \/ ResultOf(tc) = "FAIL"
    BY <2>2, <2>4 DEF IdsDone
  <2>8. \A k : FailsAt(sum, k) => FailsAt(new, k)
    BY <2>2, <2>4 DEF IdsDone
  <2>9. ResultOf(tc) = "FAIL" => \A k \in Lines : FailsAt(new, k)
    BY <2>2, <2>4, <2>6 DEF IdsDone
  <2>10. \A k : k \notin Lines => SameAt(sum, new, k)
    BY <2>2, <2>4, <2>6 DEF IdsDone
  <2>11. ASSUME L = 1, NEW key, key = <<tc.ids[1], 0>>
         PROVE  /\ key \in DOMAIN new
                /\ new[key] = IF key \in DOMAIN sum /\ (sum[key] = "FAIL" \/ (sum[key] = "PASS" /\ ResultOf(tc) = "SKIP"))
                              THEN sum[key] ELSE ResultOf(tc)
    <3>1. PICK a : a = IdsUpTo(sum, tc)[0]
      OBVIOUS
    <3>2. a = [result |-> ResultOf(tc), sum |-> sum] /\ a \in Acc /\ acc = PrintId(a, tc.ids[1])
      <4>1. 0 \in 0 .. L /\ 1 \in 1 .. L /\ 1 - 1 = 0
        BY <2>11
      <4>2. /\ IdsUpTo(sum, tc)[0] \in Acc
            /\ IdsUpTo(sum, tc)[0] = [result |-> ResultOf(tc), sum |-> sum]
            /\ IdsUpTo(sum, tc)[1] = PrintId(IdsUpTo(sum, tc)[1 - 1], tc.ids[1])
        BY <1>3, <2>1, <4>1, IdsUpToDef
      <4> QED
        BY <2>1, <2>11, <3>1, <4>1, <4>2
    <3>3. tc.ids[1] \in CaseId
      <4>1. PICK s \in Seq(CaseId) : s = tc.ids
        BY <1>3
      <4>2. Len(s) = 1
        BY <2>1, <2>11, <4>1
      <4>3. s[1] \in CaseId
        <5>1. 1 \in 1 .. Len(s)
          BY <4>2
        <5> QED
          BY <5>1, ElementOfSeq
      <4> QED
        BY <4>1, <4>3
    <3>4. a.sum = sum /\ a.result = ResultOf(tc)
      BY <3>2
    <3>5. /\ DOMAIN acc.sum = DOMAIN a.sum \cup {key}
          /\ acc.sum[key] = acc.result
          /\ acc.result = IF key \in DOMAIN a.sum /\ (a.sum[key] = "FAIL" \/ (a.sum[key] = "PASS" /\ a.result = "SKIP"))
                          THEN a.sum[key] ELSE a.result
      BY <2>11, <3>2, <3>3, PrintIdFacts
    <3> QED
      BY <2>2, <3>4, <3>5
  <2>12. CaseDone(sum, i, new)
    BY <1>1, <1>6, <2>1, <2>5, <2>6, <2>7, <2>8, <2>9, <2>10, <2>11 DEF CaseDone, LinesOf
  <2> QED
    BY <1>1, <2>12
<1> QED
  BY <1>3, <1>4, <1>5, <1>6

(* The lines of the summary after the first n cases.                       *)
LEMMA SummaryUpToDef ==
  ASSUME cases \in Seq(AnyCase), NEW L \in Nat, L = Len(cases)
  PROVE  /\ \A n \in 0 .. L : SummaryUpTo[n] \in Sums
         /\ SummaryUpTo[0] = <<>>
         /\ \A n \in 1 .. L : SummaryUpTo[n] = PrintCase(SummaryUpTo[n - 1], n)
<1> DEFINE Step(acc, n) == PrintCase(acc, n)
           U(n) == SummaryUpTo[n]
           start == <<>>
<1>1. \A acc \in Sums, n \in 1 .. L : Step(acc, n) \in Sums
  BY PrintCaseType
<1>2. start \in Sums
  BY NoLines
<1>3. PICK step \in [Sums \X (1 .. L) -> Sums] : \A acc \in Sums, n \in 1 .. L : step[<<acc, n>>] = Step(acc, n)
  <2> DEFINE f == [x \in Sums \X (1 .. L) |-> Step(x[1], x[2])]
  <2> HIDE DEF Step
  <2>1. f \in [Sums \X (1 .. L) -> Sums] /\ \A acc \in Sums, n \in 1 .. L : f[<<acc, n>>] = Step(acc, n)
    BY <1>1
  <2> HIDE DEF f
  <2> QED
    BY <2>1
<1> HIDE DEF Step, start
<1>4. PICK g \in [0 .. L -> Sums] : g[0] = start /\ \A n \in 1 .. L : g[n] = step[<<g[n - 1], n>>]
  <2>1. \E g : Loop(g, L, Sums, start, step)
    BY <1>2, LoopExists
  <2> QED
    BY <2>1 DEF Loop
<1>5. g = [n \in 0 .. L |-> IF n = 0 THEN start ELSE Step(g[n - 1], n)]
  <2>1. g = [n \in 0 .. L |-> g[n]]
    OBVIOUS
  <2>2. \A n \in 0 .. L : g[n] = IF n = 0 THEN start ELSE Step(g[n - 1], n)
    <3> SUFFICES ASSUME NEW n \in 0 .. L, n # 0
                 PROVE  g[n] = Step(g[n - 1], n)
      BY <1>4
    <3>1. n \in 1 .. L /\ n - 1 \in 0 .. L
      OBVIOUS
    <3> QED
      BY <1>3, <1>4, <3>1
  <2> QED
    BY <2>1, <2>2
<1>6. SummaryUpTo = CHOOSE h : h = [n \in 0 .. L |-> IF n = 0 THEN start ELSE Step(h[n - 1], n)]
  BY DEF SummaryUpTo, Step, start
<1>7. SummaryUpTo = [n \in 0 .. L |-> IF n = 0 THEN start ELSE Step(SummaryUpTo[n - 1], n)]
  BY <1>5, <1>6
<1>8. U(0) = start /\ \A n \in 1 .. L : U(n) = Step(U(n - 1), n)
  <2>1. \A n \in 0 .. L : U(n) = IF n = 0 THEN start ELSE Step(U(n - 1), n)
    BY <1>7
  <2> HIDE DEF U
  <2> QED
    BY <2>1
<1>9. \A n \in 0 .. L : U(n) \in Sums
  <2> DEFINE Good == {n \in 0 .. L : U(n) \in Sums}
  <2> HIDE DEF U
  <2>1. 0 \in Good
    BY <1>2, <1>8
  <2>2. \A n \in 0 .. L - 1 : n \in Good => n + 1 \in Good
    <3> SUFFICES ASSUME NEW n \in 0 .. L - 1, U(n) \in Sums
                 PROVE  U(n + 1) \in Sums
      OBVIOUS
    <3>1. n + 1 \in 1 .. L /\ n + 1 - 1 = n
      OBVIOUS
    <3>2. U(n + 1) = Step(U(n), n + 1)
      BY <1>8, <3>1
    <3> QED
      BY <1>1, <3>1, <3>2
  <2>3. \A n \in 0 .. L : n \in Good
    <3> HIDE DEF Good
    <3> QED
      BY <2>1, <2>2, Induction
  <2> QED
    BY <2>3
<1> QED
  BY <1>8, <1>9 DEF Step, start

(* Every case is printed as PrintCaseDone says: the line of a case without *)
(* id is not there before.                                                 *)
LEMMA SummaryCases ==
  ASSUME cases \in Seq(AnyCase), NEW L \in Nat, L = Len(cases)
  PROVE  \A n \in 1 .. L : CaseDone(SummaryUpTo[n - 1], n, SummaryUpTo[n])
<1> DEFINE U(n) == SummaryUpTo[n]
           Good == {n \in 0 .. L : \A m \in n + 1 .. L : <<NoCaseId, m>> \notin DOMAIN U(n)}
<1>1. /\ \A n \in 0 .. L : U(n) \in Sums
      /\ U(0) = <<>>
      /\ \A n \in 1 .. L : U(n) = PrintCase(U(n - 1), n)
  BY SummaryUpToDef
<1> HIDE DEF U
<1>2. 0 \in Good
  <2>1. DOMAIN U(0) = {}
    BY <1>1, NoLines
  <2> QED
    BY <2>1
<1>3. ASSUME NEW n \in 0 .. L - 1, n \in Good
      PROVE  CaseDone(U(n), n + 1, U(n + 1))
  <2>1. n + 1 \in 1 .. L /\ n \in 0 .. L /\ n + 1 - 1 = n /\ n + 1 \in n + 1 .. L /\ n + 1 \in 1 .. Len(cases)
    OBVIOUS
  <2>2. <<NoCaseId, n + 1>> \notin DOMAIN U(n) /\ U(n) \in Sums
    BY <1>1, <1>3, <2>1
  <2>3. U(n + 1) = PrintCase(U(n), n + 1)
    BY <1>1, <2>1
  <2>4. CaseDone(U(n), n + 1, PrintCase(U(n), n + 1))
    BY <2>1, <2>2, PrintCaseDone
  <2> QED
    BY <2>3, <2>4
<1>4. ASSUME NEW n \in 0 .. L - 1, n \in Good
      PROVE  n + 1 \in Good
  <2>1. CaseDone(U(n), n + 1, U(n + 1))
    BY <1>3, <1>4
  <2>2. n \in Nat /\ n + 1 \in 0 .. L
    OBVIOUS
  <2>3. \A m \in n + 2 .. L : <<NoCaseId, m>> \notin LinesOf(n + 1)
    <3> SUFFICES ASSUME NEW m \in n + 2 .. L
                 PROVE  <<NoCaseId, m>> \notin LinesOf(n + 1)
      OBVIOUS
    <3>1. m # n + 1 /\ m # 0 /\ m \in Nat
      BY <2>2
    <3> QED
      BY <3>1 DEF LinesOf
  <2>4. \A m \in n + 2 .. L : SameAt(U(n), U(n + 1), <<NoCaseId, m>>)
    BY <2>1, <2>3 DEF CaseDone
  <2>5. \A m \in n + 2 .. L : <<NoCaseId, m>> \notin DOMAIN U(n)
    BY <1>4, <2>2
  <2>6. n + 1 + 1 = n + 2
    BY <2>2
  <2> QED
    BY <2>2, <2>4, <2>5, <2>6 DEF SameAt
<1>5. \A n \in 0 .. L : n \in Good
  <2>1. \A n \in 0 .. L - 1 : n \in Good => n + 1 \in Good
    BY <1>4
  <2> HIDE DEF Good
  <2> QED
    BY <1>2, <2>1, Induction
<1>6. SUFFICES ASSUME NEW n \in 1 .. L
               PROVE  CaseDone(U(n - 1), n, U(n))
  BY DEF U
<1>7. n - 1 \in 0 .. L - 1 /\ n - 1 \in 0 .. L /\ n - 1 + 1 = n
  OBVIOUS
<1>8. n - 1 \in Good
  BY <1>5, <1>7
<1> HIDE DEF Good
<1> QED
  BY <1>3, <1>7, <1>8

(* A failure wins over a pass, a pass over a skip.                         *)
Best(R) == IF "FAIL" \in R THEN "FAIL" ELSE IF "PASS" \in R THEN "PASS" ELSE "SKIP"
Better(old, r) == IF old = "FAIL" \/ (old = "PASS" /\ r = "SKIP") THEN old ELSE r

LEMMA BestIs ==
  ASSUME NEW R \in SUBSET Result, NEW r \in Result
  PROVE  /\ R # {} => Best(R \cup {r}) = Better(Best(R), r)
         /\ Best({r}) = r /\ (R # {} => Best(R) \in R)
BY DEF Best, Better, Result

(* What the summary says of the first n cases: a failure comes from a case *)
(* that failed, every such case shows in its lines, and an id that no test *)
(* names with another shows its best result.                               *)
ResultsOfId(id, n) == {ResultOf(cases[i]) : i \in {j \in Naming(id) : j <= n}}
Failed(i) == ~cases[i].monitor /\ ResultOf(cases[i]) = "FAIL"
Shown(sum, n) ==
  /\ Fails(sum) => \E i \in 1 .. n : Failed(i)
  /\ \A i \in 1 .. n : Failed(i) => \A key \in LinesOf(i) : FailsAt(sum, key)
  /\ \A id \in CaseId : (\A i \in Naming(id) : Len(cases[i].ids) = 1) =>
        /\ <<id, 0>> \in DOMAIN sum <=> ResultsOfId(id, n) # {}
        /\ ResultsOfId(id, n) # {} => sum[<<id, 0>>] = Best(ResultsOfId(id, n))

(* The cases that name an id.                                              *)
LEMMA NamingIs ==
  ASSUME cases \in Seq(AnyCase), NEW id \in CaseId
  PROVE  /\ Naming(id) \subseteq 1 .. Len(cases)
         /\ \A i \in Naming(id) : \E j \in 1 .. Len(cases[i].ids) : cases[i].ids[j] = id
         /\ \A i \in Naming(id) : <<id, 0>> \in LinesOf(i) /\ ~cases[i].monitor
         /\ \A i \in 1 .. Len(cases) : <<id, 0>> \in LinesOf(i) => i \in Naming(id)
<1>1. DOMAIN cases = 1 .. Len(cases) /\ \A i \in 1 .. Len(cases) : cases[i] \in AnyCase
  OBVIOUS
<1>2. id # NoCaseId
  BY ResultFileAssumption
<1>3. ASSUME NEW i \in 1 .. Len(cases)
      PROVE  /\ (\E k \in DOMAIN Ids(cases[i]) : Ids(cases[i])[k] = id)
                <=> \E j \in 1 .. Len(cases[i].ids) : cases[i].ids[j] = id
             /\ <<id, 0>> \in LinesOf(i) <=> \E j \in 1 .. Len(cases[i].ids) : cases[i].ids[j] = id
             /\ (\E j \in 1 .. Len(cases[i].ids) : cases[i].ids[j] = id) => ~cases[i].monitor
  <2>1. PICK tc \in AnyCase : tc = cases[i]
    BY <1>1
  <2>2. tc.ids \in Seq(CaseId) /\ tc.monitor \in BOOLEAN /\ (tc.monitor => tc.ids = <<>>)
    BY CaseIds
  <2>3. CASE tc.ids = <<>>
    <3>1. Len(tc.ids) = 0 /\ Ids(tc) = <<NoCaseId>>
      BY <2>3 DEF Ids
    <3>2. \A j \in 1 .. Len(tc.ids) : FALSE
      BY <3>1
    <3>3. DOMAIN Ids(tc) = {1} /\ Ids(tc)[1] = NoCaseId
      BY <3>1
    <3>4. LinesOf(i) = {<<NoCaseId, i>>}
      BY <2>1, <2>3 DEF LinesOf
    <3> QED
      BY <1>2, <2>1, <3>2, <3>3, <3>4
  <2>4. CASE tc.ids # <<>>
    <3>1. PICK s \in Seq(CaseId) : s = tc.ids /\ s = Ids(tc)
      BY <2>2, <2>4 DEF Ids
    <3>2. DOMAIN s = 1 .. Len(s)
      OBVIOUS
    <3>3. LinesOf(i) = {<<s[j], 0>> : j \in 1 .. Len(s)}
      BY <2>1, <2>4, <3>1 DEF LinesOf
    <3>4. <<id, 0>> \in LinesOf(i) <=> \E j \in 1 .. Len(s) : s[j] = id
      BY <3>3
    <3>5. ~tc.monitor
      BY <2>2, <2>4
    <3> QED
      BY <2>1, <3>1, <3>2, <3>4, <3>5
  <2> QED
    BY <2>3, <2>4
<1>4. Naming(id) = {i \in 1 .. Len(cases) : \E j \in 1 .. Len(cases[i].ids) : cases[i].ids[j] = id}
  BY <1>1, <1>3 DEF Naming
<1> QED
  BY <1>3, <1>4

LEMMA ShownNext ==
  ASSUME cases \in Seq(AnyCase), NEW n \in Nat, n + 1 \in 1 .. Len(cases),
         NEW sum \in Sums, NEW new, Shown(sum, n), CaseDone(sum, n + 1, new)
  PROVE  Shown(new, n + 1)
<1>1. PICK tc \in AnyCase : tc = cases[n + 1]
  OBVIOUS
<1>2. tc.ids \in Seq(CaseId) /\ ResultOf(tc) \in Result /\ tc.monitor \in BOOLEAN /\ (tc.monitor => tc.ids = <<>>)
  BY CaseIds
<1>3. /\ Fails(new) => Fails(sum) \/ Failed(n + 1)
      /\ \A key : FailsAt(sum, key) => FailsAt(new, key)
      /\ Failed(n + 1) => \A key \in LinesOf(n + 1) : FailsAt(new, key)
      /\ \A key : tc.monitor \/ key \notin LinesOf(n + 1) => SameAt(sum, new, key)
  BY <1>1 DEF CaseDone, Failed
<1>4. \A i \in 1 .. n + 1 : i \in 1 .. n \/ i = n + 1
  OBVIOUS
<1>5. n + 1 \in 1 .. n + 1 /\ \A i \in 1 .. n : i \in 1 .. n + 1
  OBVIOUS
<1>6. Fails(new) => \E i \in 1 .. n + 1 : Failed(i)
  BY <1>3, <1>5 DEF Shown
<1>7. \A i \in 1 .. n + 1 : Failed(i) => \A key \in LinesOf(i) : FailsAt(new, key)
  BY <1>3, <1>4 DEF Shown
<1>8. ASSUME NEW id \in CaseId, \A i \in Naming(id) : Len(cases[i].ids) = 1
      PROVE  /\ <<id, 0>> \in DOMAIN new <=> ResultsOfId(id, n + 1) # {}
             /\ ResultsOfId(id, n + 1) # {} => new[<<id, 0>>] = Best(ResultsOfId(id, n + 1))
  <2>1. PICK key : key = <<id, 0>>
    OBVIOUS
  <2>2. PICK R : R = ResultsOfId(id, n)
    OBVIOUS
  <2>3. /\ key \in DOMAIN sum <=> R # {}
        /\ R # {} => sum[key] = Best(R)
    BY <1>8, <2>1, <2>2 DEF Shown
  <2>4. Naming(id) \subseteq 1 .. Len(cases) /\ Len(cases) \in Nat
    <3>1. Len(cases) \in Nat
      OBVIOUS
    <3> QED
      BY <3>1, NamingIs
  <2>5. R \in SUBSET Result
    <3>1. \A i \in Naming(id) : ResultOf(cases[i]) \in Result
      <4>1. \A i \in 1 .. Len(cases) : cases[i] \in AnyCase
        OBVIOUS
      <4> QED
        BY <2>4, <4>1, CaseIds
    <3> QED
      BY <2>2, <3>1 DEF ResultsOfId
  <2>6. \A i \in Naming(id) : i <= n + 1 <=> i <= n \/ i = n + 1
    BY <2>4
  <2>7. CASE n + 1 \in Naming(id)
    <3>1. ResultsOfId(id, n + 1) = R \cup {ResultOf(tc)}
      BY <1>1, <2>2, <2>6, <2>7 DEF ResultsOfId
    <3>2. ~tc.monitor /\ Len(tc.ids) = 1 /\ tc.ids[1] = id
      <4>1. \E j \in 1 .. Len(tc.ids) : tc.ids[j] = id
        BY <1>1, <2>7, NamingIs
      <4>2. Len(tc.ids) = 1 /\ ~tc.monitor
        BY <1>1, <1>8, <2>7, NamingIs
      <4> QED
        BY <4>1, <4>2
    <3>3. key \in DOMAIN new /\ new[key] = IF key \in DOMAIN sum /\ (sum[key] = "FAIL" \/ (sum[key] = "PASS" /\ ResultOf(tc) = "SKIP"))
                                           THEN sum[key] ELSE ResultOf(tc)
      BY <1>1, <2>1, <3>2 DEF CaseDone
    <3>4. CASE R = {}
      <4>1. Best({ResultOf(tc)}) = ResultOf(tc)
        BY <1>2, BestIs
      <4> QED
        BY <2>1, <2>3, <3>1, <3>3, <3>4, <4>1
    <3>5. CASE R # {}
      <4>1. Best(R \cup {ResultOf(tc)}) = Better(Best(R), ResultOf(tc))
        BY <1>2, <2>5, <3>5, BestIs
      <4>2. new[key] = Better(sum[key], ResultOf(tc))
        BY <2>3, <3>3, <3>5 DEF Better
      <4> QED
        BY <2>1, <2>3, <3>1, <3>3, <3>5, <4>1, <4>2
    <3> QED
      BY <3>4, <3>5
  <2>8. CASE n + 1 \notin Naming(id)
    <3>1. ResultsOfId(id, n + 1) = R
      BY <2>2, <2>6, <2>8 DEF ResultsOfId
    <3>2. key \notin LinesOf(n + 1)
      BY <2>1, <2>8, NamingIs
    <3>3. SameAt(sum, new, key)
      BY <1>3, <3>2
    <3> QED
      BY <2>1, <2>3, <3>1, <3>3 DEF SameAt
  <2> QED
    BY <2>7, <2>8
<1> QED
  BY <1>6, <1>7, <1>8 DEF Shown

(* So it is for the whole file.                                            *)
LEMMA SummaryIs ==
  ASSUME cases \in Seq(AnyCase)
  PROVE  Summary \in Sums /\ Shown(Summary, Len(cases))
<1> DEFINE U(n) == SummaryUpTo[n]
<1>1. PICK L \in Nat : L = Len(cases)
  OBVIOUS
<1> DEFINE Good == {n \in 0 .. L : Shown(U(n), n)}
<1>2. /\ \A n \in 0 .. L : U(n) \in Sums
      /\ U(0) = <<>>
      /\ \A n \in 1 .. L : CaseDone(U(n - 1), n, U(n))
  BY <1>1, SummaryUpToDef, SummaryCases
<1> HIDE DEF U
<1>3. 0 \in Good
  <2>1. DOMAIN U(0) = {}
    BY <1>2, NoLines
  <2>2. ~Fails(U(0))
    BY <2>1 DEF Fails
  <2>3. \A id \in CaseId : ResultsOfId(id, 0) = {}
    <3> SUFFICES ASSUME NEW id \in CaseId, NEW i \in Naming(id), i <= 0
                 PROVE  FALSE
      BY DEF ResultsOfId
    <3>1. i \in 1 .. L
      BY <1>1, NamingIs
    <3> QED
      BY <3>1
  <2>4. \A i \in 1 .. 0 : FALSE
    OBVIOUS
  <2>5. Shown(U(0), 0)
    BY <2>1, <2>2, <2>3, <2>4 DEF Shown
  <2> QED
    BY <2>5
<1>4. ASSUME NEW n \in 0 .. L - 1, n \in Good
      PROVE  n + 1 \in Good
  <2>1. n \in Nat /\ n + 1 \in 1 .. L /\ n \in 0 .. L /\ n + 1 \in 0 .. L /\ n + 1 - 1 = n
    OBVIOUS
  <2>2. U(n) \in Sums /\ CaseDone(U(n), n + 1, U(n + 1)) /\ Shown(U(n), n)
    BY <1>2, <1>4, <2>1
  <2> HIDE DEF Good
  <2>3. Shown(U(n + 1), n + 1)
    BY <1>1, <2>1, <2>2, ShownNext
  <2> QED
    BY <2>1, <2>3 DEF Good
<1>5. \A n \in 0 .. L : n \in Good
  <2>1. \A n \in 0 .. L - 1 : n \in Good => n + 1 \in Good
    BY <1>4
  <2> HIDE DEF Good
  <2> QED
    BY <1>3, <2>1, Induction
<1>6. L \in 0 .. L
  OBVIOUS
<1> QED
  BY <1>1, <1>2, <1>5, <1>6 DEF Summary, U

-----------------------------------------------------------------------------
(* The invariant.                                                          *)

(* The runner writes at most one case of the monitor, every file of a team *)
(* is a sequence of entries, the health check's not yet among those split, *)
(* and an exception of get leaves no summary.                              *)
MonitorOnce == stage = "written" => \A i, k \in DOMAIN cases : cases[i].monitor /\ cases[k].monitor => i = k
FilesOK == \A t \in DOMAIN files : files[t].entries \in Seq(Entry)
NoHealthCase == stage = "split" => \A t \in DOMAIN files : CountIn(files[t].entries, HealthCase) = 0
CrashHidesAll == text.crashed => summary = <<>>
IInv == /\ TypeOK /\ cases \in Seq(AnyCase) /\ MonitorOnce /\ FilesOK /\ NoHealthCase /\ CrashHidesAll
        /\ ResultsKept /\ SummarySound

Monitors == {i \in DOMAIN cases : cases[i].monitor}
WithoutMonitor == IF Monitors = {} THEN cases
                  ELSE RemoveAt(cases, CHOOSE i \in Monitors : \A k \in Monitors : k <= i)
(* Without the monitor's case the file has the cases that are counted.     *)
LEMMA Removed ==
  ASSUME cases \in Seq(AnyCase), \A i, k \in Monitors : i = k
  PROVE  /\ WithoutMonitor \in Seq(AnyCase)
         /\ Len(WithoutMonitor) = Cardinality(DOMAIN cases \ Monitors)
         /\ IsFiniteSet(DOMAIN cases \ Monitors)
<1>1. PICK L \in Nat : L = Len(cases) /\ DOMAIN cases = 1 .. L
  OBVIOUS
<1>2. IsFiniteSet(1 .. L) /\ Cardinality(1 .. L) = L
  BY FS_Interval
<1>3. IsFiniteSet(DOMAIN cases \ Monitors)
  BY <1>1, <1>2, FS_Subset
<1>4. CASE Monitors = {}
  <2>1. DOMAIN cases \ Monitors = 1 .. L
    BY <1>1, <1>4
  <2> QED
    BY <1>1, <1>2, <1>3, <1>4, <2>1 DEF WithoutMonitor
<1>5. CASE Monitors # {}
  <2>1. PICK m : Monitors = {m}
    BY <1>5
  <2>2. m \in 1 .. L
    BY <1>1, <2>1 DEF Monitors
  <2>3. (CHOOSE i \in Monitors : \A k \in Monitors : k <= i) = m
    BY <2>1, <2>2
  <2>4. WithoutMonitor = SubSeq(cases, 1, m - 1) \o SubSeq(cases, m + 1, L)
    BY <1>1, <1>5, <2>3 DEF RemoveAt, WithoutMonitor
  <2>5. PICK a, b : a = SubSeq(cases, 1, m - 1) /\ b = SubSeq(cases, m + 1, L)
    OBVIOUS
  <2>6. \A i \in 1 .. L : cases[i] \in AnyCase
    BY <1>1
  <2>7. a \in Seq(AnyCase) /\ Len(a) = m - 1
    <3>1. 1 \in Int /\ m - 1 \in Int /\ \A i \in 1 .. m - 1 : cases[i] \in AnyCase
      BY <2>2, <2>6
    <3>2. a \in Seq(AnyCase) /\ Len(a) = IF 1 <= m - 1 THEN m - 1 - 1 + 1 ELSE 0
      BY <2>5, <3>1, SubSeqProperties
    <3> QED
      BY <2>2, <3>2
  <2>8. b \in Seq(AnyCase) /\ Len(b) = L - m
    <3>1. m + 1 \in Int /\ L \in Int /\ \A i \in m + 1 .. L : cases[i] \in AnyCase
      BY <2>2, <2>6
    <3>2. b \in Seq(AnyCase) /\ Len(b) = IF m + 1 <= L THEN L - (m + 1) + 1 ELSE 0
      BY <2>5, <3>1, SubSeqProperties
    <3> QED
      BY <2>2, <3>2
  <2>9. WithoutMonitor \in Seq(AnyCase) /\ Len(WithoutMonitor) = L - 1
    <3>1. WithoutMonitor = a \o b
      BY <2>4, <2>5
    <3>2. a \o b \in Seq(AnyCase) /\ Len(a \o b) = Len(a) + Len(b)
      BY <2>7, <2>8, ConcatProperties
    <3>3. (m - 1) + (L - m) = L - 1
      BY <2>2
    <3> QED
      BY <2>7, <2>8, <3>1, <3>2, <3>3
  <2>10. Cardinality(DOMAIN cases \ Monitors) = L - 1
    <3>1. Cardinality(1 .. L \ {m}) = Cardinality(1 .. L) - 1
      BY <1>2, <2>2, FS_RemoveElement
    <3> QED
      BY <1>1, <1>2, <2>1, <3>1
  <2> QED
    BY <1>3, <2>9, <2>10
<1> QED
  BY <1>4, <1>5

(* The printed summary is sound.                                           *)
LEMMA SummaryGood ==
  ASSUME cases \in Seq(AnyCase)
  PROVE  /\ \A k \in DOMAIN Summary : Summary[k] \in Result
         /\ \A id \in CaseId : (\E i \in Naming(id) : ResultOf(cases[i]) = "FAIL") => Summary[<<id, 0>>] = "FAIL"
         /\ \A id \in CaseId :
              LET results == {ResultOf(cases[i]) : i \in Naming(id)}
              IN (results # {} /\ \A i \in Naming(id) : Len(cases[i].ids) = 1) =>
                   Summary[<<id, 0>>] = IF "FAIL" \in results THEN "FAIL" ELSE IF "PASS" \in results THEN "PASS" ELSE "SKIP"
         /\ (\E k \in DOMAIN Summary : Summary[k] = "FAIL")
            <=> \E i \in DOMAIN cases : ~cases[i].monitor /\ ResultOf(cases[i]) = "FAIL"
<1>1. PICK L \in Nat : L = Len(cases) /\ DOMAIN cases = 1 .. L
  OBVIOUS
<1>2. PICK sum \in Sums : sum = Summary /\ Shown(sum, L)
  BY <1>1, SummaryIs
<1>3. \A k \in DOMAIN sum : sum[k] \in Result
  <2>1. PICK K \in SUBSET Key : sum \in [K -> Result]
    BY DEF Sums
  <2> QED
    BY <2>1
<1>4. \A id \in CaseId : \A i \in Naming(id) : i \in 1 .. L /\ <<id, 0>> \in LinesOf(i) /\ ~cases[i].monitor
  BY <1>1, NamingIs
<1>5. ASSUME NEW id \in CaseId, NEW i \in Naming(id), ResultOf(cases[i]) = "FAIL"
      PROVE  sum[<<id, 0>>] = "FAIL"
  <2>1. Failed(i)
    BY <1>4, <1>5 DEF Failed
  <2>2. FailsAt(sum, <<id, 0>>)
    BY <1>2, <1>4, <2>1 DEF Shown
  <2> QED
    BY <2>2 DEF FailsAt
<1>6. ASSUME NEW id \in CaseId, NEW results, results = {ResultOf(cases[i]) : i \in Naming(id)},
             results # {}, \A i \in Naming(id) : Len(cases[i].ids) = 1
      PROVE  sum[<<id, 0>>] = Best(results)
  <2>1. \A i \in Naming(id) : i <= L
    <3>1. Naming(id) \subseteq 1 .. L
      BY <1>4
    <3> QED
      BY <3>1
  <2>2. results = ResultsOfId(id, L)
    BY <1>6, <2>1 DEF ResultsOfId
  <2> QED
    BY <1>2, <1>6, <2>2 DEF Shown
<1>7. ASSUME Fails(sum)
      PROVE  \E i \in DOMAIN cases : ~cases[i].monitor /\ ResultOf(cases[i]) = "FAIL"
  BY <1>1, <1>2, <1>7 DEF Shown, Failed
<1>8. ASSUME NEW i \in DOMAIN cases, Failed(i)
      PROVE  Fails(sum)
  <2>1. \E key : key \in LinesOf(i)
    <3>1. cases[i] \in AnyCase
      OBVIOUS
    <3>2. cases[i].ids \in Seq(CaseId)
      BY <3>1, CaseIds
    <3>3. CASE cases[i].ids = <<>>
      BY <3>3 DEF LinesOf
    <3>4. CASE cases[i].ids # <<>>
      <4>1. 1 \in 1 .. Len(cases[i].ids)
        BY <3>2, <3>4
      <4> QED
        BY <3>4, <4>1 DEF LinesOf
    <3> QED
      BY <3>3, <3>4
  <2> QED
    BY <1>1, <1>2, <1>8, <2>1 DEF Shown, FailsAt, Fails
<1>9. \A id \in CaseId :
        LET results == {ResultOf(cases[i]) : i \in Naming(id)}
        IN (results # {} /\ \A i \in Naming(id) : Len(cases[i].ids) = 1) =>
             sum[<<id, 0>>] = IF "FAIL" \in results THEN "FAIL" ELSE IF "PASS" \in results THEN "PASS" ELSE "SKIP"
  BY <1>6 DEF Best
<1>10. (\E k \in DOMAIN sum : sum[k] = "FAIL")
       <=> \E i \in DOMAIN cases : ~cases[i].monitor /\ ResultOf(cases[i]) = "FAIL"
  BY <1>7, <1>8 DEF Fails, Failed
<1> QED
  BY <1>2, <1>3, <1>5, <1>9, <1>10

(* A step that leaves the file alone leaves what is read off it alone.     *)
LEMMA SameFile ==
  ASSUME UNCHANGED cases
  PROVE  /\ Mention' = Mention
         /\ \A p : Named(p)' = Named(p)
         /\ \A id : Naming(id)' = Naming(id)
BY DEF Mention, Named, Naming

LEMMA IInvInit == Init => IInv
<1> SUFFICES ASSUME Init
             PROVE  IInv
  OBVIOUS
<1>1. PICK n \in 1 .. MaxTests : cases \in [1 .. n -> AnyCase]
  BY DEF Init, Files, AnyCase
<1>2. n \in Nat
  BY ResultFileAssumption
<1>3. cases \in Seq(AnyCase) /\ DOMAIN cases = 1 .. n
  BY <1>1, <1>2
<1>4. \A i \in DOMAIN cases : cases[i] \in TestCase \cup MonitorCase
  BY <1>1 DEF AnyCase
<1>5. TypeOK /\ NoHealthCase /\ CrashHidesAll
  BY <1>4 DEF Init, TypeOK, Attributes, NoHealthCase, CrashHidesAll
<1>6. MonitorOnce
  <2> SUFFICES ASSUME NEW i \in DOMAIN cases, NEW k \in DOMAIN cases, cases[i].monitor, cases[k].monitor, i # k
               PROVE  FALSE
    BY DEF MonitorOnce
  <2> DEFINE M == {j \in DOMAIN cases : cases[j].monitor}
  <2>1. Cardinality(M) <= 1
    BY DEF Init
  <2>2. IsFiniteSet(M)
    <3>1. IsFiniteSet(1 .. n)
      BY <1>2, FS_Interval
    <3> QED
      BY <1>3, <3>1, FS_Subset
  <2>3. {i, k} \subseteq M
    OBVIOUS
  <2> HIDE DEF M
  <2>4. IsFiniteSet({i, k}) /\ Cardinality({i, k}) = 2
    <3>1. IsFiniteSet({i}) /\ Cardinality({i}) = 1 /\ IsFiniteSet({k}) /\ Cardinality({k}) = 1
      BY FS_Singleton
    <3>2. {i} \cap {k} = {} /\ {i} \cup {k} = {i, k}
      OBVIOUS
    <3> QED
      BY <3>1, <3>2, Apart
  <2>5. Cardinality({i, k}) <= Cardinality(M) /\ Cardinality(M) \in Nat
    BY <2>2, <2>3, FS_Subset, FS_CardinalityType
  <2> QED
    BY <2>1, <2>4, <2>5
<1>7. FilesOK
  BY DEF Init, FilesOK
<1>8. ResultsKept
  BY DEF Init, ResultsKept, SplitComplete, HealthCheckAdds, CountsMatch, GenerateAgreesWithSplit
<1>9. SummarySound
  BY DEF Init, SummarySound, FailureShown, SummaryExact, NoFailureFromNowhere, StatusJust, Printed
<1> QED
  BY <1>3, <1>5, <1>6, <1>7, <1>8, <1>9 DEF IInv

(* Nothing is said of the summary before it is printed.                    *)
LEMMA NotPrinted == stage' \notin {"printed", "decided"} => SummarySound'
BY DEF SummarySound, FailureShown, SummaryExact, NoFailureFromNowhere, StatusJust, Printed

(* Nor does a summary change that stays on the screen.                     *)
LEMMA SummaryStays ==
  ASSUME SummarySound, UNCHANGED <<cases, summary, text>>, Printed' => Printed
  PROVE  FailureShown' /\ SummaryExact' /\ NoFailureFromNowhere'
<1>1. FailureShown'
  BY SameFile DEF SummarySound, FailureShown
<1>2. SummaryExact'
  BY SameFile DEF SummarySound, SummaryExact
<1>3. NoFailureFromNowhere'
  BY DEF SummarySound, NoFailureFromNowhere, ATestFailed
<1> QED
  BY <1>1, <1>2, <1>3

(* What the build's variables keep, whoever rewrites the files.            *)
LEMMA BuildStays ==
  ASSUME IInv, UNCHANGED build
  PROVE  CrashHidesAll'
BY DEF IInv, CrashHidesAll, build

LEMMA RemoveMonitorKeeps == IInv /\ RemoveMonitor => IInv'
<1> SUFFICES ASSUME IInv, RemoveMonitor
             PROVE  IInv'
  OBVIOUS
<1>1. PICK counted : counted = DOMAIN cases \ Monitors
  OBVIOUS
<1>2. /\ cases' = WithoutMonitor
      /\ counts' = Attributes(Cardinality(counted), Cardinality({i \in counted : cases[i].failure = 1}),
                              Cardinality({i \in counted : cases[i].skipped = 1}))
  BY <1>1 DEF RemoveMonitor, Monitors, WithoutMonitor
<1>3. cases \in Seq(AnyCase) /\ \A i, k \in Monitors : i = k
  BY DEF IInv, MonitorOnce, RemoveMonitor, Monitors
<1>4. cases' \in Seq(AnyCase) /\ Len(cases') = Cardinality(counted) /\ IsFiniteSet(counted)
  BY <1>1, <1>2, <1>3, Removed
<1>5. stage' = "replaced" /\ UNCHANGED <<files, build>>
  BY DEF RemoveMonitor
<1>6. /\ counts' \in [tests : Nat, failures : Nat, skipped : Nat]
      /\ counts'.tests = Len(cases')
  <2>1. PICK F, K : F = {i \in counted : cases[i].failure = 1} /\ K = {i \in counted : cases[i].skipped = 1}
    OBVIOUS
  <2>2. IsFiniteSet(F) /\ IsFiniteSet(K)
    BY <1>4, <2>1, FS_Subset
  <2>3. Cardinality(counted) \in Nat /\ Cardinality(F) \in Nat /\ Cardinality(K) \in Nat
    BY <1>4, <2>2, FS_CardinalityType
  <2>4. counts' = Attributes(Cardinality(counted), Cardinality(F), Cardinality(K))
    BY <1>2, <2>1
  <2> QED
    BY <1>4, <2>3, <2>4 DEF Attributes
<1>7. \A i \in DOMAIN cases' : cases'[i] \in TestCase \cup MonitorCase
  BY <1>4 DEF AnyCase
<1>8. TypeOK'
  BY <1>5, <1>6, <1>7 DEF IInv, TypeOK, build
<1>9. MonitorOnce' /\ FilesOK' /\ NoHealthCase'
  BY <1>5 DEF IInv, MonitorOnce, FilesOK, NoHealthCase
<1>10. ResultsKept'
  BY <1>5, <1>6 DEF ResultsKept, SplitComplete, HealthCheckAdds, CountsMatch, GenerateAgreesWithSplit
<1>11. SummarySound'
  BY <1>5, NotPrinted
<1>12. CrashHidesAll'
  BY <1>5, BuildStays
<1> QED
  BY <1>4, <1>8, <1>9, <1>10, <1>11, <1>12 DEF IInv

LEMMA SplitKeeps == IInv /\ Split => IInv'
<1> SUFFICES ASSUME IInv, Split
             PROVE  IInv'
  OBVIOUS
<1>1. PICK teams : teams = {TeamOf(cases[i]) : i \in DOMAIN cases}
  OBVIOUS
<1>2. files' = [t \in teams |-> TeamFile(t)] /\ DOMAIN files' = teams /\ \A t \in teams : files'[t] = TeamFile(t)
  BY <1>1 DEF Split
<1>3. stage' = "split" /\ stage = "replaced" /\ UNCHANGED <<cases, counts, build>>
  BY DEF Split
<1>4. cases \in Seq(AnyCase)
  BY DEF IInv
<1>5. \A t : LET f == TeamFile(t)
             IN /\ f.entries \in Seq(Entry)
                /\ \A id, r : CountIn(f.entries, [id |-> id, result |-> r])
                              = Cardinality({p \in Mention : /\ TeamOf(cases[p[1]]) = t
                                                             /\ Named(p) = id /\ ResultOf(cases[p[1]]) = r})
                /\ f.counts.tests = Len(f.entries)
                /\ f.counts.failures = With(f.entries, "FAIL")
                /\ f.counts.skipped = With(f.entries, "SKIP")
  BY <1>4, TeamFileIs
<1>6. TypeOK'
  <2>1. teams \subseteq Subteam \cup {Unknown}
    BY <1>1 DEF TeamOf
  <2> QED
    BY <1>2, <1>3, <2>1 DEF IInv, TypeOK, build
<1>7. MonitorOnce'
  BY <1>3 DEF MonitorOnce
<1>8. FilesOK'
  BY <1>2, <1>5 DEF FilesOK
<1>9. CountsMatch'
  <2>1. ASSUME NEW t \in teams
        PROVE  /\ files'[t].counts.tests = Len(files'[t].entries)
               /\ files'[t].counts.failures = With(files'[t].entries, "FAIL")
               /\ files'[t].counts.skipped = With(files'[t].entries, "SKIP")
    BY <1>2, <1>5
  <2>2. counts'.tests = Len(cases')
    BY <1>3 DEF IInv, ResultsKept, CountsMatch
  <2> QED
    BY <1>2, <2>1, <2>2 DEF CountsMatch, Entries
<1>10. SplitComplete'
  <2> SUFFICES ASSUME NEW id \in CaseId \cup {NoCaseId}, NEW r \in Result, NEW t \in Subteam \cup {Unknown}
               PROVE  (IF t \in DOMAIN files' THEN CountIn(files'[t].entries, [id |-> id, result |-> r]) ELSE 0)
                      = Cardinality({p \in Mention' : Named(p)' = id /\ ResultOf(cases'[p[1]]) = r /\
                            LET team == cases'[p[1]].team
                            IN IF team \in Subteam THEN team = t ELSE t = Unknown})
    BY DEF SplitComplete, Entries
  <2>1. PICK H : H = {p \in Mention : TeamOf(cases[p[1]]) = t /\ Named(p) = id /\ ResultOf(cases[p[1]]) = r}
    OBVIOUS
  <2>2. \A p : TeamOf(cases[p[1]]) = t <=> LET team == cases[p[1]].team
                                           IN IF team \in Subteam THEN team = t ELSE t = Unknown
    BY DEF TeamOf
  <2>3. {p \in Mention' : Named(p)' = id /\ ResultOf(cases'[p[1]]) = r /\
            LET team == cases'[p[1]].team
            IN IF team \in Subteam THEN team = t ELSE t = Unknown} = H
    BY <1>3, <2>1, <2>2, SameFile
  <2>4. CASE t \in teams
    BY <1>2, <1>5, <2>1, <2>3, <2>4
  <2>5. CASE t \notin teams
    <3>1. \A p \in Mention : p[1] \in DOMAIN cases
      <4>1. DOMAIN cases = 1 .. Len(cases)
        BY <1>4
      <4> QED
        BY <1>4, <4>1, MentionFacts
    <3>2. H = {}
      BY <1>1, <2>1, <2>5, <3>1
    <3>3. Cardinality(H) = 0
      BY <3>2, FS_EmptySet
    <3> QED
      BY <1>2, <2>3, <2>5, <3>3
  <2> QED
    BY <2>4, <2>5
<1>11. GenerateAgreesWithSplit'
  BY <1>3 DEF GenerateAgreesWithSplit
<1>12. SummarySound'
  BY <1>3, NotPrinted
<1>13. NoHealthCase'
  <2> SUFFICES ASSUME NEW t \in teams
               PROVE  CountIn(files'[t].entries, HealthCase) = 0
    BY <1>2 DEF NoHealthCase
  <2>1. PICK H : H = {p \in Mention : /\ TeamOf(cases[p[1]]) = t
                                      /\ Named(p) = HealthId /\ ResultOf(cases[p[1]]) = "FAIL"}
    OBVIOUS
  <2>2. CountIn(files'[t].entries, HealthCase) = Cardinality(H)
    BY <1>2, <1>5, <2>1 DEF HealthCase
  <2>3. H = {}
    <3>1. HealthId \notin CaseId \cup {NoCaseId}
      BY ResultFileAssumption DEF HealthId, NoCaseId
    <3> QED
      BY <1>4, <2>1, <3>1, MentionFacts
  <2> QED
    BY <2>2, <2>3, FS_EmptySet
<1>14. CrashHidesAll' /\ HealthCheckAdds'
  BY <1>3, BuildStays DEF HealthCheckAdds
<1> QED
  BY <1>3, <1>4, <1>6, <1>7, <1>8, <1>9, <1>10, <1>11, <1>12, <1>13, <1>14 DEF IInv, ResultsKept

LEMMA ImportKeeps == IInv /\ Import => IInv'
<1> SUFFICES ASSUME IInv, Import
             PROVE  IInv'
  OBVIOUS
<1>1. stage' = "imported" /\ stage = "split" /\ UNCHANGED <<cases, counts, files, summary, text, status>>
  BY DEF Import
<1>2. rpresult' \in {"SUCCESS", "FAIL"}
  BY DEF Import
<1>3. TypeOK'
  BY <1>1, <1>2 DEF IInv, TypeOK
<1>4. MonitorOnce' /\ FilesOK' /\ NoHealthCase' /\ CrashHidesAll'
  BY <1>1 DEF IInv, MonitorOnce, FilesOK, NoHealthCase, CrashHidesAll
<1>5. ResultsKept'
  BY <1>1 DEF IInv, ResultsKept, SplitComplete, HealthCheckAdds, CountsMatch, GenerateAgreesWithSplit
<1>6. SummarySound'
  BY <1>1, NotPrinted
<1> QED
  BY <1>1, <1>3, <1>4, <1>5, <1>6 DEF IInv

(* One more entry in front of a file.                                      *)
LEMMA OneMore ==
  ASSUME NEW e \in Entry, NEW s \in Seq(Entry)
  PROVE  /\ <<e>> \o s \in Seq(Entry) /\ Len(<<e>> \o s) = Len(s) + 1
         /\ \A r : With(<<e>> \o s, r) = With(s, r) + (IF e.result = r THEN 1 ELSE 0)
         /\ \A x : CountIn(<<e>> \o s, x) = CountIn(s, x) + (IF x = e THEN 1 ELSE 0)
         /\ (<<e>> \o s)[1] = e /\ \A x : CountIn(s, x) \in Nat
<1>0. PICK u : u = <<e>> \o s
  OBVIOUS
<1>1. <<e>> \in Seq(Entry) /\ Len(<<e>>) = 1
  OBVIOUS
<1>2. u \in Seq(Entry) /\ Len(u) = Len(s) + 1
  BY <1>0, <1>1, ConcatProperties
<1>3. ASSUME NEW E
      PROVE  Hits(u, E) = Hits(s, E) + (IF e \in E THEN 1 ELSE 0) /\ Hits(s, E) \in Nat
  <2>1. Hits(u, E) = Hits(<<e>>, E) + Hits(s, E)
    BY <1>0, <1>1, HitsConcat
  <2>2. Hits(<<e>>, E) = IF e \in E THEN 1 ELSE 0
    <3>1. DOMAIN <<e>> = {1} /\ <<e>>[1] = e
      OBVIOUS
    <3>2. CASE e \in E
      <4>1. {k \in DOMAIN <<e>> : <<e>>[k] \in E} = {1}
        BY <3>1, <3>2
      <4> QED
        BY <3>2, <4>1, FS_Singleton DEF Hits
    <3>3. CASE e \notin E
      <4>1. {k \in DOMAIN <<e>> : <<e>>[k] \in E} = {}
        BY <3>1, <3>3
      <4> QED
        BY <3>3, <4>1, FS_EmptySet DEF Hits
    <3> QED
      BY <3>2, <3>3
  <2>3. Hits(s, E) \in Nat
    BY HitsFinite
  <2> QED
    BY <2>1, <2>2, <2>3
<1>4. ASSUME NEW r
      PROVE  With(u, r) = With(s, r) + (IF e.result = r THEN 1 ELSE 0)
  <2>1. PICK E : E = {x \in Entry : x.result = r}
    OBVIOUS
  <2>2. With(u, r) = Hits(u, E) /\ With(s, r) = Hits(s, E)
    BY <1>2, <2>1, CountIsHits
  <2> QED
    BY <1>3, <2>1, <2>2
<1>5. ASSUME NEW x
      PROVE  CountIn(u, x) = CountIn(s, x) + (IF x = e THEN 1 ELSE 0) /\ CountIn(s, x) \in Nat
  <2>1. CountIn(u, x) = Hits(u, {x}) /\ CountIn(s, x) = Hits(s, {x})
    BY <1>2, CountIsHits
  <2> QED
    BY <1>3, <2>1
<1>6. u[1] = e
  BY <1>0, <1>1, ConcatProperties
<1> QED
  BY <1>0, <1>2, <1>4, <1>5, <1>6

(* Nothing is counted in a file without entries.                           *)
LEMMA NothingIn ==
  /\ <<>> \in Seq(Entry) /\ Len(<<>>) = 0
  /\ \A x : CountIn(<<>>, x) = 0
  /\ \A r : With(<<>>, r) = 0
<1>1. DOMAIN <<>> = {}
  OBVIOUS
<1>2. ASSUME NEW x
      PROVE  CountIn(<<>>, x) = 0
  <2>1. {k \in DOMAIN <<>> : <<>>[k] = x} = {}
    BY <1>1
  <2> QED
    BY <2>1, FS_EmptySet DEF CountIn
<1>3. ASSUME NEW r
      PROVE  With(<<>>, r) = 0
  <2>1. {k \in DOMAIN <<>> : <<>>[k].result = r} = {}
    BY <1>1
  <2> QED
    BY <2>1, FS_EmptySet DEF With
<1> QED
  BY <1>2, <1>3

LEMMA HealthCheckKeeps ==
  ASSUME IInv, NEW t \in Subteam \cup {Unknown}, HealthCheck(t)
  PROVE  IInv'
<1>1. stage' = "checked" /\ stage = "split" /\ UNCHANGED <<cases, counts, build>>
  BY DEF HealthCheck
<1>2. PICK in : in = IF t \in DOMAIN files THEN files[t] ELSE [entries |-> <<>>, counts |-> Attributes(0, 0, 0)]
  OBVIOUS
<1>3. PICK out : out = [entries |-> <<HealthCase>> \o in.entries,
                        counts |-> Attributes(in.counts.tests + 1, in.counts.failures + 1, 0)]
  OBVIOUS
<1>4. files' = [x \in DOMAIN files \cup {t} |-> IF x = t THEN out ELSE files[x]]
  BY <1>2, <1>3 DEF HealthCheck
<1>5. /\ DOMAIN files' = DOMAIN files \cup {t} /\ files'[t] = out
      /\ \A x \in DOMAIN files : x # t => files'[x] = files[x]
  BY <1>4
<1>6. /\ HealthCase \in Entry /\ HealthCase.result = "FAIL" /\ HealthCase.id = HealthId
      /\ HealthId \notin CaseId \cup {NoCaseId}
  BY ResultFileAssumption DEF HealthCase, Entry, Result, HealthId, NoCaseId
<1>7. PICK s : s = in.entries
  OBVIOUS
<1>8. /\ s \in Seq(Entry) /\ in.counts.tests = Len(s) /\ in.counts.failures = With(s, "FAIL")
      /\ CountIn(s, HealthCase) = 0
      /\ \A x : CountIn(s, x) = IF t \in DOMAIN files THEN CountIn(files[t].entries, x) ELSE 0
  <2>1. CASE t \in DOMAIN files
    <3>1. in = files[t] /\ s = files[t].entries
      BY <1>2, <1>7, <2>1
    <3>2. s \in Seq(Entry) /\ CountIn(s, HealthCase) = 0
      BY <1>1, <2>1, <3>1 DEF IInv, FilesOK, NoHealthCase
    <3>3. in.counts.tests = Len(s) /\ in.counts.failures = With(s, "FAIL")
      BY <1>1, <2>1, <3>1 DEF IInv, ResultsKept, CountsMatch, Entries
    <3> QED
      BY <2>1, <3>1, <3>2, <3>3
  <2>2. CASE t \notin DOMAIN files
    <3>1. s = <<>> /\ in.counts.tests = 0 /\ in.counts.failures = 0
      BY <1>2, <1>7, <2>2 DEF Attributes
    <3> QED
      BY <2>2, <3>1, NothingIn
  <2> QED
    BY <2>1, <2>2
<1>9. PICK u : u = <<HealthCase>> \o s
  OBVIOUS
<1>10. /\ u \in Seq(Entry) /\ Len(u) = Len(s) + 1 /\ With(u, "FAIL") = With(s, "FAIL") + 1
       /\ u[1] = HealthCase /\ CountIn(u, HealthCase) = 1
       /\ \A x : x # HealthCase => CountIn(u, x) = CountIn(s, x)
  <2>1. /\ <<HealthCase>> \o s \in Seq(Entry) /\ Len(<<HealthCase>> \o s) = Len(s) + 1
        /\ \A r : With(<<HealthCase>> \o s, r) = With(s, r) + (IF HealthCase.result = r THEN 1 ELSE 0)
        /\ \A x : CountIn(<<HealthCase>> \o s, x) = CountIn(s, x) + (IF x = HealthCase THEN 1 ELSE 0)
        /\ (<<HealthCase>> \o s)[1] = HealthCase /\ \A x : CountIn(s, x) \in Nat
    BY <1>6, <1>8, OneMore
  <2> QED
    BY <1>6, <1>8, <1>9, <2>1
<1>11. /\ out.entries = u /\ out.counts.tests = in.counts.tests + 1
       /\ out.counts.failures = in.counts.failures + 1
  BY <1>3, <1>7, <1>9 DEF Attributes
<1>12. TypeOK'
  BY <1>1, <1>5 DEF IInv, TypeOK, build
<1>13. MonitorOnce' /\ NoHealthCase'
  BY <1>1 DEF MonitorOnce, NoHealthCase
<1>14. FilesOK'
  BY <1>5, <1>10, <1>11 DEF IInv, FilesOK
<1>15. CountsMatch'
  <2>1. ASSUME NEW x \in DOMAIN files'
        PROVE  /\ files'[x].counts.tests = Len(files'[x].entries)
               /\ files'[x].counts.failures = With(files'[x].entries, "FAIL")
    <3>1. CASE x = t
      BY <1>5, <1>8, <1>10, <1>11, <3>1
    <3>2. CASE x # t
      <4>1. x \in DOMAIN files /\ files'[x] = files[x]
        BY <1>5, <3>2
      <4>2. files[x].counts.tests = Len(files[x].entries) /\ files[x].counts.failures = With(files[x].entries, "FAIL")
        BY <1>1, <4>1 DEF IInv, ResultsKept, CountsMatch, Entries
      <4> QED
        BY <4>1, <4>2
    <3> QED
      BY <3>1, <3>2
  <2>2. counts'.tests = Len(cases')
    BY <1>1 DEF IInv, ResultsKept, CountsMatch
  <2> QED
    BY <1>1, <2>1, <2>2 DEF CountsMatch, Entries
<1>16. SplitComplete'
  <2> SUFFICES ASSUME NEW id \in CaseId \cup {NoCaseId}, NEW r \in Result, NEW x \in Subteam \cup {Unknown}
               PROVE  (IF x \in DOMAIN files' THEN CountIn(files'[x].entries, [id |-> id, result |-> r]) ELSE 0)
                      = Cardinality({p \in Mention' : Named(p)' = id /\ ResultOf(cases'[p[1]]) = r /\
                            LET team == cases'[p[1]].team
                            IN IF team \in Subteam THEN team = x ELSE x = Unknown})
    BY DEF SplitComplete, Entries
  <2>1. PICK e : e = [id |-> id, result |-> r]
    OBVIOUS
  <2>2. e # HealthCase
    <3>1. e.id # HealthCase.id
      BY <1>6, <2>1
    <3> QED
      BY <3>1
  <2>3. PICK H : H = {p \in Mention : Named(p) = id /\ ResultOf(cases[p[1]]) = r /\
                        LET team == cases[p[1]].team
                        IN IF team \in Subteam THEN team = x ELSE x = Unknown}
    OBVIOUS
  <2>4. H = {p \in Mention' : Named(p)' = id /\ ResultOf(cases'[p[1]]) = r /\
                LET team == cases'[p[1]].team
                IN IF team \in Subteam THEN team = x ELSE x = Unknown}
    BY <1>1, <2>3, SameFile
  <2>5. (IF x \in DOMAIN files THEN CountIn(files[x].entries, e) ELSE 0) = Cardinality(H)
    BY <1>1, <2>1, <2>3 DEF IInv, ResultsKept, SplitComplete, Entries
  <2>6. (IF x \in DOMAIN files' THEN CountIn(files'[x].entries, e) ELSE 0) = Cardinality(H)
    <3>1. CASE x = t
      <4>1. x \in DOMAIN files' /\ files'[x].entries = u
        BY <1>5, <1>11, <3>1
      <4>2. CountIn(u, e) = CountIn(s, e)
        BY <1>10, <2>2
      <4> QED
        BY <1>8, <2>5, <3>1, <4>1, <4>2
    <3>2. CASE x # t
      BY <1>5, <2>5, <3>2
    <3> QED
      BY <3>1, <3>2
  <2> QED
    BY <2>1, <2>4, <2>6
<1>17. HealthCheckAdds'
  <2>1. t \in DOMAIN files' /\ files'[t].entries[1] = HealthCase
    BY <1>5, <1>10, <1>11
  <2>2. ASSUME NEW x \in DOMAIN files'
        PROVE  CountIn(files'[x].entries, HealthCase) = IF x = t THEN 1 ELSE 0
    <3>1. CASE x = t
      BY <1>5, <1>10, <1>11, <3>1
    <3>2. CASE x # t
      BY <1>1, <1>5, <3>2 DEF IInv, NoHealthCase
    <3> QED
      BY <3>1, <3>2
  <2> QED
    BY <2>1, <2>2 DEF HealthCheckAdds, Entries
<1>18. GenerateAgreesWithSplit'
  BY <1>1 DEF GenerateAgreesWithSplit
<1>19. SummarySound'
  BY <1>1, NotPrinted
<1>20. CrashHidesAll'
  BY <1>1, BuildStays
<1> QED
  BY <1>1, <1>12, <1>13, <1>14, <1>15, <1>16, <1>17, <1>18, <1>19, <1>20 DEF IInv, ResultsKept

LEMMA GenerateKeeps ==
  ASSUME IInv, NEW t \in Subteam, Generate(t)
  PROVE  IInv'
<1>1. stage' = "generated" /\ stage = "replaced" /\ UNCHANGED <<cases, counts, build>>
  BY DEF Generate
<1>2. PICK entries : entries = GeneratedEntries
  OBVIOUS
<1>3. DOMAIN files' = {t} /\ files'[t].entries = entries
  BY <1>2 DEF Generate, GeneratedEntries
<1>4. cases \in Seq(AnyCase)
  BY DEF IInv
<1>5. /\ entries \in Seq(Entry)
      /\ \A id, r : CountIn(entries, [id |-> id, result |-> r])
                    = Cardinality({p \in Mention : Named(p) = id /\ ResultOf(cases[p[1]]) = r})
  BY <1>2, <1>4, GenerateIs
<1>6. TypeOK'
  BY <1>1, <1>3 DEF IInv, TypeOK, build
<1>7. MonitorOnce' /\ NoHealthCase' /\ CrashHidesAll'
  BY <1>1, BuildStays DEF MonitorOnce, NoHealthCase
<1>8. FilesOK'
  BY <1>3, <1>5 DEF FilesOK
<1>9. CountsMatch' /\ SplitComplete' /\ HealthCheckAdds'
  BY <1>1 DEF IInv, ResultsKept, CountsMatch, SplitComplete, HealthCheckAdds
<1>10. GenerateAgreesWithSplit'
  <2> SUFFICES ASSUME NEW id \in CaseId \cup {NoCaseId}, NEW r \in Result
               PROVE  CountIn(entries, [id |-> id, result |-> r])
                      = Cardinality({p \in Mention' : Named(p)' = id /\ ResultOf(cases'[p[1]]) = r})
    BY <1>3 DEF GenerateAgreesWithSplit, Entries
  <2>1. {p \in Mention' : Named(p)' = id /\ ResultOf(cases'[p[1]]) = r}
        = {p \in Mention : Named(p) = id /\ ResultOf(cases[p[1]]) = r}
    BY <1>1, SameFile
  <2> QED
    BY <1>5, <2>1
<1>11. SummarySound'
  BY <1>1, NotPrinted
<1> QED
  BY <1>1, <1>4, <1>6, <1>7, <1>8, <1>9, <1>10, <1>11 DEF IInv, ResultsKept

LEMMA PrintResultKeeps == IInv /\ PrintResult => IInv'
<1> SUFFICES ASSUME IInv, PrintResult
             PROVE  IInv'
  OBVIOUS
<1>1. /\ stage' = "printed" /\ stage \in {"replaced", "imported"}
      /\ UNCHANGED <<cases, counts, files, rpresult, status>>
  BY DEF PrintResult
<1>2. PICK word \in BOOLEAN :
        \/ summary' = Summary /\ text' = [crashed |-> FALSE, word |-> word]
        \/ summary' = <<>> /\ text' = [crashed |-> TRUE, word |-> word]
  BY DEF PrintResult
<1>3. /\ text'.crashed => summary' = <<>>
      /\ ~text'.crashed => summary' = Summary
  BY <1>2
<1>13. text' \in [crashed : BOOLEAN, word : BOOLEAN]
  <2>1. \A c \in BOOLEAN : [crashed |-> c, word |-> word] \in [crashed : BOOLEAN, word : BOOLEAN]
    BY Zenon
  <2>2. \E c \in BOOLEAN : text' = [crashed |-> c, word |-> word]
    BY <1>2, Zenon
  <2> QED
    BY <2>1, <2>2, Zenon
<1>4. cases \in Seq(AnyCase)
  BY DEF IInv
<1>5. /\ \A k \in DOMAIN Summary : Summary[k] \in Result
      /\ \A id \in CaseId : (\E i \in Naming(id) : ResultOf(cases[i]) = "FAIL") => Summary[<<id, 0>>] = "FAIL"
      /\ (\E k \in DOMAIN Summary : Summary[k] = "FAIL") <=> ATestFailed
  BY <1>4, SummaryGood DEF ATestFailed
<1>6. TypeOK'
  <2>1. \A k \in DOMAIN summary' : summary'[k] \in Result
    BY <1>2, <1>5
  <2> QED
    BY <1>1, <1>13, <2>1 DEF IInv, TypeOK
<1>7. MonitorOnce' /\ FilesOK' /\ NoHealthCase' /\ CrashHidesAll'
  BY <1>1, <1>3 DEF IInv, MonitorOnce, FilesOK, NoHealthCase, CrashHidesAll
<1>8. ResultsKept'
  BY <1>1 DEF IInv, ResultsKept, CountsMatch, SplitComplete, HealthCheckAdds, GenerateAgreesWithSplit
<1>9. FailureShown'
  <2>1. \A id : Naming(id)' = Naming(id)
    BY <1>1, SameFile
  <2>2. ASSUME ~text'.crashed
        PROVE  \A id \in CaseId : (\E i \in Naming(id)' : ResultOf(cases'[i]) = "FAIL") => summary'[<<id, 0>>] = "FAIL"
    BY <1>1, <1>3, <1>5, <2>1, <2>2
  <2> QED
    BY <2>2 DEF FailureShown, Printed
<1>10. SummaryExact'
  <2> SUFFICES ASSUME NEW id \in CaseId, ~text'.crashed
               PROVE  LET results == {ResultOf(cases'[i]) : i \in Naming(id)'}
                      IN (results # {} /\ \A i \in Naming(id)' : Len(cases'[i].ids) = 1) =>
                           summary'[<<id, 0>>] = IF "FAIL" \in results THEN "FAIL"
                                                 ELSE IF "PASS" \in results THEN "PASS" ELSE "SKIP"
    BY DEF SummaryExact, Printed
  <2>1. Naming(id)' = Naming(id)
    BY <1>1, SameFile
  <2>2. LET results == {ResultOf(cases[i]) : i \in Naming(id)}
        IN (results # {} /\ \A i \in Naming(id) : Len(cases[i].ids) = 1) =>
             Summary[<<id, 0>>] = IF "FAIL" \in results THEN "FAIL" ELSE IF "PASS" \in results THEN "PASS" ELSE "SKIP"
    BY <1>4, SummaryGood
  <2>3. summary' = Summary
    BY <1>3
  <2> QED
    BY <1>1, <2>1, <2>2, <2>3
<1>11. NoFailureFromNowhere'
  <2>1. ATestFailed' <=> ATestFailed
    BY <1>1 DEF ATestFailed
  <2>2. ~text'.crashed => ((\E k \in DOMAIN summary' : summary'[k] = "FAIL") <=> ATestFailed)
    BY <1>3, <1>5
  <2> QED
    BY <2>1, <2>2 DEF NoFailureFromNowhere, Printed
<1>12. StatusJust'
  BY <1>1 DEF StatusJust
<1> QED
  BY <1>1, <1>4, <1>6, <1>7, <1>8, <1>9, <1>10, <1>11, <1>12 DEF IInv, SummarySound

LEMMA DecideKeeps == IInv /\ Decide => IInv'
<1> SUFFICES ASSUME IInv, Decide
             PROVE  IInv'
  OBVIOUS
<1>1. /\ stage' = "decided" /\ stage = "printed"
      /\ UNCHANGED <<cases, counts, files, rpresult, summary, text>>
      /\ status' = IF FinalResult = "SUCCESS" /\ rpresult = "SUCCESS" THEN 0 ELSE 1
  BY DEF Decide
<1>2. TypeOK'
  BY <1>1 DEF IInv, TypeOK
<1>3. MonitorOnce' /\ FilesOK' /\ NoHealthCase' /\ CrashHidesAll'
  BY <1>1 DEF IInv, MonitorOnce, FilesOK, NoHealthCase, CrashHidesAll
<1>4. ResultsKept'
  BY <1>1 DEF IInv, ResultsKept, CountsMatch, SplitComplete, HealthCheckAdds, GenerateAgreesWithSplit
<1>5. SummarySound
  BY DEF IInv
<1>6. FailureShown' /\ SummaryExact' /\ NoFailureFromNowhere'
  <2>1. Printed' => Printed
    BY <1>1 DEF Printed
  <2> QED
    BY <1>1, <1>5, <2>1, SummaryStays
<1>7. StatusJust'
  <2> DEFINE Shows == \E k \in DOMAIN summary : summary[k] = "FAIL"
  <2>1. ~text.crashed => (Shows <=> ATestFailed)
    BY <1>1, <1>5 DEF SummarySound, NoFailureFromNowhere, Printed
  <2>2. text.crashed => ~Shows
    BY DEF IInv, CrashHidesAll
  <2>3. ATestFailed' <=> ATestFailed
    BY <1>1 DEF ATestFailed
  <2>4. FinalResult = IF text.word \/ Shows THEN "FAIL" ELSE "SUCCESS"
    BY DEF FinalResult
  <2>5. rpresult \in {"SUCCESS", "FAIL"}
    BY DEF IInv, TypeOK
  <2> HIDE DEF Shows
  <2>6. (ATestFailed /\ ~text.crashed) \/ rpresult = "FAIL" => status' = 1
    BY <1>1, <2>1, <2>4
  <2>7. status' = 1 => ATestFailed \/ rpresult = "FAIL" \/ text.word
    BY <1>1, <2>1, <2>2, <2>4, <2>5
  <2> QED
    BY <1>1, <2>3, <2>6, <2>7 DEF StatusJust
<1> QED
  BY <1>1, <1>2, <1>3, <1>4, <1>6, <1>7 DEF IInv, SummarySound

LEMMA StutterKeeps == IInv /\ UNCHANGED vars => IInv'
<1> SUFFICES ASSUME IInv, UNCHANGED vars
             PROVE  IInv'
  OBVIOUS
<1>1. UNCHANGED <<stage, cases, counts, files, rpresult, summary, text, status>>
  BY DEF vars, build
<1>2. TypeOK' /\ MonitorOnce' /\ FilesOK' /\ NoHealthCase' /\ CrashHidesAll'
  BY <1>1 DEF IInv, TypeOK, MonitorOnce, FilesOK, NoHealthCase, CrashHidesAll
<1>3. ResultsKept'
  <2>1. SplitComplete'
    <3> SUFFICES ASSUME stage \in {"split", "checked"},
                        NEW id \in CaseId \cup {NoCaseId}, NEW r \in Result, NEW t \in Subteam \cup {Unknown}
                 PROVE  (IF t \in DOMAIN files THEN CountIn(files[t].entries, [id |-> id, result |-> r]) ELSE 0)
                        = Cardinality({p \in Mention' : Named(p)' = id /\ ResultOf(cases'[p[1]]) = r /\
                              LET team == cases'[p[1]].team
                              IN IF team \in Subteam THEN team = t ELSE t = Unknown})
      BY <1>1 DEF SplitComplete, Entries
    <3>1. {p \in Mention' : Named(p)' = id /\ ResultOf(cases'[p[1]]) = r /\
              LET team == cases'[p[1]].team
              IN IF team \in Subteam THEN team = t ELSE t = Unknown}
          = {p \in Mention : Named(p) = id /\ ResultOf(cases[p[1]]) = r /\
              LET team == cases[p[1]].team
              IN IF team \in Subteam THEN team = t ELSE t = Unknown}
      BY <1>1, SameFile
    <3>2. (IF t \in DOMAIN files THEN CountIn(files[t].entries, [id |-> id, result |-> r]) ELSE 0)
          = Cardinality({p \in Mention : Named(p) = id /\ ResultOf(cases[p[1]]) = r /\
                LET team == cases[p[1]].team
                IN IF team \in Subteam THEN team = t ELSE t = Unknown})
      BY DEF IInv, ResultsKept, SplitComplete, Entries
    <3> QED
      BY <3>1, <3>2
  <2>2. CountsMatch'
    BY <1>1 DEF IInv, ResultsKept, CountsMatch, Entries
  <2>3. GenerateAgreesWithSplit'
    <3> SUFFICES ASSUME stage = "generated", NEW t \in DOMAIN files,
                        NEW id \in CaseId \cup {NoCaseId}, NEW r \in Result
                 PROVE  CountIn(files[t].entries, [id |-> id, result |-> r])
                        = Cardinality({p \in Mention' : Named(p)' = id /\ ResultOf(cases'[p[1]]) = r})
      BY <1>1 DEF GenerateAgreesWithSplit, Entries
    <3>1. {p \in Mention' : Named(p)' = id /\ ResultOf(cases'[p[1]]) = r}
          = {p \in Mention : Named(p) = id /\ ResultOf(cases[p[1]]) = r}
      BY <1>1, SameFile
    <3> QED
      BY <3>1 DEF IInv, ResultsKept, GenerateAgreesWithSplit, Entries
  <2>4. HealthCheckAdds'
    BY <1>1 DEF IInv, ResultsKept, HealthCheckAdds, Entries
  <2> QED
    BY <2>1, <2>2, <2>3, <2>4 DEF ResultsKept
<1>4. SummarySound'
  <2>1. SummarySound
    BY DEF IInv
  <2>2. FailureShown' /\ SummaryExact' /\ NoFailureFromNowhere'
    <3>1. Printed' => Printed
      BY <1>1 DEF Printed
    <3> QED
      BY <1>1, <2>1, <3>1, SummaryStays
  <2>3. StatusJust'
    BY <1>1, <2>1 DEF SummarySound, StatusJust, ATestFailed
  <2> QED
    BY <2>2, <2>3 DEF SummarySound
<1> QED
  BY <1>1, <1>2, <1>3, <1>4 DEF IInv

LEMMA IInvNext == IInv /\ [Next]_vars => IInv'
<1> SUFFICES ASSUME IInv, [Next]_vars
             PROVE  IInv'
  OBVIOUS
<1>1. CASE RemoveMonitor
  BY <1>1, RemoveMonitorKeeps
<1>2. CASE Split
  BY <1>2, SplitKeeps
<1>3. CASE PrintResult
  BY <1>3, PrintResultKeeps
<1>4. ASSUME NEW t \in Subteam \cup {Unknown}, HealthCheck(t)
      PROVE  IInv'
  BY <1>4, HealthCheckKeeps
<1>5. ASSUME NEW t \in Subteam, Generate(t)
      PROVE  IInv'
  BY <1>5, GenerateKeeps
<1>6. CASE UNCHANGED vars
  BY <1>6, StutterKeeps
<1>7. CASE Import
  BY <1>7, ImportKeeps
<1>8. CASE Decide
  BY <1>8, DecideKeeps
<1> QED
  BY <1>1, <1>2, <1>3, <1>4, <1>5, <1>6, <1>7, <1>8 DEF Next

LEMMA Invariant == Spec => []IInv
<1>1. Init => IInv
  BY IInvInit
<1>2. IInv /\ [Next]_vars => IInv'
  BY IInvNext
<1> QED
  BY <1>1, <1>2, PTL DEF Spec

(* The file, its attributes, the teams' files and the summary are of their *)
(* types in every state: every rewriting of handleresult.py leaves test    *)
(* cases, and the summary holds results.                                   *)
THEOREM TypeCorrect == Spec => []TypeOK
<1>1. IInv => TypeOK
  BY DEF IInv
<1> QED
  BY <1>1, Invariant, PTL

(* For files of any length whose tests name any ids, in any number and     *)
(* repeated: splitRP sends each result to exactly one team's file once for *)
(* each time an id is named, healcheckRP adds its failing case in front of *)
(* one file and takes nothing away, the attributes count the entries but   *)
(* for skipped after the health check, and generateRP, which leaves the    *)
(* attributes alone, and splitRP agree on the results of every id.         *)
THEOREM KeepsResults == Spec => []ResultsKept
<1>1. IInv => ResultsKept
  BY DEF IInv
<1> QED
  BY <1>1, Invariant, PTL

(* In the summary pirntResult prints, no failure is hidden by another      *)
(* result of its id or its test, a failure is printed only where a test    *)
(* failed, and an id named alone shows FAIL before PASS before SKIP.  ocgr *)
(* fails a build whose tests failed, if get ended, and one it could not    *)
(* import; it fails no other unless a title, an author or an exception     *)
(* holds the word.                                                         *)
THEOREM SummaryIsSound == Spec => []SummarySound
<1>1. IInv => SummarySound
  BY DEF IInv
<1> QED
  BY <1>1, Invariant, PTL

=============================================================================
