--------------------------- MODULE MonitorProofs ---------------------------
(***************************************************************************)
(* Theorems about Monitor, for every set of conditions and any number of   *)
(* recorders, samples and changes of the wall clock, and about its event   *)
(* watch.                                                                  *)
(***************************************************************************)
EXTENDS Monitor, EventWatch, SequenceTheorems, WellFoundedInduction, TLAPS

(* A non-empty set of numbers has a least one.                             *)
LEMMA Least ==
  ASSUME NEW S, S \subseteq Nat, S # {}
  PROVE  \E x \in S : \A y \in S : x <= y
<1>1. PICK x \in S : \A y \in S : ~(<<y, x>> \in OpToRel(<, Nat))
  BY NatLessThanWellFounded, WFMin, Zenon
<1>2. \A y \in S : y \in Nat /\ <<y, x>> \in Nat \X Nat
  OBVIOUS
<1>3. \A y \in S : ~(y < x)
  BY <1>1, <1>2 DEF OpToRel
<1> QED
  BY <1>2, <1>3

(* Induction, said of a set of numbers.                                    *)
LEMMA Induction ==
  ASSUME NEW n \in Nat, NEW S, 0 \in S, \A m \in 0 .. n - 1 : m \in S => m + 1 \in S
  PROVE  \A m \in 0 .. n : m \in S
<1> DEFINE T == {m \in 0 .. n : m \notin S}
<1>1. SUFFICES ASSUME T # {}
               PROVE  FALSE
  OBVIOUS
<1>2. T \subseteq Nat
  OBVIOUS
<1>3. PICK x \in T : \A y \in T : x <= y
  BY <1>1, <1>2, Least
<1>4. x \in 0 .. n /\ x \notin S /\ x # 0
  OBVIOUS
<1>5. x - 1 \in 0 .. n - 1 /\ x - 1 \in Nat /\ x - 1 + 1 = x
  BY <1>4
<1>6. x - 1 \notin S
  BY <1>4, <1>5
<1>7. x - 1 \in T
  BY <1>5, <1>6
<1> QED
  BY <1>3, <1>4, <1>5, <1>7

-----------------------------------------------------------------------------
(* The rounds of the binary search are well defined: Bounds is what it     *)
(* says.                                                                   *)
LEMMA BoundsDef ==
  ASSUME NEW after, NEW L \in Nat
  PROVE  Bounds(L, after) = [k \in 0 .. L |->
           IF k = 0 THEN [i |-> 0, j |-> L] ELSE Halve(Bounds(L, after)[k - 1], after)]
<1> DEFINE Start == [i |-> 0, j |-> L]
           Step(b) == Halve(b, after)
           S == {m \in 0 .. L : \E g :
                   g = [n \in 0 .. m |-> IF n = 0 THEN Start ELSE Step(g[n - 1])]}
<1>1. 0 \in S
  <2> DEFINE g == [n \in 0 .. 0 |-> Start]
  <2>1. g = [n \in 0 .. 0 |-> IF n = 0 THEN Start ELSE Step(g[n - 1])]
    OBVIOUS
  <2> HIDE DEF g
  <2> QED
    BY <2>1
<1>2. ASSUME NEW m \in 0 .. L - 1, m \in S
      PROVE  m + 1 \in S
  <2>1. PICK g : g = [n \in 0 .. m |-> IF n = 0 THEN Start ELSE Step(g[n - 1])]
    BY <1>2
  <2> DEFINE h == [n \in 0 .. m + 1 |-> IF n = m + 1 THEN Step(g[m]) ELSE g[n]]
  <2>2. m \in Nat /\ DOMAIN g = 0 .. m
    BY <2>1
  <2>3. \A n \in 0 .. m : h[n] = g[n]
    BY <2>2
  <2>4. h[m + 1] = Step(h[m])
    <3>1. m \in 0 .. m /\ m + 1 \in 0 .. m + 1
      BY <2>2
    <3> HIDE DEF Step
    <3> QED
      BY <2>3, <3>1
  <2>5. \A n \in 0 .. m : h[n] = IF n = 0 THEN Start ELSE Step(h[n - 1])
    <3> SUFFICES ASSUME NEW n \in 0 .. m
                 PROVE  h[n] = IF n = 0 THEN Start ELSE Step(h[n - 1])
      OBVIOUS
    <3> HIDE DEF Step, h, Start
    <3>1. n # 0 => n - 1 \in 0 .. m
      BY <2>2
    <3>2. g[n] = IF n = 0 THEN Start ELSE Step(g[n - 1])
      BY <2>1
    <3>3. CASE n = 0
      BY <2>3, <3>2, <3>3
    <3>4. CASE n # 0
      <4>1. h[n - 1] = g[n - 1] /\ h[n] = g[n]
        BY <2>3, <3>1, <3>4
      <4> QED
        BY <3>2, <3>4, <4>1
    <3> QED
      BY <3>3, <3>4
  <2>6. h = [n \in 0 .. m + 1 |-> IF n = 0 THEN Start ELSE Step(h[n - 1])]
    <3>1. DOMAIN h = 0 .. m + 1 /\ h = [n \in 0 .. m + 1 |-> h[n]]
      OBVIOUS
    <3> HIDE DEF Step, h, Start
    <3>2. \A n \in 0 .. m + 1 : n \in 0 .. m \/ n = m + 1
      BY <2>2
    <3>3. m + 1 # 0 /\ m + 1 - 1 = m
      BY <2>2
    <3>4. \A n \in 0 .. m + 1 : h[n] = IF n = 0 THEN Start ELSE Step(h[n - 1])
      BY <2>4, <2>5, <3>2, <3>3
    <3> QED
      BY <3>1, <3>4
  <2>7. m + 1 \in 0 .. L
    OBVIOUS
  <2> HIDE DEF Step, h, Start
  <2> QED
    BY <2>6, <2>7
<1>3. L \in S
  <2> HIDE DEF S
  <2> QED
    BY <1>1, <1>2, Induction
<1>4. \E g : g = [n \in 0 .. L |-> IF n = 0 THEN Start ELSE Step(g[n - 1])]
  <2> HIDE DEF Step, Start
  <2> QED
    BY <1>3
<1>5. Bounds(L, after) = CHOOSE g : g = [n \in 0 .. L |-> IF n = 0 THEN Start ELSE Step(g[n - 1])]
  BY DEF Bounds
<1> HIDE DEF Step, Start
<1>6. Bounds(L, after) = [n \in 0 .. L |-> IF n = 0 THEN Start ELSE Step(Bounds(L, after)[n - 1])]
  BY <1>4, <1>5
<1> QED
  BY <1>6, Zenon DEF Step, Start

(* What each round keeps: what is left of n positions lies between one     *)
(* that is not in after and one that is.                                   *)
Narrowed(b, n, after) ==
  /\ b = [i |-> b.i, j |-> b.j]
  /\ b.i \in Nat /\ b.j \in Nat /\ b.i <= b.j /\ b.j <= n
  /\ b.i # 0 => b.i \notin after
  /\ b.j # n => b.j + 1 \in after

(* A round halves what is left.                                            *)
LEMMA HalveNarrows ==
  ASSUME NEW n \in Nat, NEW after, NEW b, Narrowed(b, n, after)
  PROVE  /\ Narrowed(Halve(b, after), n, after)
         /\ b.i < b.j => Halve(b, after).j - Halve(b, after).i < b.j - b.i
         /\ b.i = b.j => Halve(b, after) = b
<1> DEFINE h == (b.i + b.j) \div 2
<1>1. /\ b = [i |-> b.i, j |-> b.j]
      /\ b.i \in Nat /\ b.j \in Nat /\ b.i <= b.j /\ b.j <= n
      /\ b.i # 0 => b.i \notin after
      /\ b.j # n => b.j + 1 \in after
  BY DEF Narrowed
<1>2. Halve(b, after) = IF b.i >= b.j THEN b
        ELSE IF h + 1 \in after THEN [b EXCEPT !.j = h] ELSE [b EXCEPT !.i = h + 1]
  BY DEF Halve
<1>3. CASE b.i = b.j
  BY <1>1, <1>2, <1>3 DEF Narrowed
<1>4. CASE b.i < b.j
  <2>1. h \in Nat /\ b.i <= h /\ h < b.j
    BY <1>1, <1>4, Z3
  <2> HIDE DEF h
  <2>2. CASE h + 1 \in after
    <3>1. Halve(b, after) = [i |-> b.i, j |-> h]
      <4>1. Halve(b, after) = [b EXCEPT !.j = h]
        BY <1>1, <1>2, <1>4, <2>2
      <4> QED
        BY <1>1, <4>1
    <3> QED
      BY <1>1, <1>4, <2>1, <2>2, <3>1 DEF Narrowed
  <2>3. CASE h + 1 \notin after
    <3>1. Halve(b, after) = [i |-> h + 1, j |-> b.j]
      <4>1. Halve(b, after) = [b EXCEPT !.i = h + 1]
        BY <1>1, <1>2, <1>4, <2>3
      <4> QED
        BY <1>1, <4>1
    <3> QED
      BY <1>1, <1>4, <2>1, <2>3, <3>1 DEF Narrowed
  <2> QED
    BY <2>2, <2>3
<1> QED
  BY <1>1, <1>3, <1>4

(* So the search ends between two neighbours, whatever after is: the one   *)
(* on the left is not in it, the one on the right is.                      *)
LEMMA SearchFinds ==
  ASSUME NEW n \in Nat, NEW after
  PROVE  /\ Search(n, after) \in 0 .. n
         /\ Search(n, after) # 0 => Search(n, after) \notin after
         /\ Search(n, after) # n => Search(n, after) + 1 \in after
<1> DEFINE B == Bounds(n, after)
           S == {m \in 0 .. n : Narrowed(B[m], n, after) /\ B[m].j - B[m].i <= n - m}
<1>1. 0 \in S
  <2>1. B[0] = [i |-> 0, j |-> n]
    <3>1. 0 \in 0 .. n
      OBVIOUS
    <3> QED
      BY <3>1, BoundsDef
  <2> HIDE DEF B
  <2>2. B[0].i = 0 /\ B[0].j = n
    BY <2>1
  <2>3. Narrowed(B[0], n, after)
    BY <2>1, <2>2 DEF Narrowed
  <2> QED
    BY <2>2, <2>3
<1>2. ASSUME NEW m \in 0 .. n - 1, m \in S
      PROVE  m + 1 \in S
  <2>1. m + 1 \in 0 .. n /\ m + 1 # 0 /\ m + 1 - 1 = m /\ m \in Nat
    OBVIOUS
  <2>2. B[m + 1] = Halve(B[m], after)
    BY <2>1, BoundsDef
  <2> HIDE DEF B
  <2>3. Narrowed(B[m], n, after) /\ B[m].j - B[m].i <= n - m
    BY <1>2
  <2>4. Narrowed(B[m + 1], n, after)
    BY <2>2, <2>3, HalveNarrows
  <2>5. B[m + 1].j - B[m + 1].i <= n - (m + 1)
    <3>0. /\ B[m].i \in Nat /\ B[m].j \in Nat /\ B[m].i <= B[m].j
          /\ B[m + 1].i \in Nat /\ B[m + 1].j \in Nat
      BY <2>3, <2>4 DEF Narrowed
    <3>1. CASE B[m].i < B[m].j
      <4>1. B[m + 1].j - B[m + 1].i < B[m].j - B[m].i
        BY <2>2, <2>3, <3>1, HalveNarrows
      <4> QED
        BY <2>1, <2>3, <3>0, <4>1
    <3>2. CASE B[m].i = B[m].j
      <4>1. B[m + 1] = B[m]
        BY <2>2, <2>3, <3>2, HalveNarrows
      <4> QED
        BY <2>1, <3>0, <3>2, <4>1
    <3> QED
      BY <3>0, <3>1, <3>2
  <2> QED
    BY <2>1, <2>4, <2>5
<1>3. n \in S
  <2>1. n \in 0 .. n
    OBVIOUS
  <2> HIDE DEF S
  <2> QED
    BY <1>1, <1>2, <2>1, Induction
<1>4. Search(n, after) = B[n].i
  BY DEF Search
<1> HIDE DEF B
<1>5. Narrowed(B[n], n, after) /\ B[n].j - B[n].i <= n - n
  BY <1>3
<1>6. /\ B[n].i \in 0 .. n /\ B[n].i = B[n].j
      /\ B[n].i # 0 => B[n].i \notin after
      /\ B[n].i # n => B[n].i + 1 \in after
  BY <1>5 DEF Narrowed
<1> QED
  BY <1>4, <1>6

-----------------------------------------------------------------------------
(* The stamps of a list that is in order and does not begin before the     *)
(* first instant.                                                          *)
Stamped(list) ==
  /\ \A i \in DOMAIN list : list[i].at \in Nat \ {0}
  /\ \A i, j \in DOMAIN list : i < j => list[i].at <= list[j].at

(* On such a list, equal stamps included, the binary search and the scan   *)
(* keep what is within the bounds and nothing else.                        *)
LEMMA KeptExact ==
  ASSUME NEW list, NEW n \in Nat, DOMAIN list = 1 .. n, Len(list) = n, Stamped(list),
         NEW from \in Nat, NEW to \in Nat
  PROVE  Kept(list, from, to) = Within(list, from, to)
<1> DEFINE after  == {i \in DOMAIN list : list[i].at > from}
           passed == Search(Len(list), after)
           first  == {i \in DOMAIN list : i > passed}
<1>1. \A i \in DOMAIN list : list[i].at \in Nat \ {0}
  BY DEF Stamped
<1>2. \A i, j \in DOMAIN list : j <= i => list[j].at <= list[i].at
  <2> SUFFICES ASSUME NEW i \in 1 .. n, NEW j \in 1 .. n, j <= i
               PROVE  list[j].at <= list[i].at
    OBVIOUS
  <2>1. CASE i = j
    BY <1>1, <2>1
  <2>2. CASE j < i
    BY <2>2 DEF Stamped
  <2> QED
    BY <2>1, <2>2
<1>3. \A i \in DOMAIN list : i \in first <=> list[i].at > from
  <2>1. /\ passed \in 0 .. n
        /\ passed # 0 => passed \notin after
        /\ passed # n => passed + 1 \in after
    <3> HIDE DEF after
    <3> QED
      BY SearchFinds
  <2> HIDE DEF passed
  <2> SUFFICES ASSUME NEW i \in 1 .. n
               PROVE  i > passed <=> list[i].at > from
    OBVIOUS
  <2>2. CASE i > passed
    <3>1. passed + 1 \in 1 .. n /\ passed + 1 <= i
      BY <2>1, <2>2
    <3>2. list[passed + 1].at > from
      BY <2>1, <2>2
    <3> QED
      BY <1>1, <1>2, <2>2, <3>1, <3>2
  <2>3. CASE ~(i > passed)
    <3>1. passed \in 1 .. n /\ i <= passed
      BY <2>1, <2>3
    <3>2. ~(list[passed].at > from)
      BY <2>1, <3>1
    <3> QED
      BY <1>1, <1>2, <2>3, <3>1, <3>2
  <2> QED
    BY <2>2, <2>3
<1>5. Kept(list, from, to) =
        {i \in first : to = 0 \/ \A j \in first : j <= i => list[j].at <= to}
  BY DEF Kept
<1>6. first \subseteq DOMAIN list
  OBVIOUS
<1> HIDE DEF first
<1>4. ASSUME NEW i \in first
      PROVE  (\A j \in first : j <= i => list[j].at <= to) <=> list[i].at <= to
  <2>1. i \in 1 .. n /\ \A j \in first : j \in 1 .. n
    BY <1>6
  <2>2. ASSUME list[i].at <= to, NEW j \in first, j <= i
        PROVE  list[j].at <= to
    BY <1>1, <1>2, <2>1, <2>2
  <2> QED
    BY <2>1, <2>2
<1> QED
  BY <1>3, <1>4, <1>5, <1>6 DEF Within

(* A query keeps things that follow each other.                            *)
Kind(kept) ==
  /\ \A i \in kept : i \in Nat \ {0}
  /\ \A i, k \in kept : \A j \in Nat : i <= j /\ j <= k => j \in kept

(* In order or not: a query keeps positions of its list that follow each   *)
(* other, and without bounds all of them.                                  *)
LEMMA KeptKind ==
  ASSUME NEW list, NEW n \in Nat, DOMAIN list = 1 .. n, Len(list) = n,
         NEW from \in Nat, NEW to \in Nat
  PROVE  /\ Kept(list, from, to) \subseteq 1 .. n
         /\ Kind(Kept(list, from, to))
         /\ (\A i \in 1 .. n : list[i].at \in Nat \ {0}) => Kept(list, 0, 0) = 1 .. n
<1> DEFINE After(f)  == {i \in DOMAIN list : list[i].at > f}
           Passed(f) == Search(Len(list), After(f))
           First(f)  == {i \in DOMAIN list : i > Passed(f)}
<1>1. \A f, t : Kept(list, f, t) =
        {i \in First(f) : t = 0 \/ \A j \in First(f) : j <= i => list[j].at <= t}
  BY DEF Kept
<1>2. \A f : /\ Passed(f) \in 0 .. n
             /\ Passed(f) # 0 => Passed(f) \notin After(f)
  <2> HIDE DEF After
  <2> QED
    BY SearchFinds
<1>3. \A f : \A i : i \in First(f) <=> i \in 1 .. n /\ i > Passed(f)
  OBVIOUS
<1>4. ASSUME \A i \in 1 .. n : list[i].at \in Nat \ {0}
      PROVE  Kept(list, 0, 0) = 1 .. n
  <2>1. After(0) = 1 .. n
    BY <1>4
  <2>2. Passed(0) = 0
    BY <1>2, <2>1
  <2> HIDE DEF Passed, First, After
  <2>3. First(0) = 1 .. n
    <3>1. \A i \in 1 .. n : i > 0
      OBVIOUS
    <3>2. \A i : i \in First(0) <=> i \in 1 .. n
      BY <1>3, <2>2, <3>1
    <3> QED
      BY <3>2
  <2> QED
    BY <1>1, <2>3
<1> HIDE DEF Passed, First, After
<1>5. \A i \in Kept(list, from, to) : i \in First(from)
  BY <1>1
<1>6. Kept(list, from, to) \subseteq 1 .. n
  BY <1>3, <1>5
<1>7. ASSUME NEW i \in Kept(list, from, to), NEW k \in Kept(list, from, to), NEW j \in Nat,
             i <= j, j <= k
      PROVE  j \in Kept(list, from, to)
  <2>1. i \in 1 .. n /\ k \in 1 .. n /\ i > Passed(from) /\ Passed(from) \in 0 .. n
    BY <1>2, <1>3, <1>5, <1>6
  <2>2. j \in First(from)
    BY <1>3, <1>7, <2>1
  <2>3. to = 0 \/ \A q \in First(from) : q <= k => list[q].at <= to
    BY <1>1
  <2>4. \A q \in First(from) : q <= j => q <= k
    BY <1>3, <1>7, <2>1
  <2> QED
    BY <1>1, <2>2, <2>3, <2>4
<1> QED
  BY <1>4, <1>6, <1>7 DEF Kind

(* So the loop over the samples is well defined: UpTo is what it says.     *)
LEMMA UpToDef ==
  ASSUME NEW kept, NEW L \in Nat, L = Len(samples)
  PROVE  UpTo(kept) = [n \in 0 .. L |->
           IF n = 0 THEN [open |-> {}, closed |-> {}]
           ELSE IF n \in kept THEN Extend(UpTo(kept)[n - 1], samples[n])
           ELSE UpTo(kept)[n - 1]]
<1> DEFINE Start == [open |-> {}, closed |-> {}]
           Step(acc, n) == IF n \in kept THEN Extend(acc, samples[n]) ELSE acc
           S == {m \in 0 .. L : \E g :
                   g = [n \in 0 .. m |-> IF n = 0 THEN Start ELSE Step(g[n - 1], n)]}
<1>1. 0 \in S
  <2> DEFINE g == [n \in 0 .. 0 |-> Start]
  <2>1. g = [n \in 0 .. 0 |-> IF n = 0 THEN Start ELSE Step(g[n - 1], n)]
    OBVIOUS
  <2> HIDE DEF g
  <2> QED
    BY <2>1
<1>2. ASSUME NEW m \in 0 .. L - 1, m \in S
      PROVE  m + 1 \in S
  <2>1. PICK g : g = [n \in 0 .. m |-> IF n = 0 THEN Start ELSE Step(g[n - 1], n)]
    BY <1>2
  <2> DEFINE h == [n \in 0 .. m + 1 |-> IF n = m + 1 THEN Step(g[m], m + 1) ELSE g[n]]
  <2>2. m \in Nat /\ DOMAIN g = 0 .. m
    BY <2>1
  <2>3. \A n \in 0 .. m : h[n] = g[n]
    BY <2>2
  <2>4. h[m + 1] = Step(h[m], m + 1)
    <3>1. m \in 0 .. m /\ m + 1 \in 0 .. m + 1
      BY <2>2
    <3> HIDE DEF Step
    <3> QED
      BY <2>3, <3>1
  <2>5. \A n \in 0 .. m : h[n] = IF n = 0 THEN Start ELSE Step(h[n - 1], n)
    <3> SUFFICES ASSUME NEW n \in 0 .. m
                 PROVE  h[n] = IF n = 0 THEN Start ELSE Step(h[n - 1], n)
      OBVIOUS
    <3> HIDE DEF Step, h, Start
    <3>1. n # 0 => n - 1 \in 0 .. m
      BY <2>2
    <3>2. g[n] = IF n = 0 THEN Start ELSE Step(g[n - 1], n)
      BY <2>1
    <3>3. CASE n = 0
      BY <2>3, <3>2, <3>3
    <3>4. CASE n # 0
      <4>1. h[n - 1] = g[n - 1] /\ h[n] = g[n]
        BY <2>3, <3>1, <3>4
      <4> QED
        BY <3>2, <3>4, <4>1
    <3> QED
      BY <3>3, <3>4
  <2>6. h = [n \in 0 .. m + 1 |-> IF n = 0 THEN Start ELSE Step(h[n - 1], n)]
    <3>1. DOMAIN h = 0 .. m + 1 /\ h = [n \in 0 .. m + 1 |-> h[n]]
      OBVIOUS
    <3> HIDE DEF Step, h, Start
    <3>2. \A n \in 0 .. m + 1 : n \in 0 .. m \/ n = m + 1
      BY <2>2
    <3>3. m + 1 # 0 /\ m + 1 - 1 = m
      BY <2>2
    <3>4. \A n \in 0 .. m + 1 : h[n] = IF n = 0 THEN Start ELSE Step(h[n - 1], n)
      BY <2>4, <2>5, <3>2, <3>3
    <3> QED
      BY <3>1, <3>4
  <2>7. m + 1 \in 0 .. L
    OBVIOUS
  <2> HIDE DEF Step, h, Start
  <2> QED
    BY <2>6, <2>7
<1>3. L \in S
  <2> HIDE DEF S
  <2> QED
    BY <1>1, <1>2, Induction
<1>4. \E g : g = [n \in 0 .. L |-> IF n = 0 THEN Start ELSE Step(g[n - 1], n)]
  <2> HIDE DEF Step, Start
  <2> QED
    BY <1>3
<1>5. UpTo(kept) = CHOOSE g : g = [n \in 0 .. L |-> IF n = 0 THEN Start ELSE Step(g[n - 1], n)]
  BY DEF UpTo
<1> HIDE DEF Step, Start
<1>6. UpTo(kept) = [n \in 0 .. L |-> IF n = 0 THEN Start ELSE Step(UpTo(kept)[n - 1], n)]
  BY <1>4, <1>5
<1> QED
  BY <1>6, Zenon DEF Step, Start

-----------------------------------------------------------------------------
(* The intervals the loop has open or closed after n samples: for each     *)
(* longest run of kept samples that report a condition, one; it is open    *)
(* when the run ends at the last sample kept.                              *)
Interval(i, j, c) == [cond |-> c, from |-> samples[i].at, to |-> samples[j].at]
Says(kept, n, k, c) == k \in kept /\ k <= n /\ c \in samples[k].conds
RunUpTo(kept, n, i, j, c) ==
  /\ i <= j /\ \A k \in i .. j : Says(kept, n, k, c)
  /\ ~Says(kept, n, i - 1, c) /\ ~Says(kept, n, j + 1, c)
LastKept(kept, n, j) == \A k \in kept : k <= n => k <= j
OpenExact(kept, n, open) ==
  \A x : x \in open <=>
    \E i, j \in kept, c \in Cond :
      RunUpTo(kept, n, i, j, c) /\ LastKept(kept, n, j) /\ x = Interval(i, j, c)
ClosedExact(kept, n, closed) ==
  \A x : x \in closed <=>
    \E i, j \in kept, c \in Cond :
      RunUpTo(kept, n, i, j, c) /\ ~LastKept(kept, n, j) /\ x = Interval(i, j, c)

(* A sample that is not kept changes no run.                               *)
LEMMA RunsPassed ==
  ASSUME NEW kept, Kind(kept), NEW n \in Nat, n + 1 \notin kept
  PROVE  /\ \A i, j \in kept, c \in Cond : RunUpTo(kept, n + 1, i, j, c) <=> RunUpTo(kept, n, i, j, c)
         /\ \A j \in kept : LastKept(kept, n + 1, j) <=> LastKept(kept, n, j)
<1>1. \A k \in kept : k <= n + 1 <=> k <= n
  BY DEF Kind
<1>2. \A k, c : Says(kept, n + 1, k, c) <=> Says(kept, n, k, c)
  BY <1>1 DEF Says
<1> QED
  BY <1>1, <1>2 DEF RunUpTo, LastKept

(* A sample that is kept ends the list of kept samples, and it goes on     *)
(* where the one before it is the last.                                    *)
LEMMA RunsLast ==
  ASSUME NEW kept, Kind(kept), NEW n \in Nat, n + 1 \in kept, NEW i \in kept, NEW j \in kept,
         NEW c \in Cond
  PROVE  /\ RunUpTo(kept, n + 1, i, j, c) => (LastKept(kept, n + 1, j) <=> j = n + 1)
         /\ RunUpTo(kept, n, i, j, c) => (LastKept(kept, n, j) <=> j = n)
<1>0. \A k \in kept : k \in Nat
  BY DEF Kind
<1>1. ASSUME RunUpTo(kept, n + 1, i, j, c)
      PROVE  LastKept(kept, n + 1, j) <=> j = n + 1
  <2>1. j \in i .. j
    BY <1>0, <1>1 DEF RunUpTo
  <2>2. j <= n + 1
    BY <1>1, <2>1 DEF RunUpTo, Says
  <2> QED
    BY <1>0, <2>2 DEF LastKept
<1>2. ASSUME RunUpTo(kept, n, i, j, c)
      PROVE  LastKept(kept, n, j) <=> j = n
  <2>1. j \in i .. j
    BY <1>0, <1>2 DEF RunUpTo
  <2>2. j <= n /\ j <= n + 1
    BY <1>0, <1>2, <2>1 DEF RunUpTo, Says
  <2>3. n \in kept
    BY <1>0, <2>2 DEF Kind
  <2> QED
    BY <1>0, <2>2, <2>3 DEF LastKept
<1> QED
  BY <1>1, <1>2

(* What a kept sample makes of the runs before it.                         *)
LEMMA RunsGrow ==
  ASSUME NEW kept, Kind(kept), NEW n \in Nat, n + 1 \in kept, NEW c \in Cond
  PROVE  /\ \A i \in kept : i # n + 1 =>
              (RunUpTo(kept, n + 1, i, n + 1, c) <=>
                 c \in samples[n + 1].conds /\ n \in kept /\ RunUpTo(kept, n, i, n, c))
         /\ RunUpTo(kept, n + 1, n + 1, n + 1, c) <=>
              c \in samples[n + 1].conds /\ ~Says(kept, n, n, c)
         /\ \A i, j \in kept : j # n + 1 =>
              (RunUpTo(kept, n + 1, i, j, c) <=>
                 RunUpTo(kept, n, i, j, c) /\ ~(j = n /\ c \in samples[n + 1].conds))
<1>0. \A k \in kept : k \in Nat /\ k # 0
  BY DEF Kind
<1>1. \A k \in Nat : k # n + 1 => (Says(kept, n + 1, k, c) <=> Says(kept, n, k, c))
  BY <1>0 DEF Says
<1>2. \A k \in Nat : Says(kept, n, k, c) => k <= n
  BY DEF Says
<1>3. Says(kept, n + 1, n + 1, c) <=> c \in samples[n + 1].conds
  BY DEF Says
<1>4. ~Says(kept, n + 1, n + 2, c) /\ ~Says(kept, n, n + 1, c)
  BY DEF Says
<1>5. ASSUME NEW i \in kept, i # n + 1
      PROVE  RunUpTo(kept, n + 1, i, n + 1, c) <=>
               c \in samples[n + 1].conds /\ n \in kept /\ RunUpTo(kept, n, i, n, c)
  <2>1. (i \in Nat /\ i - 1 \in Nat /\ i - 1 # n + 1) \/ i > n + 1
    BY <1>0, <1>5
  <2>2. CASE i > n + 1
    BY <1>0, <2>2 DEF RunUpTo
  <2>3. CASE i <= n /\ i \in Nat
    <3>1. i - 1 \in Nat /\ i - 1 # n + 1
      BY <1>0, <2>3
    <3>2. \A k \in i .. n : k \in Nat /\ k # n + 1
      BY <2>3
    <3>3. (\A k \in i .. n + 1 : Says(kept, n + 1, k, c)) <=>
            c \in samples[n + 1].conds /\ \A k \in i .. n : Says(kept, n, k, c)
      <4>1. \A k : k \in i .. n + 1 <=> k \in i .. n \/ k = n + 1
        BY <2>3
      <4> QED
        BY <1>1, <1>3, <3>2, <4>1
    <3>4. (\A k \in i .. n : Says(kept, n, k, c)) => n \in kept
      BY <2>3 DEF Says
    <3>5. n + 1 + 1 = n + 2
      OBVIOUS
    <3>6. i <= n + 1
      BY <2>3
    <3> QED
      BY <1>1, <1>4, <2>3, <3>1, <3>3, <3>4, <3>5, <3>6 DEF RunUpTo
  <2> QED
    BY <1>0, <1>5, <2>2, <2>3
<1>6. RunUpTo(kept, n + 1, n + 1, n + 1, c) <=> c \in samples[n + 1].conds /\ ~Says(kept, n, n, c)
  <2>1. \A k : k \in n + 1 .. n + 1 <=> k = n + 1
    OBVIOUS
  <2>2. n + 1 - 1 = n /\ n # n + 1 /\ n + 1 + 1 = n + 2 /\ n + 1 <= n + 1
    OBVIOUS
  <2> QED
    BY <1>1, <1>3, <1>4, <2>1, <2>2 DEF RunUpTo
<1>7. ASSUME NEW i \in kept, NEW j \in kept, j # n + 1
      PROVE  RunUpTo(kept, n + 1, i, j, c) <=>
               RunUpTo(kept, n, i, j, c) /\ ~(j = n /\ c \in samples[n + 1].conds)
  <2>1. i \in Nat /\ j \in Nat /\ i - 1 \in Nat /\ j + 1 \in Nat
    BY <1>0
  <2>2. CASE i <= j /\ j <= n
    <3>1. \A k \in i .. j : k \in Nat /\ k # n + 1
      BY <2>1, <2>2
    <3>2. i - 1 # n + 1
      BY <2>1, <2>2
    <3>3. Says(kept, n + 1, j + 1, c) <=>
            Says(kept, n, j + 1, c) \/ (j = n /\ c \in samples[n + 1].conds)
      BY <1>1, <1>3, <1>4, <2>1
    <3> QED
      BY <1>1, <2>1, <2>2, <3>1, <3>2, <3>3 DEF RunUpTo
  <2>3. CASE ~(i <= j)
    BY <2>3 DEF RunUpTo
  <2>4. CASE i <= j /\ j > n
    <3>1. j \in i .. j /\ j > n + 1
      BY <1>7, <2>1, <2>4
    <3>2. ~Says(kept, n, j, c) /\ ~Says(kept, n + 1, j, c)
      BY <2>1, <3>1 DEF Says
    <3> QED
      BY <3>1, <3>2 DEF RunUpTo
  <2> QED
    BY <2>1, <2>2, <2>3, <2>4
<1> QED
  BY <1>5, <1>6, <1>7

(* A condition that the last sample reports has a run that ends there.     *)
LEMMA RunStarts ==
  ASSUME NEW kept, Kind(kept), NEW n \in Nat, NEW c \in Cond, Says(kept, n, n, c)
  PROVE  \E i \in kept : RunUpTo(kept, n, i, n, c)
<1>0. n \in kept /\ \A k \in kept : k \in Nat /\ k # 0
  BY DEF Kind, Says
<1> DEFINE S == {i \in 1 .. n : \A k \in i .. n : Says(kept, n, k, c)}
<1>1. n \in S
  <2>1. n \in 1 .. n /\ \A k \in n .. n : k = n
    BY <1>0
  <2> QED
    BY <2>1
<1>2. S \subseteq Nat
  OBVIOUS
<1>3. PICK i \in S : \A y \in S : i <= y
  BY <1>1, <1>2, Least
<1>4. i \in 1 .. n /\ \A k \in i .. n : Says(kept, n, k, c)
  BY <1>3
<1>5. ~Says(kept, n, i - 1, c)
  <2> SUFFICES ASSUME Says(kept, n, i - 1, c)
               PROVE  FALSE
    OBVIOUS
  <2>1. i - 1 \in 1 .. n
    BY <1>0, <1>4 DEF Says
  <2>2. \A k \in i - 1 .. n : k = i - 1 \/ k \in i .. n
    BY <1>4
  <2>3. i - 1 \in S
    BY <1>4, <2>1, <2>2
  <2> QED
    BY <1>3, <1>4, <2>3
<1>6. ~Says(kept, n, n + 1, c)
  BY DEF Says
<1>7. i \in i .. n /\ i <= n
  BY <1>4
<1>8. i \in kept
  BY <1>4, <1>7 DEF Says
<1> QED
  BY <1>4, <1>5, <1>6, <1>7, <1>8 DEF RunUpTo

(* Extend keeps the open intervals exact.                                  *)
LEMMA ExtendOpen ==
  ASSUME NEW kept, Kind(kept), NEW n \in Nat, n + 1 \in kept, samples[n + 1].conds \subseteq Cond,
         NEW acc, OpenExact(kept, n, acc.open)
  PROVE  OpenExact(kept, n + 1, Extend(acc, samples[n + 1]).open)
<1> DEFINE s == samples[n + 1]
           continued == {y \in acc.open : y.cond \in s.conds}
           fresh == s.conds \ {y.cond : y \in acc.open}
           New(x) == \E i, j \in kept, c \in Cond :
             RunUpTo(kept, n + 1, i, j, c) /\ LastKept(kept, n + 1, j) /\ x = Interval(i, j, c)
<1>1. Extend(acc, s).open = {[y EXCEPT !.to = s.at] : y \in continued}
        \union {[cond |-> c, from |-> s.at, to |-> s.at] : c \in fresh}
  BY DEF Extend
<1>2. \A y \in acc.open : \E i \in kept, c \in Cond :
        n \in kept /\ i # n + 1 /\ RunUpTo(kept, n, i, n, c) /\ y = Interval(i, n, c) /\ y.cond = c
  <2> SUFFICES ASSUME NEW y \in acc.open
               PROVE  \E i \in kept, c \in Cond : n \in kept /\ i # n + 1
                        /\ RunUpTo(kept, n, i, n, c) /\ y = Interval(i, n, c) /\ y.cond = c
    OBVIOUS
  <2>1. PICK i \in kept, j \in kept, c \in Cond :
          RunUpTo(kept, n, i, j, c) /\ LastKept(kept, n, j) /\ y = Interval(i, j, c)
    BY DEF OpenExact
  <2>2. j = n
    BY <2>1, RunsLast
  <2>3. i # n + 1
    BY <2>1, <2>2 DEF RunUpTo
  <2>4. y.cond = c
    BY <2>1 DEF Interval
  <2> QED
    BY <2>1, <2>2, <2>3, <2>4
<1>3. ASSUME NEW i \in kept, NEW c \in Cond, n \in kept, RunUpTo(kept, n, i, n, c)
      PROVE  Interval(i, n, c) \in acc.open
  <2>1. LastKept(kept, n, n)
    BY <1>3, RunsLast
  <2> QED
    BY <1>3, <2>1 DEF OpenExact
<1>4. LastKept(kept, n + 1, n + 1)
  BY DEF LastKept
<1>5. \A i, c : [Interval(i, n, c) EXCEPT !.to = s.at] = Interval(i, n + 1, c)
  BY DEF Interval
<1>6. ASSUME NEW y \in continued
      PROVE  New([y EXCEPT !.to = s.at])
  <2>1. PICK i \in kept, c \in Cond : /\ n \in kept /\ i # n + 1 /\ RunUpTo(kept, n, i, n, c)
                                      /\ y = Interval(i, n, c) /\ y.cond = c
    BY <1>2
  <2>2. RunUpTo(kept, n + 1, i, n + 1, c)
    BY <2>1, RunsGrow
  <2> QED
    BY <1>4, <1>5, <2>1, <2>2
<1>7. \A c \in s.conds : c \in fresh <=> ~Says(kept, n, n, c)
  <2> SUFFICES ASSUME NEW c \in s.conds
               PROVE  (\E y \in acc.open : y.cond = c) <=> Says(kept, n, n, c)
    OBVIOUS
  <2>1. ASSUME NEW y \in acc.open, y.cond = c
        PROVE  Says(kept, n, n, c)
    <3>1. PICK i \in kept, d \in Cond : RunUpTo(kept, n, i, n, d) /\ y.cond = d
      BY <1>2
    <3>2. i \in Nat /\ i <= n
      BY <3>1 DEF RunUpTo, Kind
    <3>3. n \in i .. n
      BY <3>2
    <3> QED
      BY <2>1, <3>1, <3>3 DEF RunUpTo
  <2>2. ASSUME Says(kept, n, n, c)
        PROVE  \E y \in acc.open : y.cond = c
    <3>1. c \in Cond /\ n \in kept
      BY <2>2 DEF Says
    <3>2. PICK i \in kept : RunUpTo(kept, n, i, n, c)
      BY <2>2, <3>1, RunStarts
    <3>3. Interval(i, n, c).cond = c
      BY DEF Interval
    <3> QED
      BY <1>3, <3>1, <3>2, <3>3
  <2> QED
    BY <2>1, <2>2
<1>8. ASSUME NEW c \in fresh
      PROVE  New([cond |-> c, from |-> s.at, to |-> s.at])
  <2>1. c \in Cond /\ c \in s.conds
    OBVIOUS
  <2>2. RunUpTo(kept, n + 1, n + 1, n + 1, c)
    BY <1>7, <2>1, RunsGrow
  <2> QED
    BY <1>4, <2>1, <2>2 DEF Interval
<1>9. ASSUME NEW i \in kept, NEW j \in kept, NEW c \in Cond,
             RunUpTo(kept, n + 1, i, j, c), LastKept(kept, n + 1, j)
      PROVE  Interval(i, j, c) \in Extend(acc, s).open
  <2>1. j = n + 1
    BY <1>9, RunsLast
  <2>2. CASE i = n + 1
    <3>1. c \in s.conds /\ ~Says(kept, n, n, c)
      BY <1>9, <2>1, <2>2, RunsGrow
    <3>2. Interval(i, j, c) = [cond |-> c, from |-> s.at, to |-> s.at]
      BY <2>1, <2>2 DEF Interval
    <3> QED
      BY <1>1, <1>7, <3>1, <3>2
  <2>3. CASE i # n + 1
    <3>1. c \in s.conds /\ n \in kept /\ RunUpTo(kept, n, i, n, c)
      BY <1>9, <2>1, <2>3, RunsGrow
    <3>2. Interval(i, n, c) \in acc.open /\ Interval(i, n, c).cond = c
      BY <1>3, <3>1 DEF Interval
    <3>3. Interval(i, j, c) = [Interval(i, n, c) EXCEPT !.to = s.at]
      BY <1>5, <2>1
    <3> HIDE DEF s
    <3> QED
      BY <1>1, <3>1, <3>2, <3>3
  <2> QED
    BY <2>2, <2>3
<1>10. \A x \in Extend(acc, s).open : New(x)
  <2> HIDE DEF s, continued, fresh, New
  <2> QED
    BY <1>1, <1>6, <1>8
<1> QED
  BY <1>9, <1>10 DEF OpenExact

(* And the closed ones.                                                    *)
LEMMA ExtendClosed ==
  ASSUME NEW kept, Kind(kept), NEW n \in Nat, n + 1 \in kept,
         NEW acc, OpenExact(kept, n, acc.open), ClosedExact(kept, n, acc.closed)
  PROVE  ClosedExact(kept, n + 1, Extend(acc, samples[n + 1]).closed)
<1> DEFINE s == samples[n + 1]
<1>1. Extend(acc, s).closed = acc.closed \union {y \in acc.open : y.cond \notin s.conds}
  BY DEF Extend
<1>2. \A k \in kept : k \in Nat
  BY DEF Kind
<1>3. \A i, j \in kept, c \in Cond : RunUpTo(kept, n, i, j, c) => j # n + 1
  <2> SUFFICES ASSUME NEW i \in kept, NEW j \in kept, NEW c \in Cond, RunUpTo(kept, n, i, j, c)
               PROVE  j # n + 1
    OBVIOUS
  <2>1. j \in i .. j
    BY <1>2 DEF RunUpTo
  <2> QED
    BY <2>1 DEF RunUpTo, Says
<1>4. ASSUME NEW x \in acc.closed
      PROVE  \E i, j \in kept, c \in Cond :
               RunUpTo(kept, n + 1, i, j, c) /\ ~LastKept(kept, n + 1, j) /\ x = Interval(i, j, c)
  <2>1. PICK i \in kept, j \in kept, c \in Cond :
          RunUpTo(kept, n, i, j, c) /\ ~LastKept(kept, n, j) /\ x = Interval(i, j, c)
    BY DEF ClosedExact
  <2>2. j # n /\ j # n + 1
    BY <1>3, <2>1, RunsLast
  <2>3. RunUpTo(kept, n + 1, i, j, c)
    BY <2>1, <2>2, RunsGrow
  <2>4. ~LastKept(kept, n + 1, j)
    BY <2>2, <2>3, RunsLast
  <2> QED
    BY <2>1, <2>3, <2>4
<1>5. ASSUME NEW x \in acc.open, x.cond \notin s.conds
      PROVE  \E i, j \in kept, c \in Cond :
               RunUpTo(kept, n + 1, i, j, c) /\ ~LastKept(kept, n + 1, j) /\ x = Interval(i, j, c)
  <2>1. PICK i \in kept, j \in kept, c \in Cond :
          RunUpTo(kept, n, i, j, c) /\ LastKept(kept, n, j) /\ x = Interval(i, j, c)
    BY DEF OpenExact
  <2>2. x.cond = c /\ j # n + 1
    BY <1>3, <2>1 DEF Interval
  <2>3. RunUpTo(kept, n + 1, i, j, c)
    BY <1>5, <2>1, <2>2, RunsGrow
  <2>4. ~LastKept(kept, n + 1, j)
    BY <2>2, <2>3, RunsLast
  <2> QED
    BY <2>1, <2>3, <2>4
<1>6. ASSUME NEW i \in kept, NEW j \in kept, NEW c \in Cond,
             RunUpTo(kept, n + 1, i, j, c), ~LastKept(kept, n + 1, j)
      PROVE  Interval(i, j, c) \in Extend(acc, s).closed
  <2>1. j # n + 1
    BY <1>6, RunsLast
  <2>2. RunUpTo(kept, n, i, j, c) /\ ~(j = n /\ c \in s.conds)
    BY <1>6, <2>1, RunsGrow
  <2>3. CASE LastKept(kept, n, j)
    <3>1. j = n
      BY <2>2, <2>3, RunsLast
    <3>2. Interval(i, j, c) \in acc.open /\ Interval(i, j, c).cond = c
      BY <2>2, <2>3 DEF OpenExact, Interval
    <3> QED
      BY <1>1, <2>2, <3>1, <3>2
  <2>4. CASE ~LastKept(kept, n, j)
    <3>1. Interval(i, j, c) \in acc.closed
      BY <2>2, <2>4 DEF ClosedExact
    <3> QED
      BY <1>1, <3>1
  <2> QED
    BY <2>3, <2>4
<1>7. \A x \in Extend(acc, s).closed : x \in acc.closed \/ (x \in acc.open /\ x.cond \notin s.conds)
  BY <1>1
<1> QED
  BY <1>4, <1>5, <1>6, <1>7 DEF ClosedExact

(* So after every number of samples the loop has exactly the runs so far.  *)
LEMMA UpToExact ==
  ASSUME NEW L \in Nat, L = Len(samples), NEW kept, Kind(kept), kept \subseteq 1 .. L,
         \A i \in 1 .. L : samples[i].conds \subseteq Cond
  PROVE  /\ OpenExact(kept, L, UpTo(kept)[L].open)
         /\ ClosedExact(kept, L, UpTo(kept)[L].closed)
<1> DEFINE S == {m \in 0 .. L : OpenExact(kept, m, UpTo(kept)[m].open)
                                /\ ClosedExact(kept, m, UpTo(kept)[m].closed)}
<1>1. 0 \in S
  <2>1. UpTo(kept)[0] = [open |-> {}, closed |-> {}]
    <3>1. 0 \in 0 .. L
      OBVIOUS
    <3>2. UpTo(kept) = [n \in 0 .. L |->
            IF n = 0 THEN [open |-> {}, closed |-> {}]
            ELSE IF n \in kept THEN Extend(UpTo(kept)[n - 1], samples[n])
            ELSE UpTo(kept)[n - 1]]
      BY UpToDef
    <3> QED
      BY <3>1, <3>2
  <2>2. \A i, j \in kept, c \in Cond : ~RunUpTo(kept, 0, i, j, c)
    <3> SUFFICES ASSUME NEW i \in kept, NEW j \in kept, NEW c \in Cond, RunUpTo(kept, 0, i, j, c)
                 PROVE  FALSE
      OBVIOUS
    <3>1. i \in 1 .. L /\ j \in 1 .. L
      OBVIOUS
    <3>2. i =< j
      BY DEF RunUpTo
    <3>3. j \in i .. j /\ j > 0
      BY <3>1, <3>2
    <3>4. Says(kept, 0, j, c)
      BY <3>3 DEF RunUpTo
    <3> QED
      BY <3>1, <3>4 DEF Says
  <2> QED
    BY <2>1, <2>2 DEF OpenExact, ClosedExact
<1>2. ASSUME NEW m \in 0 .. L - 1, m \in S
      PROVE  m + 1 \in S
  <2>1. /\ m \in Nat /\ m + 1 \in 0 .. L /\ m + 1 \in 1 .. L
        /\ m + 1 # 0 /\ m + 1 - 1 = m
    OBVIOUS
  <2>2. UpTo(kept)[m + 1] = IF m + 1 \in kept THEN Extend(UpTo(kept)[m], samples[m + 1])
                            ELSE UpTo(kept)[m]
    BY <2>1, UpToDef
  <2>3. OpenExact(kept, m, UpTo(kept)[m].open) /\ ClosedExact(kept, m, UpTo(kept)[m].closed)
    BY <1>2
  <2>4. CASE m + 1 \in kept
    <3>1. OpenExact(kept, m + 1, Extend(UpTo(kept)[m], samples[m + 1]).open)
      BY <2>1, <2>3, <2>4, ExtendOpen
    <3>2. ClosedExact(kept, m + 1, Extend(UpTo(kept)[m], samples[m + 1]).closed)
      BY <2>1, <2>3, <2>4, ExtendClosed
    <3> QED
      BY <2>1, <2>2, <2>4, <3>1, <3>2
  <2>5. CASE m + 1 \notin kept
    <3>1. /\ \A i, j \in kept, c \in Cond : RunUpTo(kept, m + 1, i, j, c) <=> RunUpTo(kept, m, i, j, c)
          /\ \A j \in kept : LastKept(kept, m + 1, j) <=> LastKept(kept, m, j)
      BY <2>1, <2>5, RunsPassed
    <3>2. UpTo(kept)[m + 1] = UpTo(kept)[m]
      BY <2>2, <2>5
    <3>3. OpenExact(kept, m + 1, UpTo(kept)[m].open)
      BY <2>3, <3>1 DEF OpenExact
    <3>4. ClosedExact(kept, m + 1, UpTo(kept)[m].closed)
      BY <2>3, <3>1 DEF ClosedExact
    <3> QED
      BY <2>1, <3>2, <3>3, <3>4
  <2> QED
    BY <2>4, <2>5
<1>3. L \in S
  <2> HIDE DEF S
  <2> QED
    BY <1>1, <1>2, Induction
<1> QED
  BY <1>3

-----------------------------------------------------------------------------
(* A reading of the clock is a stamp, and while nobody sets the clock back *)
(* it is not earlier than the one before.                                  *)
LEMMA NowFacts ==
  ASSUME clock \in Stamp, setBacks \in Nat, NEW t \in 1 .. clock + 1, Now(t)
  PROVE  /\ clock' = t /\ t \in Stamp /\ setBacks' \in Nat
         /\ Steady' => Steady /\ clock <= t
<1>1. clock \in Nat /\ t \in Nat /\ t # 0
  BY DEF Stamp
<1>2. CASE t \in {clock, clock + 1} /\ UNCHANGED setBacks
  BY <1>1, <1>2 DEF Now, Steady, Stamp
<1>3. CASE t < clock /\ setBacks < MaxSetBacks /\ setBacks' = setBacks + 1
  BY <1>1, <1>3 DEF Now, Steady, Stamp
<1> QED
  BY <1>2, <1>3 DEF Now

(* What a list of stamped things must be: as long as nobody sets the clock *)
(* back it is in order and in the past.                                    *)
Past(list) ==
  Steady => /\ \A i, j \in DOMAIN list : i < j => list[i].at <= list[j].at
            /\ \A i \in DOMAIN list : list[i].at <= clock

OrderInv ==
  /\ clock \in Stamp /\ setBacks \in Nat
  /\ events \in Seq([at : Stamp])
  /\ samples \in Seq([at : Stamp, conds : SUBSET Cond])
  /\ seen \subseteq Cond
  /\ Past(events) /\ Past(samples)

(* A sample goes behind the list and leaves what is in it alone.           *)
LEMMA AppendFacts ==
  ASSUME NEW S, NEW list \in Seq(S), NEW e \in S
  PROVE  /\ Append(list, e) \in Seq(S)
         /\ Len(Append(list, e)) = Len(list) + 1
         /\ \A i \in 1 .. Len(list) : Append(list, e)[i] = list[i]
         /\ Append(list, e)[Len(list) + 1] = e
  OBVIOUS

(* Events have stamps, in order unless the clock was set back.             *)
LEMMA EventsOK ==
  ASSUME OrderInv
  PROVE  /\ Len(events) \in Nat /\ DOMAIN events = 1 .. Len(events)
         /\ \A i \in 1 .. Len(events) : events[i].at \in Stamp
         /\ Steady => Stamped(events)
<1> DEFINE S == [at : Stamp]
<1>1. events \in Seq(S) /\ \A x \in S : x.at \in Stamp
  BY DEF OrderInv
<1>2. Len(events) \in Nat /\ DOMAIN events = 1 .. Len(events)
  BY <1>1, LenProperties
<1>3. \A i \in 1 .. Len(events) : events[i].at \in Stamp
  <2> HIDE DEF S
  <2> QED
    BY <1>1, ElementOfSeq
<1>4. Steady => \A i, j \in DOMAIN events : i < j => events[i].at <= events[j].at
  BY DEF OrderInv, Past
<1>5. Steady => Stamped(events)
  BY <1>2, <1>3, <1>4 DEF Stamped, Stamp
<1> QED
  BY <1>2, <1>3, <1>5

(* So have samples, and they show known conditions.                        *)
LEMMA SamplesOK ==
  ASSUME OrderInv
  PROVE  /\ Len(samples) \in Nat /\ DOMAIN samples = 1 .. Len(samples)
         /\ \A i \in 1 .. Len(samples) : samples[i].at \in Stamp /\ samples[i].conds \subseteq Cond
         /\ Steady => Stamped(samples)
<1> DEFINE S == [at : Stamp, conds : SUBSET Cond]
<1>1. samples \in Seq(S) /\ \A x \in S : x.at \in Stamp /\ x.conds \subseteq Cond
  BY DEF OrderInv
<1>2. Len(samples) \in Nat /\ DOMAIN samples = 1 .. Len(samples)
  BY <1>1, LenProperties
<1>3. \A i \in 1 .. Len(samples) : samples[i].at \in Stamp /\ samples[i].conds \subseteq Cond
  <2> HIDE DEF S
  <2> QED
    BY <1>1, ElementOfSeq
<1>4. Steady => \A i, j \in DOMAIN samples : i < j => samples[i].at <= samples[j].at
  BY DEF OrderInv, Past
<1>5. Steady => Stamped(samples)
  BY <1>2, <1>3, <1>4 DEF Stamped, Stamp
<1> QED
  BY <1>2, <1>3, <1>5

(* Things stamped with what the clock reads go behind a list: it stays in  *)
(* order and in the past, unless the clock was set back.                   *)
LEMMA PastGrows ==
  ASSUME NEW list, NEW more, NEW m \in Nat, NEW n \in Nat, NEW t \in Stamp,
         clock \in Stamp, setBacks \in Nat, clock' = t,
         Steady' => Steady /\ clock <= t,
         DOMAIN list = 1 .. m, DOMAIN more = 1 .. n, m <= n,
         \A i \in 1 .. m : list[i].at \in Stamp /\ more[i] = list[i],
         \A i \in 1 .. n : i > m => more[i].at = t,
         Past(list)
  PROVE  Steady' => /\ \A i, j \in DOMAIN more : i < j => more[i].at <= more[j].at
                    /\ \A i \in DOMAIN more : more[i].at <= t
<1> SUFFICES ASSUME Steady'
             PROVE  /\ \A i, j \in 1 .. n : i < j => more[i].at <= more[j].at
                    /\ \A i \in 1 .. n : more[i].at <= t
  OBVIOUS
<1>1. Steady /\ clock <= t /\ clock \in Nat /\ t \in Nat
  BY DEF Stamp
<1>2. \A i, j \in 1 .. m : i < j => list[i].at <= list[j].at
  BY <1>1 DEF Past
<1>3. \A i \in 1 .. m : list[i].at <= clock /\ list[i].at \in Nat
  BY <1>1 DEF Past, Stamp
<1>4. \A i \in 1 .. n : i \in 1 .. m \/ i > m
  OBVIOUS
<1>5. \A i \in 1 .. m : more[i].at = list[i].at /\ more[i].at <= t
  BY <1>1, <1>3
<1>6. \A i \in 1 .. n : more[i].at <= t
  BY <1>1, <1>4, <1>5
<1>7. ASSUME NEW i \in 1 .. n, NEW j \in 1 .. n, i < j
      PROVE  more[i].at <= more[j].at
  <2>1. CASE j \in 1 .. m
    <3>1. i \in 1 .. m
      BY <1>7, <2>1
    <3> QED
      BY <1>2, <1>5, <1>7, <2>1, <3>1
  <2>2. CASE j > m
    BY <1>6, <2>2
  <2> QED
    BY <1>4, <2>1, <2>2
<1> QED
  BY <1>6, <1>7

(* Record stamps its events with one instant and prints none of them.      *)
LEMMA RecordExact ==
  ASSUME OrderInv, NEW n \in 1 .. MaxConditions, NEW t \in 1 .. clock + 1, Now(t),
         events' = events \o [i \in 1 .. n |-> [at |-> t]],
         printed' = printed \o [i \in 1 .. n |-> 0]
  PROVE  /\ n \in Nat
         /\ events' \in Seq([at : Stamp]) /\ Len(events') = Len(events) + n
         /\ \A i \in 1 .. Len(events) : events'[i] = events[i]
         /\ \A i \in Len(events) + 1 .. Len(events) + n : events'[i].at = t
         /\ printed \in Seq(Nat) /\ Len(printed) = Len(events) =>
              /\ printed' \in Seq(Nat) /\ Len(printed') = Len(events')
              /\ \A i \in 1 .. Len(events) : printed'[i] = printed[i]
              /\ \A i \in Len(events) + 1 .. Len(events) + n : printed'[i] = 0
<1> DEFINE more == [i \in 1 .. n |-> [at |-> t]]
           none == [i \in 1 .. n |-> 0]
           S    == [at : Stamp]
<1>0. n \in Nat /\ Len(events) \in Nat /\ t \in Stamp
  BY BoundAssumption, EventsOK, NowFacts DEF OrderInv
<1>1. [at |-> t] \in S
  BY <1>0
<1>2. \A i \in 1 .. n : more[i].at = t /\ none[i] = 0
  OBVIOUS
<1>3. more \in Seq(S) /\ Len(more) = n /\ events \in Seq(S)
  BY <1>0, <1>1 DEF OrderInv
<1>4. none \in Seq(Nat) /\ Len(none) = n
  BY <1>0
<1> HIDE DEF more, none, S
<1>5. /\ events \o more \in Seq(S) /\ Len(events \o more) = Len(events) + n
      /\ \A k \in 1 .. Len(events) + n :
           (events \o more)[k] = IF k <= Len(events) THEN events[k] ELSE more[k - Len(events)]
  BY <1>3, ConcatProperties
<1>6. /\ \A i \in 1 .. Len(events) : i \in 1 .. Len(events) + n /\ i <= Len(events)
      /\ \A i \in Len(events) + 1 .. Len(events) + n :
           /\ i \in 1 .. Len(events) + n /\ ~(i <= Len(events))
           /\ i - Len(events) \in 1 .. n
  BY <1>0
<1>7. events' = events \o more /\ printed' = printed \o none
  BY DEF more, none
<1>8. /\ events' \in Seq(S) /\ Len(events') = Len(events) + n
      /\ \A i \in 1 .. Len(events) : events'[i] = events[i]
      /\ \A i \in Len(events) + 1 .. Len(events) + n : events'[i].at = t
  <2> DEFINE all == events \o more
  <2>1. /\ all \in Seq(S) /\ Len(all) = Len(events) + n
        /\ \A k \in 1 .. Len(events) + n :
             all[k] = IF k <= Len(events) THEN events[k] ELSE more[k - Len(events)]
    BY <1>5
  <2>2. events' = all
    BY <1>7
  <2> HIDE DEF all
  <2>3. \A i \in 1 .. Len(events) : all[i] = events[i]
    BY <1>6, <2>1
  <2>4. \A i \in Len(events) + 1 .. Len(events) + n : all[i].at = t
    BY <1>2, <1>6, <2>1
  <2> QED
    BY <2>1, <2>2, <2>3, <2>4
<1>9. ASSUME printed \in Seq(Nat), Len(printed) = Len(events)
      PROVE  /\ printed' \in Seq(Nat) /\ Len(printed') = Len(events) + n
             /\ \A i \in 1 .. Len(events) : printed'[i] = printed[i]
             /\ \A i \in Len(events) + 1 .. Len(events) + n : printed'[i] = 0
  <2>1. /\ printed \o none \in Seq(Nat) /\ Len(printed \o none) = Len(printed) + n
        /\ \A k \in 1 .. Len(printed) + n :
             (printed \o none)[k] = IF k <= Len(printed) THEN printed[k] ELSE none[k - Len(printed)]
    BY <1>4, <1>9, ConcatProperties
  <2> QED
    BY <1>2, <1>6, <1>7, <1>9, <2>1
<1> QED
  BY <1>0, <1>8, <1>9 DEF S

(* Everything is stamped with what the clock reads when it is appended,    *)
(* under the lock: no list goes back in time and none is ahead of the      *)
(* clock, unless the wall clock was set back.                              *)
THEOREM OrderInvHolds == Spec => []OrderInv
<1>1. Init => OrderInv
  <2> SUFFICES ASSUME Init
               PROVE  OrderInv
    OBVIOUS
  <2>1. /\ clock = 1 /\ setBacks = 0 /\ events = <<>> /\ samples = <<>> /\ seen = {}
    BY DEF Init
  <2>2. <<>> \in Seq([at : Stamp]) /\ <<>> \in Seq([at : Stamp, conds : SUBSET Cond])
    OBVIOUS
  <2>3. Past(<<>>)
    BY DEF Past
  <2> QED
    BY <2>1, <2>2, <2>3 DEF OrderInv, Stamp
<1>2. OrderInv /\ [Next]_vars => OrderInv'
  <2> SUFFICES ASSUME OrderInv, [Next]_vars
               PROVE  OrderInv'
    OBVIOUS
  <2>0. /\ clock \in Stamp /\ setBacks \in Nat /\ seen \subseteq Cond
        /\ events \in Seq([at : Stamp])
        /\ samples \in Seq([at : Stamp, conds : SUBSET Cond])
        /\ Past(events) /\ Past(samples)
    BY DEF OrderInv
  <2>1. ASSUME NEW n \in 1 .. MaxConditions, Record(n)
        PROVE  OrderInv'
    <3>1. UNCHANGED <<samples, seen>>
      BY <2>1 DEF Record, sampling
    <3>2. PICK t \in 1 .. clock + 1 :
            Now(t) /\ events' = events \o [i \in 1 .. n |-> [at |-> t]]
      BY <2>1 DEF Record
    <3>3. printed' = printed \o [i \in 1 .. n |-> 0]
      BY <2>1 DEF Record
    <3>4. /\ n \in Nat
          /\ events' \in Seq([at : Stamp]) /\ Len(events') = Len(events) + n
          /\ \A i \in 1 .. Len(events) : events'[i] = events[i]
          /\ \A i \in Len(events) + 1 .. Len(events) + n : events'[i].at = t
      BY <3>2, <3>3, RecordExact
    <3>5. clock' = t /\ t \in Stamp /\ setBacks' \in Nat /\ (Steady' => Steady /\ clock <= t)
      BY <2>0, <3>2, NowFacts
    <3>6. Past(events)'
      <4>1. /\ DOMAIN events = 1 .. Len(events) /\ Len(events) \in Nat
            /\ \A i \in 1 .. Len(events) : events[i].at \in Stamp
        BY EventsOK
      <4>2. DOMAIN events' = 1 .. Len(events) + n /\ Len(events) + n \in Nat
            /\ Len(events) <= Len(events) + n
        BY <3>4, <4>1, LenProperties
      <4>3. \A i \in 1 .. Len(events) + n : i > Len(events) => events'[i].at = t
        BY <3>4, <4>1
      <4>4. Steady' =>
              /\ \A i, j \in DOMAIN events' : i < j => events'[i].at <= events'[j].at
              /\ \A i \in DOMAIN events' : events'[i].at <= t
        BY <2>0, <3>4, <3>5, <4>1, <4>2, <4>3, PastGrows
      <4> QED
        BY <3>5, <4>4 DEF Past
    <3>7. Past(samples)'
      <4>1. /\ DOMAIN samples = 1 .. Len(samples) /\ Len(samples) \in Nat
            /\ \A i \in 1 .. Len(samples) : samples[i].at \in Stamp /\ samples[i] = samples[i]
            /\ Len(samples) <= Len(samples)
            /\ \A i \in 1 .. Len(samples) : i > Len(samples) => samples[i].at = t
        BY SamplesOK
      <4>2. Steady' =>
              /\ \A i, j \in DOMAIN samples : i < j => samples[i].at <= samples[j].at
              /\ \A i \in DOMAIN samples : samples[i].at <= t
        BY <2>0, <3>5, <4>1, PastGrows
      <4> QED
        BY <3>1, <3>5, <4>2 DEF Past
    <3> QED
      BY <2>0, <3>1, <3>4, <3>5, <3>6, <3>7 DEF OrderInv
  <2>2. CASE AppendSample
    <3>1. seen' = {} /\ events' = events
      BY <2>2 DEF AppendSample
    <3>2. CASE seen = {}
      <4>1. UNCHANGED <<clock, setBacks, samples>>
        BY <2>2, <3>2 DEF AppendSample, time
      <4> QED
        BY <2>0, <3>1, <4>1 DEF OrderInv, Past, Steady
    <3>3. CASE seen # {}
      <4>1. PICK t \in 1 .. clock + 1 :
              Now(t) /\ samples' = Append(samples, [at |-> t, conds |-> seen])
        BY <2>2, <3>3 DEF AppendSample
      <4>2. clock' = t /\ t \in Stamp /\ setBacks' \in Nat /\ (Steady' => Steady /\ clock <= t)
        BY <2>0, <4>1, NowFacts
      <4> DEFINE s == [at |-> t, conds |-> seen]
                 S == [at : Stamp, conds : SUBSET Cond]
      <4>3. s \in S /\ s.at = t /\ samples \in Seq(S)
        BY <2>0, <4>2
      <4>4. samples' = Append(samples, s)
        BY <4>1
      <4> HIDE DEF s, S
      <4>5. /\ samples' \in Seq(S) /\ Len(samples') = Len(samples) + 1
            /\ \A k \in 1 .. Len(samples) : samples'[k] = samples[k]
            /\ samples'[Len(samples) + 1] = s
        BY <4>3, <4>4, AppendFacts
      <4>6. Past(samples)'
        <5>1. /\ DOMAIN samples = 1 .. Len(samples) /\ Len(samples) \in Nat
              /\ \A i \in 1 .. Len(samples) : samples[i].at \in Stamp
          BY SamplesOK
        <5>2. DOMAIN samples' = 1 .. Len(samples) + 1 /\ Len(samples) + 1 \in Nat
              /\ Len(samples) <= Len(samples) + 1
          BY <4>5, <5>1, LenProperties
        <5>3. /\ \A i \in 1 .. Len(samples) + 1 : i > Len(samples) => samples'[i].at = t
              /\ \A i \in 1 .. Len(samples) : samples[i].at \in Stamp /\ samples'[i] = samples[i]
          BY <4>3, <4>5, <5>1
        <5>4. Steady' =>
                /\ \A i, j \in DOMAIN samples' : i < j => samples'[i].at <= samples'[j].at
                /\ \A i \in DOMAIN samples' : samples'[i].at <= t
          <6> DEFINE more == samples'
                     m    == Len(samples)
          <6>1. clock \in Stamp /\ setBacks \in Nat /\ Past(samples)
            BY <2>0
          <6>2. /\ DOMAIN more = 1 .. m + 1 /\ m \in Nat /\ m + 1 \in Nat /\ m <= m + 1
                /\ DOMAIN samples = 1 .. m
                /\ \A i \in 1 .. m + 1 : i > m => more[i].at = t
                /\ \A i \in 1 .. m : samples[i].at \in Stamp /\ more[i] = samples[i]
            BY <5>1, <5>2, <5>3
          <6> HIDE DEF more, m
          <6>3. Steady' =>
                  /\ \A i, j \in DOMAIN more : i < j => more[i].at <= more[j].at
                  /\ \A i \in DOMAIN more : more[i].at <= t
            BY <4>2, <6>1, <6>2, PastGrows
          <6> QED
            BY <6>3 DEF more
        <5> QED
          BY <4>2, <5>4 DEF Past
      <4>7. Past(events)'
        <5>1. /\ DOMAIN events = 1 .. Len(events) /\ Len(events) \in Nat
              /\ \A i \in 1 .. Len(events) : events[i].at \in Stamp /\ events[i] = events[i]
              /\ Len(events) <= Len(events)
              /\ \A i \in 1 .. Len(events) : i > Len(events) => events[i].at = t
          BY EventsOK
        <5>2. Steady' =>
                /\ \A i, j \in DOMAIN events : i < j => events[i].at <= events[j].at
                /\ \A i \in DOMAIN events : events[i].at <= t
          BY <2>0, <4>2, <5>1, PastGrows
        <5> QED
          BY <3>1, <4>2, <5>2 DEF Past
      <4>8. samples' \in Seq([at : Stamp, conds : SUBSET Cond])
        BY <4>5 DEF S
      <4> QED
        BY <2>0, <3>1, <4>2, <4>6, <4>7, <4>8 DEF OrderInv
    <3> QED
      BY <3>2, <3>3
  <2>3. ASSUME UNCHANGED <<clock, setBacks, events, samples>>, seen' \subseteq Cond
        PROVE  OrderInv'
    BY <2>0, <2>3 DEF OrderInv, Past, Steady
  <2>4. CASE SampleTick \/ SampleDone
    BY <2>3, <2>4 DEF SampleTick, SampleDone, time
  <2>5. CASE Cancel \/ PollTick \/ PollDone \/ Report \/ UNCHANGED vars
    <3>1. UNCHANGED <<clock, setBacks, events, samples, seen>>
      BY <2>5 DEF Cancel, PollTick, PollDone, Report, vars, time, sampling
    <3> QED
      BY <2>0, <2>3, <3>1
  <2> QED
    BY <2>1, <2>2, <2>4, <2>5 DEF Next
<1> QED
  BY <1>1, <1>2, PTL DEF Spec

(* A query for conditions returns the longest runs of the samples it keeps *)
(* that report a condition, for every list of samples and all bounds.      *)
LEMMA ConditionsExact ==
  ASSUME OrderInv, NEW from \in Nat, NEW to \in Nat
  PROVE  FilterSamples(from, to) = RunsOf(Kept(samples, from, to))
<1> DEFINE kept == Kept(samples, from, to)
           L == Len(samples)
           Run(i, j, c) == RunUpTo(kept, L, i, j, c)
<1>2. Kind(kept) /\ L \in Nat /\ kept \subseteq 1 .. L /\ DOMAIN samples = 1 .. L
  BY KeptKind, SamplesOK
<1>3. OpenExact(kept, L, UpTo(kept)[L].open) /\ ClosedExact(kept, L, UpTo(kept)[L].closed)
  BY <1>2, SamplesOK, UpToExact
<1>4. FilterSamples(from, to) = UpTo(kept)[L].open \union UpTo(kept)[L].closed
  BY DEF FilterSamples, Intervals
<1> HIDE DEF kept, L
<1>5. \A x : x \in FilterSamples(from, to) <=>
        \E i, j \in kept, c \in Cond : Run(i, j, c) /\ x = Interval(i, j, c)
  <2>1. \A x : x \in FilterSamples(from, to) <=>
               x \in UpTo(kept)[L].open \/ x \in UpTo(kept)[L].closed
    BY <1>4
  <2>2. \A x : x \in UpTo(kept)[L].open <=>
          \E i, j \in kept, c \in Cond : Run(i, j, c) /\ LastKept(kept, L, j) /\ x = Interval(i, j, c)
    BY <1>3 DEF OpenExact
  <2>3. \A x : x \in UpTo(kept)[L].closed <=>
          \E i, j \in kept, c \in Cond : Run(i, j, c) /\ ~LastKept(kept, L, j) /\ x = Interval(i, j, c)
    BY <1>3 DEF ClosedExact
  <2> HIDE DEF Run
  <2> QED
    BY <2>1, <2>2, <2>3
<1> DEFINE Reports(i, c) == i \in kept /\ c \in samples[i].conds
           IsRun(i, j, c) ==
             /\ i <= j /\ \A k \in i .. j : Reports(k, c)
             /\ ~Reports(i - 1, c) /\ ~Reports(j + 1, c)
<1>6. \A i, c : Says(kept, L, i, c) <=> Reports(i, c)
  <2>1. \A i \in kept : i <= L
    BY <1>2
  <2> QED
    BY <2>1 DEF Says
<1>7. \A i, j, c : Run(i, j, c) <=> IsRun(i, j, c)
  BY <1>6 DEF RunUpTo
<1>8. RunsOf(kept) =
        {[cond |-> r[3], from |-> samples[r[1]].at, to |-> samples[r[2]].at] :
           r \in {t \in kept \X kept \X Cond : IsRun(t[1], t[2], t[3])}}
  BY DEF RunsOf
<1> HIDE DEF IsRun, Run
<1>9. \A x : x \in RunsOf(kept) <=>
        \E i, j \in kept, c \in Cond : IsRun(i, j, c) /\ x = Interval(i, j, c)
  <2>1. ASSUME NEW i \in kept, NEW j \in kept, NEW c \in Cond, IsRun(i, j, c)
        PROVE  Interval(i, j, c) \in RunsOf(kept)
    <3> DEFINE t == <<i, j, c>>
    <3>1. t \in kept \X kept \X Cond /\ t[1] = i /\ t[2] = j /\ t[3] = c
      OBVIOUS
    <3> HIDE DEF t
    <3> QED
      BY <1>8, <2>1, <3>1 DEF Interval
  <2>2. ASSUME NEW x \in RunsOf(kept)
        PROVE  \E i, j \in kept, c \in Cond : IsRun(i, j, c) /\ x = Interval(i, j, c)
    <3>1. PICK t \in kept \X kept \X Cond : IsRun(t[1], t[2], t[3]) /\ x =
            [cond |-> t[3], from |-> samples[t[1]].at, to |-> samples[t[2]].at]
      BY <1>8
    <3>2. t[1] \in kept /\ t[2] \in kept /\ t[3] \in Cond
      OBVIOUS
    <3>3. x = Interval(t[1], t[2], t[3])
      BY <3>1 DEF Interval
    <3> QED
      BY <3>1, <3>2, <3>3
  <2> QED
    BY <2>1, <2>2
<1>10. \A x : x \in FilterSamples(from, to) <=> x \in RunsOf(kept)
  BY <1>5, <1>7, <1>9
<1>11. \A x \in RunsOf(kept) : x \in FilterSamples(from, to)
  BY <1>10
<1>12. FilterSamples(from, to) = RunsOf(kept)
  BY <1>10, Zenon
<1> QED
  BY <1>12 DEF kept

(* A query for conditions returns, for every list of samples, in order or  *)
(* not, and all bounds, one interval for each longest run of the samples   *)
(* it keeps that report one; a query without bounds keeps them all.        *)
THEOREM ConditionQueriesExact == Spec => []ConditionQueryExact
<1>1. OrderInv => ConditionQueryExact
  <2> SUFFICES ASSUME OrderInv
               PROVE  ConditionQueryExact
    OBVIOUS
  <2>1. 0 .. clock \subseteq Nat /\ 0 \in Nat
    OBVIOUS
  <2>2. \A from, to \in Nat : FilterSamples(from, to) = RunsOf(Kept(samples, from, to))
    BY ConditionsExact
  <2>3. Kept(samples, 0, 0) = DOMAIN samples
    BY KeptKind, SamplesOK DEF Stamp
  <2>4. \A kept \in {Kept(samples, from, to) : from, to \in 0 .. clock} :
          Intervals(kept) = RunsOf(kept)
    BY <2>1, <2>2 DEF FilterSamples
  <2> QED
    BY <2>1, <2>2, <2>3, <2>4 DEF ConditionQueryExact, Conditions
<1> QED
  BY <1>1, OrderInvHolds, PTL

(* However recorders and samples interleave, and however often two stamps  *)
(* are equal, the lists are in order and the binary searches keep exactly  *)
(* what the bounds say, as long as nobody sets the wall clock back; the    *)
(* intervals are exact even if somebody does.                              *)
THEOREM AllQueriesExact == Spec => []QueriesExact
<1>1. OrderInv /\ ConditionQueryExact => QueriesExact
  <2> SUFFICES ASSUME OrderInv, Steady
               PROVE  RecordedInOrder /\ BoundsExact
    BY DEF QueriesExact
  <2>1. RecordedInOrder
    BY DEF OrderInv, Past, RecordedInOrder
  <2>2. ASSUME NEW from \in 0 .. clock, NEW to \in 0 .. clock
        PROVE  /\ FilterEvents(from, to) = Within(events, from, to)
               /\ Kept(samples, from, to) = Within(samples, from, to)
    BY EventsOK, SamplesOK, KeptExact DEF FilterEvents
  <2> QED
    BY <2>1, <2>2 DEF BoundsExact
<1> QED
  BY <1>1, OrderInvHolds, ConditionQueriesExact, PTL

-----------------------------------------------------------------------------
(* A non-empty set of numbers that has a bound has a greatest one.         *)
LEMMA MaxIn ==
  ASSUME NEW n \in Nat, NEW S, S \subseteq 0 .. n, S # {}
  PROVE  Max(S) \in S /\ \A y \in S : y <= Max(S)
<1> DEFINE T == {n - y : y \in S}
<1>1. T # {} /\ T \subseteq Nat
  <2>1. PICK y \in S : TRUE
    OBVIOUS
  <2>2. n - y \in T
    OBVIOUS
  <2>3. \A z \in S : n - z \in Nat
    OBVIOUS
  <2> QED
    BY <2>2, <2>3
<1>2. PICK m \in T : \A y \in T : m <= y
  <2> HIDE DEF T
  <2> QED
    BY <1>1, Least
<1>3. PICK x \in S : m = n - x
  OBVIOUS
<1>4. \A y \in S : y \in 0 .. n /\ n - y \in T
  OBVIOUS
<1>5. \A y \in S : n - x <= n - y
  <2> HIDE DEF T
  <2> QED
    BY <1>2, <1>3, <1>4
<1>6. \A y \in S : x >= y
  BY <1>4, <1>5
<1> HIDE DEF T
<1>7. Max(S) \in S /\ \A y \in S : Max(S) >= y
  BY <1>6 DEF Max
<1> QED
  BY <1>4, <1>7

(* A list of stamps has one that none is later than.                       *)
LEMMA Bounded ==
  ASSUME NEW list, NEW n \in Nat, \A i \in 1 .. n : list[i].at \in Stamp
  PROVE  \E b \in Nat : \A i \in 1 .. n : list[i].at <= b
<1> DEFINE S == {m \in 0 .. n : \E b \in Nat : \A i \in 1 .. m : list[i].at <= b}
<1>1. 0 \in S
  OBVIOUS
<1>2. ASSUME NEW m \in 0 .. n - 1, m \in S
      PROVE  m + 1 \in S
  <2>1. PICK b \in Nat : \A i \in 1 .. m : list[i].at <= b
    BY <1>2
  <2>2. /\ m + 1 \in 1 .. n /\ m + 1 \in 0 .. n
        /\ \A i \in 1 .. m + 1 : i \in 1 .. m \/ i = m + 1
        /\ \A i \in 1 .. m : i \in 1 .. n
    OBVIOUS
  <2>3. list[m + 1].at \in Nat /\ \A i \in 1 .. m : list[i].at \in Nat
    BY <2>2 DEF Stamp
  <2> DEFINE c == b + list[m + 1].at
  <2>4. c \in Nat /\ list[m + 1].at <= c /\ \A i \in 1 .. m : list[i].at <= c
    BY <2>1, <2>3
  <2> HIDE DEF c
  <2>5. \A i \in 1 .. m + 1 : list[i].at <= c
    BY <2>2, <2>4
  <2> QED
    BY <2>2, <2>4, <2>5
<1>3. n \in S
  <2>1. n \in 0 .. n
    OBVIOUS
  <2> HIDE DEF S
  <2> QED
    BY <1>1, <1>2, <2>1, Induction
<1> QED
  BY <1>3

(* What a poll looks at: each thing has the stamp of an event or a sample, *)
(* and unless the clock was set back they are what came after last.        *)
LEMMA PollLooks ==
  ASSUME OrderInv, last \in Nat
  PROVE  /\ FilterEvents(last, 0) \subseteq 1 .. Len(events)
         /\ Steady => FilterEvents(last, 0) = {i \in 1 .. Len(events) : events[i].at > last}
         /\ \A x \in FilterSamples(last, 0) : \E j \in 1 .. Len(samples) :
              x.from = samples[j].at /\ (Steady => x.from > last)
<1> DEFINE kept == Kept(samples, last, 0)
<1>1. kept \subseteq 1 .. Len(samples)
  BY SamplesOK, KeptKind
<1>2. Steady => \A j \in kept : samples[j].at > last
  BY SamplesOK, KeptExact DEF Within
<1>3. FilterSamples(last, 0) = RunsOf(kept)
  BY ConditionsExact
<1>4. FilterEvents(last, 0) \subseteq 1 .. Len(events)
  BY EventsOK, KeptKind DEF FilterEvents
<1>5. Steady => FilterEvents(last, 0) = {i \in 1 .. Len(events) : events[i].at > last}
  <2>1. Steady => FilterEvents(last, 0) = Within(events, last, 0)
    BY EventsOK, KeptExact DEF FilterEvents
  <2> QED
    BY <2>1, EventsOK DEF Within
<1> HIDE DEF kept
<1>6. ASSUME NEW x \in RunsOf(kept)
      PROVE  \E j \in kept : x.from = samples[j].at
  <2>1. PICK r \in kept \X kept \X Cond :
          x = [cond |-> r[3], from |-> samples[r[1]].at, to |-> samples[r[2]].at]
    BY <1>6 DEF RunsOf
  <2>2. r[1] \in kept
    OBVIOUS
  <2> QED
    BY <2>1, <2>2
<1> QED
  BY <1>1, <1>2, <1>3, <1>4, <1>5, <1>6

(* A poll prints what it looks at and sets last to the stamp of an event   *)
(* or a sample; unless the clock was set back, it prints what came after   *)
(* last and moves last past every event there is.                          *)
LEMMA PollExact ==
  ASSUME OrderInv, last \in Nat, PrintNew
  PROVE  /\ last' \in Nat
         /\ DOMAIN printed' = DOMAIN printed
         /\ \A i \in DOMAIN printed : printed'[i] \in {printed[i], printed[i] + 1}
         /\ Steady =>
              /\ last <= last'
              /\ \A i \in 1 .. Len(events) : events[i].at <= last'
              /\ \A i \in DOMAIN printed \cap (1 .. Len(events)) :
                   printed'[i] = IF events[i].at > last THEN printed[i] + 1 ELSE printed[i]
              /\ \/ last' = last
                 \/ \E j \in 1 .. Len(events) : events[j].at = last' /\ events[j].at > last
                 \/ \E j \in 1 .. Len(samples) : samples[j].at = last'
<1> DEFINE new == FilterEvents(last, 0)
           intervals == FilterSamples(last, 0)
           from == {events[i].at : i \in new} \union {v.from : v \in intervals}
<1>1. /\ new \subseteq 1 .. Len(events)
      /\ Steady => new = {i \in 1 .. Len(events) : events[i].at > last}
  BY PollLooks
<1>2. \A x \in intervals : \E j \in 1 .. Len(samples) :
        x.from = samples[j].at /\ (Steady => x.from > last)
  BY PollLooks
<1>3. last' = IF from = {} THEN last
              ELSE IF intervals = {} THEN events[Len(events)].at
              ELSE Max(from)
  BY DEF PrintNew
<1>4. printed' = [i \in DOMAIN printed |-> IF i \in new THEN printed[i] + 1 ELSE printed[i]]
  BY DEF PrintNew
<1>5. /\ Len(events) \in Nat /\ Len(samples) \in Nat
      /\ \A i \in 1 .. Len(events) : events[i].at \in Stamp
      /\ \A i \in 1 .. Len(samples) : samples[i].at \in Stamp
      /\ Steady => \A i, j \in 1 .. Len(events) : i < j => events[i].at <= events[j].at
  BY EventsOK, SamplesOK DEF Stamped
<1>6. \A i \in new : events[i].at \in from
  OBVIOUS
<1>7. from = {} => new = {} /\ intervals = {}
  OBVIOUS
<1>8. from # {} => new # {} \/ intervals # {}
  OBVIOUS
<1>9. \A x \in from : \/ \E i \in new : x = events[i].at
                      \/ \E v \in intervals : x = v.from
  OBVIOUS
<1> HIDE DEF new, intervals, from
<1>10. \A x \in from : \/ \E i \in 1 .. Len(events) : x = events[i].at /\ (Steady => x > last)
                       \/ \E j \in 1 .. Len(samples) : x = samples[j].at /\ (Steady => x > last)
  BY <1>1, <1>2, <1>9
<1>11. from # {} => Max(from) \in from /\ \A y \in from : y <= Max(from)
  <2>1. PICK a \in Nat : \A i \in 1 .. Len(events) : events[i].at <= a
    BY <1>5, Bounded
  <2>2. PICK b \in Nat : \A i \in 1 .. Len(samples) : samples[i].at <= b
    BY <1>5, Bounded
  <2>3. ASSUME NEW x \in from
        PROVE  x \in 0 .. a + b
    <3>1. x \in Nat /\ (x <= a \/ x <= b)
      BY <1>5, <1>10, <2>1, <2>2 DEF Stamp
    <3> QED
      BY <3>1
  <2>4. from \subseteq 0 .. a + b /\ a + b \in Nat
    BY <2>3
  <2> QED
    BY <2>4, MaxIn
<1>12. \A x \in from : x \in Stamp
  BY <1>5, <1>10
<1>13. CASE from = {}
  <2>1. last' = last /\ new = {}
    BY <1>3, <1>7, <1>13
  <2>2. Steady => \A i \in 1 .. Len(events) : ~(events[i].at > last)
    BY <1>1, <2>1
  <2>3. \A i \in 1 .. Len(events) : ~(events[i].at > last) => events[i].at <= last
    BY <1>5 DEF Stamp
  <2> QED
    BY <1>4, <2>1, <2>2, <2>3
<1>14. CASE from # {} /\ intervals = {}
  <2>1. PICK i \in new : TRUE
    BY <1>8, <1>14
  <2> DEFINE n == Len(events)
  <2>2. n \in 1 .. n /\ i \in 1 .. n
    BY <1>1, <1>5
  <2>3. last' = events[n].at /\ last' \in Nat
    BY <1>3, <1>5, <1>14, <2>2 DEF Stamp
  <2>4. ASSUME Steady
        PROVE  /\ \A k \in 1 .. n : events[k].at <= last'
               /\ events[n].at > last
    <3>1. \A k \in 1 .. n : events[k].at <= events[n].at
      <4> SUFFICES ASSUME NEW k \in 1 .. n
                   PROVE  events[k].at <= events[n].at
        OBVIOUS
      <4>1. CASE k = n
        BY <1>5, <4>1 DEF Stamp
      <4>2. CASE k < n
        BY <1>5, <2>2, <2>4, <4>2
      <4> QED
        BY <1>5, <4>1, <4>2
    <3>2. events[i].at > last
      BY <1>1, <2>1, <2>4
    <3>3. events[i].at \in Nat /\ events[n].at \in Nat
      BY <1>5, <2>2 DEF Stamp
    <3> QED
      BY <2>2, <2>3, <3>1, <3>2, <3>3
  <2>5. Steady => last <= last'
    BY <2>3, <2>4
  <2> HIDE DEF n
  <2>6. n = Len(events)
    BY DEF n
  <2> QED
    BY <1>1, <1>4, <2>2, <2>3, <2>4, <2>5, <2>6
<1>15. CASE from # {} /\ intervals # {}
  <2>1. last' = Max(from) /\ last' \in from /\ \A y \in from : y <= last'
    BY <1>3, <1>11, <1>15
  <2>2. last' \in Nat
    BY <1>12, <2>1 DEF Stamp
  <2>3. Steady => last' > last
    BY <1>10, <2>1
  <2>4. Steady => \A i \in 1 .. Len(events) : events[i].at <= last'
    <3> SUFFICES ASSUME Steady, NEW i \in 1 .. Len(events)
                 PROVE  events[i].at <= last'
      OBVIOUS
    <3>1. CASE events[i].at > last
      BY <1>1, <1>6, <2>1, <3>1
    <3>2. CASE ~(events[i].at > last)
      BY <1>5, <2>2, <2>3, <3>2 DEF Stamp
    <3> QED
      BY <3>1, <3>2
  <2>5. Steady => \/ \E j \in 1 .. Len(events) : events[j].at = last' /\ events[j].at > last
                  \/ \E j \in 1 .. Len(samples) : samples[j].at = last'
    BY <1>10, <2>1
  <2> QED
    BY <1>1, <1>4, <2>2, <2>3, <2>4, <2>5
<1> QED
  BY <1>13, <1>14, <1>15

(* What TypeOK needs: a sample is under way only while one is allowed.     *)
SamplerInv ==
  /\ TypeOK
  /\ sampler \in {"idle", "final"} => taken <= MaxSamples
  /\ sampler = "tick" => taken < MaxSamples

(* Every variable stays within its type, and no sample is empty.           *)
THEOREM TypeCorrect == Spec => []TypeOK
<1>0. MaxRecords \in Nat /\ MaxSamples \in Nat /\ MaxSetBacks \in Nat
  BY BoundAssumption
<1>1. Init => SamplerInv
  <2>1. /\ <<>> \in Seq([at : Stamp]) /\ <<>> \in Seq(Nat) /\ Len(<<>>) = 0
        /\ <<>> \in Seq([at : Stamp, conds : (SUBSET Cond) \ {{}}])
    OBVIOUS
  <2> SUFFICES ASSUME Init
               PROVE  SamplerInv
    OBVIOUS
  <2>2. /\ clock = 1 /\ setBacks = 0 /\ events = <<>> /\ samples = <<>> /\ sampler = "idle"
        /\ seen = {} /\ before = 0 /\ loop = "running" /\ last = 0
        /\ printed = <<>> /\ records = 0 /\ taken = 0
    BY DEF Init
  <2>3. cancelled \in BOOLEAN /\ over \in BOOLEAN
    BY Zenon DEF Init
  <2>4. /\ 1 \in Stamp /\ 0 \in 0 .. 0 /\ 0 \in 0 .. MaxRecords /\ 0 \in 0 .. MaxSamples + 1
        /\ 0 <= MaxSamples /\ 0 \in 0 .. MaxSetBacks
    BY <1>0 DEF Stamp
  <2> QED
    BY <2>1, <2>2, <2>3, <2>4 DEF SamplerInv, TypeOK
<1>2. OrderInv /\ SamplerInv /\ [Next]_vars => SamplerInv'
  <2> SUFFICES ASSUME OrderInv, SamplerInv, [Next]_vars
               PROVE  SamplerInv'
    OBVIOUS
  <2>0. /\ TypeOK /\ MaxRecords \in Nat /\ MaxSamples \in Nat /\ MaxSetBacks \in Nat
        /\ clock \in Stamp /\ Len(printed) = Len(events) /\ printed \in Seq(Nat)
        /\ setBacks \in 0 .. MaxSetBacks /\ Len(events) \in Nat
    BY <1>0, EventsOK DEF SamplerInv, TypeOK
  <2>n. ASSUME NEW t \in 1 .. clock + 1, Now(t)
        PROVE  clock' \in Stamp /\ setBacks' \in 0 .. MaxSetBacks
    <3>1. clock' \in Stamp
      BY <2>0, <2>n, NowFacts
    <3>2. setBacks' = setBacks \/ (setBacks < MaxSetBacks /\ setBacks' = setBacks + 1)
      BY <2>n DEF Now
    <3> QED
      BY <2>0, <3>1, <3>2
  <2>1. ASSUME NEW n \in 1 .. MaxConditions, Record(n)
        PROVE  SamplerInv'
    <3>1. PICK t \in 1 .. clock + 1 :
            Now(t) /\ events' = events \o [i \in 1 .. n |-> [at |-> t]]
      BY <2>1 DEF Record
    <3>2. printed' = printed \o [i \in 1 .. n |-> 0]
      BY <2>1 DEF Record
    <3>3. /\ n \in Nat /\ events' \in Seq([at : Stamp]) /\ Len(events') = Len(events) + n
          /\ printed' \in Seq(Nat) /\ Len(printed') = Len(events')
      BY <2>0, <3>1, <3>2, RecordExact
    <3>4. clock' \in Stamp /\ setBacks' \in 0 .. MaxSetBacks
      BY <2>n, <3>1
    <3>5. records' \in 0 .. MaxRecords
      BY <2>0, <2>1 DEF Record, TypeOK
    <3>6. UNCHANGED <<samples, sampler, seen, taken, before, loop, last>>
          /\ UNCHANGED cancelled /\ UNCHANGED over
      BY <2>1 DEF Record, sampling, context
    <3>7. before' \in 0 .. Len(events')
      BY <2>0, <3>3, <3>6 DEF TypeOK
    <3> QED
      BY <2>0, <3>3, <3>4, <3>5, <3>6, <3>7 DEF SamplerInv, TypeOK
  <2>2. CASE SampleTick \/ SampleDone
    <3>1. /\ sampler = "idle" /\ seen' \subseteq Cond
          /\ sampler' \in {"tick", "final"} /\ (sampler' = "tick" => taken < MaxSamples)
          /\ UNCHANGED <<clock, setBacks, events, samples, taken, cancelled, before, loop, last,
                         printed, over, records>>
      BY <2>2 DEF SampleTick, SampleDone, printing, time, context
    <3> QED
      BY <2>0, <3>1 DEF SamplerInv, TypeOK
  <2>3. CASE AppendSample
    <3> DEFINE S == [at : Stamp, conds : (SUBSET Cond) \ {{}}]
    <3>1. /\ seen' = {} /\ taken' = taken + 1
          /\ sampler' = IF sampler = "final" THEN "stopped" ELSE "idle"
          /\ sampler \in {"tick", "final"}
          /\ UNCHANGED <<events, cancelled, before, loop, last, printed, over, records>>
      BY <2>3 DEF AppendSample, printing, context
    <3>2. samples \in Seq(S)
      BY <2>0 DEF TypeOK
    <3>3. samples' \in Seq(S) /\ clock' \in Stamp /\ setBacks' \in 0 .. MaxSetBacks
      <4>1. CASE seen = {}
        <5>1. UNCHANGED <<clock, setBacks, samples>>
          BY <2>3, <4>1 DEF AppendSample, time
        <5> QED
          BY <2>0, <3>2, <5>1
      <4>2. CASE seen # {}
        <5>1. PICK t \in 1 .. clock + 1 :
                Now(t) /\ samples' = Append(samples, [at |-> t, conds |-> seen])
          BY <2>3, <4>2 DEF AppendSample
        <5>2. t \in Stamp /\ clock' \in Stamp /\ setBacks' \in 0 .. MaxSetBacks
          BY <2>0, <2>n, <5>1, NowFacts
        <5>3. [at |-> t, conds |-> seen] \in S
          <6> DEFINE K == (SUBSET Cond) \ {{}}
          <6>0. seen \subseteq Cond
            BY <2>0 DEF TypeOK
          <6>1. seen \in K
            BY <4>2, <6>0, Zenon
          <6> HIDE DEF K
          <6>2. [at |-> t, conds |-> seen] \in [at : Stamp, conds : K]
            BY <5>2, <6>1
          <6> QED
            BY <6>2 DEF K
        <5> HIDE DEF S
        <5>4. samples' \in Seq(S)
          BY <3>2, <5>1, <5>3, AppendFacts
        <5> QED
          BY <5>2, <5>4
      <4> QED
        BY <4>1, <4>2
    <3>4. taken' \in 0 .. MaxSamples + 1
          /\ (sampler' \in {"idle", "final"} => taken' <= MaxSamples) /\ sampler' # "tick"
          /\ sampler' \in {"idle", "tick", "final", "stopped"}
      BY <2>0, <3>1 DEF SamplerInv, TypeOK
    <3> QED
      BY <2>0, <3>1, <3>3, <3>4 DEF SamplerInv, TypeOK
  <2>4. CASE Cancel
    <3>1. /\ before' = Len(events)
          /\ UNCHANGED <<clock, setBacks, events, samples, sampler, seen, taken, loop, last,
                         printed, over, records>>
      BY <2>4 DEF Cancel, sampling, printing, time
    <3>2. cancelled' \in BOOLEAN
      BY <2>4, Zenon DEF Cancel
    <3>3. before' \in 0 .. Len(events')
      BY <2>0, <3>1
    <3> QED
      BY <2>0, <3>1, <3>2, <3>3 DEF SamplerInv, TypeOK
  <2>5. CASE PollTick \/ PollDone
    <3>1. /\ PrintNew /\ loop' \in {"running", "stopped"}
          /\ UNCHANGED <<clock, setBacks, events, samples, sampler, seen, taken, cancelled,
                         before, over, records>>
      BY <2>0, <2>5 DEF PollTick, PollDone, sampling, time, context, TypeOK
    <3>2. /\ last' \in Nat /\ DOMAIN printed' = DOMAIN printed
          /\ \A i \in DOMAIN printed : printed'[i] \in {printed[i], printed[i] + 1}
      BY <2>0, <3>1, PollExact DEF TypeOK
    <3>3. printed' \in Seq(Nat) /\ Len(printed') = Len(printed)
      <4>1. Len(printed) \in Nat /\ DOMAIN printed = 1 .. Len(printed)
            /\ \A i \in 1 .. Len(printed) : printed[i] \in Nat
        BY <2>0, LenProperties, ElementOfSeq
      <4>2. \E f : printed' = [i \in 1 .. Len(printed) |-> f[i]]
        BY <3>1, <4>1 DEF PrintNew
      <4>3. \A i \in 1 .. Len(printed) : printed'[i] \in Nat
        BY <3>2, <4>1
      <4>4. printed' \in [1 .. Len(printed) -> Nat]
        BY <3>2, <4>1, <4>2, <4>3
      <4> QED
        BY <4>1, <4>4
    <3> QED
      BY <2>0, <3>1, <3>2, <3>3 DEF SamplerInv, TypeOK
  <2>6. CASE Report
    <3>1. UNCHANGED <<clock, setBacks, events, samples, sampler, seen, taken, cancelled, before,
                      loop, last, printed, records>>
      BY <2>6 DEF Report, sampling, printing, time, context
    <3>2. over' \in BOOLEAN
      BY <2>6, Zenon DEF Report
    <3> QED
      BY <2>0, <3>1, <3>2 DEF SamplerInv, TypeOK
  <2>7. CASE UNCHANGED vars
    BY <2>0, <2>7 DEF vars, sampling, printing, time, context, SamplerInv, TypeOK
  <2> QED
    BY <2>1, <2>2, <2>3, <2>4, <2>5, <2>6, <2>7 DEF Next
<1>3. SamplerInv => TypeOK
  BY DEF SamplerInv
<1> QED
  BY <1>1, <1>2, <1>3, OrderInvHolds, PTL DEF Spec

(* Unless the clock was set back: last is the stamp of something an        *)
(* earlier poll found; what came after it has not been printed, and what   *)
(* is not after it has been once, or shares its stamp.  The last poll      *)
(* comes after the interruption, and nothing recorded before is later.     *)
PrintInv ==
  /\ loop = "stopped" => cancelled
  /\ Steady =>
       /\ last <= clock
       /\ \/ last = 0
          \/ \E j \in DOMAIN events : events[j].at = last /\ printed[j] > 0
          \/ \E j \in DOMAIN samples : samples[j].at = last
       /\ \A i \in DOMAIN events :
            /\ events[i].at > last => printed[i] = 0
            /\ events[i].at <= last => printed[i] = 1 \/ (printed[i] = 0 /\ SharesItsStamp(i))
       /\ loop = "stopped" => \A i \in DOMAIN events : i <= before => events[i].at <= last

(* Stamps come from a clock that is not behind last, and a poll moves last *)
(* to or past every event there is.                                        *)
THEOREM PrintInvHolds == Spec => []PrintInv
<1>1. Init => PrintInv
  BY DEF Init, PrintInv
<1>2. OrderInv /\ TypeOK /\ PrintInv /\ [Next]_vars => PrintInv'
  <2> SUFFICES ASSUME OrderInv, TypeOK, PrintInv, [Next]_vars
               PROVE  PrintInv'
    OBVIOUS
  <2>0. /\ clock \in Nat /\ last \in Nat /\ before \in 0 .. Len(events)
        /\ Len(printed) = Len(events) /\ printed \in Seq(Nat)
        /\ DOMAIN events = 1 .. Len(events) /\ DOMAIN printed = 1 .. Len(events)
        /\ Len(events) \in Nat
        /\ \A i \in 1 .. Len(events) : events[i].at \in Nat
        /\ DOMAIN samples = 1 .. Len(samples)
    BY EventsOK, SamplesOK, LenProperties DEF TypeOK, Stamp
  <2>a. /\ loop = "stopped" => cancelled
        /\ Steady => last <= clock
        /\ Steady => \/ last = 0
                     \/ \E j \in 1 .. Len(events) : events[j].at = last /\ printed[j] > 0
                     \/ \E j \in DOMAIN samples : samples[j].at = last
        /\ Steady => \A i \in 1 .. Len(events) :
             /\ events[i].at > last => printed[i] = 0
             /\ events[i].at <= last => printed[i] = 1 \/ (printed[i] = 0 /\ SharesItsStamp(i))
        /\ Steady /\ loop = "stopped" =>
             \A i \in 1 .. Len(events) : i <= before => events[i].at <= last
    BY <2>0 DEF PrintInv
  <2>1. ASSUME NEW n \in 1 .. MaxConditions, Record(n)
        PROVE  PrintInv'
    <3>1. PICK t \in 1 .. clock + 1 :
            Now(t) /\ events' = events \o [i \in 1 .. n |-> [at |-> t]]
      BY <2>1 DEF Record
    <3>2. printed' = printed \o [i \in 1 .. n |-> 0]
          /\ UNCHANGED <<samples, last, cancelled, before, loop>>
      BY <2>1 DEF Record, context
    <3>3. /\ n \in Nat /\ events' \in Seq([at : Stamp]) /\ Len(events') = Len(events) + n
          /\ \A i \in 1 .. Len(events) : events'[i] = events[i] /\ printed'[i] = printed[i]
          /\ \A i \in Len(events) + 1 .. Len(events) + n : events'[i].at = t /\ printed'[i] = 0
      <4>1. printed \in Seq(Nat) /\ Len(printed) = Len(events)
        BY <2>0
      <4>2. /\ Now(t) /\ events' = events \o [i \in 1 .. n |-> [at |-> t]]
            /\ printed' = printed \o [i \in 1 .. n |-> 0]
        BY <3>1, <3>2
      <4>3. /\ n \in Nat /\ events' \in Seq([at : Stamp]) /\ Len(events') = Len(events) + n
            /\ \A i \in 1 .. Len(events) : events'[i] = events[i]
            /\ \A i \in Len(events) + 1 .. Len(events) + n : events'[i].at = t
        BY <4>2, RecordExact
      <4>4. /\ \A i \in 1 .. Len(events) : printed'[i] = printed[i]
            /\ \A i \in Len(events) + 1 .. Len(events) + n : printed'[i] = 0
        BY <4>1, <4>2, RecordExact
      <4> QED
        BY <4>3, <4>4
    <3>4. DOMAIN events' = 1 .. Len(events) + n
      BY <3>3, LenProperties
    <3>5. t \in Nat /\ clock' = t /\ (Steady' => Steady /\ clock <= t)
      BY <3>1, NowFacts DEF OrderInv, Stamp
    <3>6. \A i \in 1 .. Len(events) + n :
            i \in 1 .. Len(events) \/ i \in Len(events) + 1 .. Len(events) + n
      BY <2>0, <3>3
    <3>7. \A i \in 1 .. Len(events) : i \in 1 .. Len(events) + n
      BY <2>0, <3>3
    <3>8. Steady' => last' <= clock'
      BY <2>0, <2>a, <3>2, <3>5
    <3>9. Steady' => \/ last' = 0
                     \/ \E j \in 1 .. Len(events) : events'[j].at = last' /\ printed'[j] > 0
                     \/ \E j \in DOMAIN samples' : samples'[j].at = last'
      BY <2>a, <3>2, <3>3, <3>5
    <3>10. ASSUME Steady', NEW i \in 1 .. Len(events) + n
           PROVE  /\ events'[i].at > last' => printed'[i] = 0
                  /\ events'[i].at <= last' =>
                       printed'[i] = 1 \/ (printed'[i] = 0 /\ SharesItsStamp(i)')
      <4>1. CASE i \in 1 .. Len(events)
        <5>1. ASSUME SharesItsStamp(i)
              PROVE  SharesItsStamp(i)'
          <6>1. \A j \in 1 .. i - 1 : j \in 1 .. Len(events)
            BY <2>0, <4>1
          <6> QED
            BY <3>2, <3>3, <4>1, <5>1, <6>1 DEF SharesItsStamp
        <5> QED
          BY <2>a, <3>2, <3>3, <3>5, <3>10, <4>1, <5>1
      <4>2. CASE i \in Len(events) + 1 .. Len(events) + n
        <5>1. events'[i].at = t /\ printed'[i] = 0 /\ last' = last
          BY <3>2, <3>3, <4>2
        <5>2. ASSUME t <= last
              PROVE  SharesItsStamp(i)'
          <6>1. t = last /\ last # 0
            BY <2>0, <2>a, <3>5, <3>10, <5>2
          <6>2. \A j \in 1 .. Len(events) : j \in 1 .. i - 1
            BY <2>0, <3>3, <4>2
          <6> QED
            BY <3>2, <3>9, <3>10, <5>1, <6>1, <6>2 DEF SharesItsStamp
        <5> QED
          BY <5>1, <5>2
      <4> QED
        BY <3>6, <4>1, <4>2
    <3>11. Steady' /\ loop' = "stopped" =>
             \A i \in 1 .. Len(events) + n : i <= before' => events'[i].at <= last'
      <4> SUFFICES ASSUME Steady', loop' = "stopped", NEW i \in 1 .. Len(events) + n, i <= before'
                   PROVE  events'[i].at <= last'
        OBVIOUS
      <4>1. i \in 1 .. Len(events)
        BY <2>0, <3>2, <3>3
      <4> QED
        BY <2>a, <3>2, <3>3, <3>5, <4>1
    <3>12. (loop = "stopped" => cancelled)'
      BY <2>a, <3>2
    <3> QED
      BY <3>4, <3>7, <3>8, <3>9, <3>10, <3>11, <3>12 DEF PrintInv
  <2>2. CASE Cancel
    <3>1. cancelled' /\ ~cancelled /\ UNCHANGED <<clock, setBacks, events, samples, loop, last, printed>>
      BY <2>2 DEF Cancel, printing, time
    <3>2. loop # "stopped"
      BY <2>a, <3>1
    <3>3. \A i : SharesItsStamp(i)' <=> SharesItsStamp(i)
      BY <3>1 DEF SharesItsStamp
    <3> QED
      BY <2>0, <2>a, <3>1, <3>2, <3>3 DEF PrintInv, Steady
  <2>3. CASE PollTick \/ PollDone
    <3>1. /\ PrintNew /\ (loop' = "stopped" => cancelled)
          /\ UNCHANGED <<clock, setBacks, events, samples, cancelled, before>>
      BY <2>3, <2>a DEF PollTick, PollDone, time, context
    <3>2. (loop = "stopped" => cancelled)'
      BY <3>1
    <3> SUFFICES ASSUME Steady
                 PROVE  PrintInv'
      BY <3>1, <3>2 DEF PrintInv, Steady
    <3>3. /\ last' \in Nat /\ last <= last' /\ DOMAIN printed' = DOMAIN printed
          /\ \A i \in 1 .. Len(events) : events[i].at <= last'
          /\ \A i \in DOMAIN printed \cap (1 .. Len(events)) :
               printed'[i] = IF events[i].at > last THEN printed[i] + 1 ELSE printed[i]
          /\ \/ last' = last
             \/ \E j \in 1 .. Len(events) : events[j].at = last' /\ events[j].at > last
             \/ \E j \in 1 .. Len(samples) : samples[j].at = last'
      BY <2>0, <3>1, PollExact
    <3>4. \A i \in 1 .. Len(events) : i \in DOMAIN printed \cap (1 .. Len(events))
      BY <2>0
    <3>5. \A i \in 1 .. Len(events) :
            printed'[i] = IF events[i].at > last THEN printed[i] + 1 ELSE printed[i]
      BY <3>3, <3>4
    <3>6. last' <= clock
      <4>1. \A j \in 1 .. Len(events) : events[j].at <= clock
        BY <2>0 DEF OrderInv, Past
      <4>2. \A j \in 1 .. Len(samples) : samples[j].at <= clock
        BY <2>0 DEF OrderInv, Past
      <4> QED
        BY <2>a, <3>3, <4>1, <4>2
    <3>7. \A i \in 1 .. Len(events) : printed[i] > 0 => printed'[i] > 0
      <4>1. \A i \in 1 .. Len(events) : printed[i] \in Nat
        BY <2>0, ElementOfSeq
      <4> QED
        BY <3>5, <4>1
    <3>8. \/ last' = 0
          \/ \E j \in 1 .. Len(events) : events[j].at = last' /\ printed'[j] > 0
          \/ \E j \in 1 .. Len(samples) : samples[j].at = last'
      <4>1. CASE last' = last
        BY <2>0, <2>a, <3>7, <4>1
      <4>2. CASE \E j \in 1 .. Len(events) : events[j].at = last' /\ events[j].at > last
        <5>1. PICK j \in 1 .. Len(events) : events[j].at = last' /\ events[j].at > last
          BY <4>2
        <5>2. printed[j] = 0
          BY <2>a, <5>1
        <5> QED
          BY <3>5, <5>1, <5>2
      <4> QED
        BY <3>3, <4>1, <4>2
    <3>9. ASSUME NEW i \in 1 .. Len(events)
          PROVE  printed'[i] = 1 \/ (printed'[i] = 0 /\ SharesItsStamp(i)')
      <4>1. CASE events[i].at > last
        <5>1. printed[i] = 0
          BY <2>a, <4>1
        <5> QED
          BY <3>5, <4>1, <5>1
      <4>2. CASE ~(events[i].at > last)
        <5>1. events[i].at <= last /\ printed'[i] = printed[i]
          BY <2>0, <3>5, <4>2
        <5>2. SharesItsStamp(i) => SharesItsStamp(i)'
          <6>1. \A j \in 1 .. i - 1 : j \in 1 .. Len(events)
            BY <2>0
          <6> QED
            BY <3>1, <3>7, <6>1 DEF SharesItsStamp
        <5> QED
          BY <2>a, <5>1, <5>2
      <4> QED
        BY <4>1, <4>2
    <3>10. \A i \in 1 .. Len(events) : events[i].at <= last' /\ ~(events[i].at > last')
      BY <2>0, <3>3
    <3>11. DOMAIN events' = 1 .. Len(events) /\ DOMAIN samples' = 1 .. Len(samples)
           /\ clock' = clock /\ events' = events /\ samples' = samples
      BY <2>0, <3>1
    <3>12. \A i \in DOMAIN events' :
             /\ events'[i].at > last' => printed'[i] = 0
             /\ events'[i].at <= last' => printed'[i] = 1 \/ (printed'[i] = 0 /\ SharesItsStamp(i)')
      BY <3>9, <3>10, <3>11
    <3> QED
      BY <3>2, <3>6, <3>8, <3>10, <3>11, <3>12 DEF PrintInv
  <2>4. CASE AppendSample
    <3>1. UNCHANGED <<events, cancelled, before, loop, last, printed>>
      BY <2>4 DEF AppendSample, printing, context
    <3>2. /\ Steady' => Steady /\ clock <= clock'
          /\ clock' \in Nat
          /\ \A j \in DOMAIN samples : j \in DOMAIN samples' /\ samples'[j] = samples[j]
      <4>1. CASE seen = {}
        <5>1. UNCHANGED <<clock, setBacks, samples>>
          BY <2>4, <4>1 DEF AppendSample, time
        <5> QED
          BY <2>0, <5>1 DEF Steady
      <4>2. CASE seen # {}
        <5>1. PICK t \in 1 .. clock + 1 :
                Now(t) /\ samples' = Append(samples, [at |-> t, conds |-> seen])
          BY <2>4, <4>2 DEF AppendSample
        <5>2. clock' = t /\ t \in Stamp /\ (Steady' => Steady /\ clock <= t)
          BY <5>1, NowFacts DEF OrderInv
        <5> DEFINE s == [at |-> t, conds |-> seen]
                   S == [at : Stamp, conds : SUBSET Cond]
        <5>3. s \in S /\ samples \in Seq(S) /\ samples' = Append(samples, s)
          BY <5>1, <5>2 DEF OrderInv
        <5> HIDE DEF s, S
        <5>4. /\ samples' \in Seq(S) /\ Len(samples') = Len(samples) + 1
              /\ \A k \in 1 .. Len(samples) : samples'[k] = samples[k]
          BY <5>3, AppendFacts
        <5>5. DOMAIN samples' = 1 .. Len(samples) + 1 /\ Len(samples) \in Nat
          BY <5>4, LenProperties, SamplesOK
        <5> QED
          BY <2>0, <5>2, <5>4, <5>5 DEF Stamp
      <4> QED
        BY <4>1, <4>2
    <3>3. \A i : SharesItsStamp(i) => SharesItsStamp(i)'
      BY <3>1, <3>2 DEF SharesItsStamp
    <3>4. Steady' => last' <= clock'
      BY <2>0, <2>a, <3>1, <3>2
    <3> QED
      BY <2>0, <2>a, <3>1, <3>2, <3>3, <3>4 DEF PrintInv
  <2>5. CASE SampleTick \/ SampleDone \/ Report \/ UNCHANGED vars
    <3>1. UNCHANGED <<clock, setBacks, events, samples, cancelled, before, loop, last, printed>>
      BY <2>5 DEF SampleTick, SampleDone, Report, vars, printing, time, context
    <3>2. \A i : SharesItsStamp(i)' <=> SharesItsStamp(i)
      BY <3>1 DEF SharesItsStamp
    <3> QED
      BY <2>0, <2>a, <3>1, <3>2 DEF PrintInv, Steady
  <2> QED
    BY <2>1, <2>2, <2>3, <2>4, <2>5 DEF Next
<1> QED
  BY <1>1, <1>2, OrderInvHolds, TypeCorrect, PTL DEF Spec

(* Unless the wall clock was set back, run-monitor prints no event twice   *)
(* and passes over none up to last, nor, once its last poll is over, one   *)
(* recorded before the interruption, but for events that share their stamp *)
(* with something an earlier poll found; for every number of events,       *)
(* samples and polls.                                                      *)
THEOREM PrintsExactlyOnce == Spec => []PrintedExactlyOnce
<1>1. OrderInv /\ TypeOK /\ PrintInv => PrintedExactlyOnce
  <2> SUFFICES ASSUME OrderInv, TypeOK, PrintInv, Steady, NEW i \in DOMAIN events
               PROVE  /\ printed[i] <= 1
                      /\ events[i].at <= last \/ (loop = "stopped" /\ i <= before)
                           => printed[i] = 1 \/ SharesItsStamp(i)
    BY DEF PrintedExactlyOnce
  <2>1. events[i].at \in Nat /\ last \in Nat
    BY EventsOK DEF TypeOK, Stamp
  <2>2. /\ events[i].at > last => printed[i] = 0
        /\ events[i].at <= last => printed[i] = 1 \/ (printed[i] = 0 /\ SharesItsStamp(i))
        /\ loop = "stopped" /\ i <= before => events[i].at <= last
    BY DEF PrintInv
  <2>3. printed[i] = 1 \/ printed[i] = 0
    BY <2>1, <2>2
  <2> QED
    BY <2>2, <2>3
<1> QED
  BY <1>1, OrderInvHolds, TypeCorrect, PrintInvHolds, PTL

-----------------------------------------------------------------------------
(***************************************************************************)
(* The event watch, for every number of events and failures and every      *)
(* choice of system namespaces.                                            *)
(***************************************************************************)
(* Every variable stays within its type: the watch never runs ahead of the *)
(* cluster, the first list is never later than the one in use, and errors  *)
(* recorded are failures that happened.                                    *)
THEOREM WatchTypeCorrect == WatchSpec => []WatchTypeOK
<1> USE WatchBounds, SystemAssumption
<1>1. WatchInit => WatchTypeOK
  <2> SUFFICES ASSUME WatchInit
               PROVE  WatchTypeOK
    OBVIOUS
  <2>1. recorded \in [Event -> Nat]
    BY DEF WatchInit
  <2>2. head \in 0 .. MaxEvents /\ oldest \in 0 .. head /\ rv \in 0 .. head /\ pos \in 0 .. head
    BY DEF WatchInit
  <2>3. failures \in 0 .. MaxFailures /\ errors \in 0 .. failures /\ listed \in -1 .. rv
    BY DEF WatchInit
  <2> QED
    BY <2>1, <2>2, <2>3 DEF WatchInit, WatchTypeOK
<1>2. WatchTypeOK /\ [WatchNext]_watchVars => WatchTypeOK'
  <2> SUFFICES ASSUME WatchTypeOK, [WatchNext]_watchVars
               PROVE  WatchTypeOK'
    OBVIOUS
  <2> USE DEF WatchTypeOK, cluster, watcher, Fail
  <2>1. CASE NewEvent
    BY <2>1 DEF NewEvent
  <2>2. CASE Compact
    BY <2>2 DEF Compact
  <2>3. CASE WatchCancel
    BY <2>3 DEF WatchCancel
  <2>4. CASE LookAtContext
    BY <2>4 DEF LookAtContext
  <2>5. CASE List
    BY <2>5 DEF List
  <2>6. CASE ListFails
    BY <2>6 DEF ListFails
  <2>7. CASE Watch
    BY <2>7 DEF Watch
  <2>8. CASE WatchExpired
    BY <2>8 DEF WatchExpired
  <2>9. CASE WatchFails
    BY <2>9 DEF WatchFails
  <2>10. CASE Deliver
    <3>1. pos' \in 0 .. head /\ UNCHANGED <<cluster, pc, rv, errors, listed, failures, expiries>>
      BY <2>10 DEF Deliver
    <3>2. recorded' \in [Event -> Nat]
      <4>1. CASE pos' \in System
        BY <2>10, <4>1 DEF Deliver, Event
      <4>2. CASE pos' \notin System
        BY <2>10, <4>2 DEF Deliver
      <4> QED
        BY <4>1, <4>2
    <3> QED
      BY <3>1, <3>2
  <2>11. CASE StreamEnds
    BY <2>11 DEF StreamEnds
  <2>12. CASE StreamErrors
    BY <2>12 DEF StreamErrors
  <2>13. CASE StreamExpires
    BY <2>13 DEF StreamExpires
  <2>14. CASE UNCHANGED watchVars
    BY <2>14 DEF watchVars
  <2> QED
    BY <2>1, <2>2, <2>3, <2>4, <2>5, <2>6, <2>7, <2>8, <2>9, <2>10, <2>11, <2>12, <2>13, <2>14
       DEF WatchNext, Cluster, Loop
<1> QED
  BY <1>1, <1>2, PTL DEF WatchSpec

(* A watch follows a list, and reads from its version on; without an       *)
(* expiry that is the version of the first list.                           *)
RecordingInv ==
  /\ pc \in {"watch", "read"} => listed # -1
  /\ pc = "read" => rv <= pos
  /\ expiries = 0 /\ listed # -1 => pc \in {"watch", "read"} /\ rv = listed
  /\ RecordedExactly

(* Without an expiry the goroutine never lists again, so a watch that is   *)
(* opened again delivers everything since the first list once more.        *)
THEOREM RecordingInvHolds == WatchSpec => []RecordingInv
<1> USE WatchBounds, SystemAssumption
<1>1. WatchInit => RecordingInv
  BY DEF WatchInit, RecordingInv, RecordedExactly, OnlyExpirySkips, NothingElseRecorded
<1>2. WatchTypeOK /\ RecordingInv /\ [WatchNext]_watchVars => RecordingInv'
  <2> SUFFICES ASSUME WatchTypeOK, RecordingInv, [WatchNext]_watchVars
               PROVE  RecordingInv'
    OBVIOUS
  <2> USE DEF WatchTypeOK, RecordingInv, RecordedExactly, OnlyExpirySkips, NothingElseRecorded,
              cluster, watcher
  <2>1. CASE Cluster
    BY <2>1 DEF Cluster, NewEvent, Compact, WatchCancel
  <2>2. CASE LookAtContext
    BY <2>2 DEF LookAtContext
  <2>3. CASE List
    <3>1. /\ pc = "list" /\ pc' = "watch" /\ rv' = head
          /\ listed' = (IF listed = -1 THEN head ELSE listed)
          /\ UNCHANGED <<pos, recorded, expiries>>
      BY <2>3 DEF List
    <3>2. CASE listed = -1
      BY <3>1, <3>2
    <3>3. CASE listed # -1
      BY <3>1, <3>3
    <3> QED
      BY <3>2, <3>3
  <2>4. CASE ListFails
    BY <2>4 DEF ListFails
  <2>5. CASE Watch
    BY <2>5 DEF Watch
  <2>6. CASE WatchExpired
    BY <2>6 DEF WatchExpired
  <2>7. CASE WatchFails
    BY <2>7 DEF WatchFails
  <2>8. CASE Deliver
    <3>1. /\ pc = "read" /\ pos' = pos + 1 /\ pos' \in Event
          /\ UNCHANGED <<pc, rv, listed, expiries>>
      BY <2>8 DEF Deliver, Event
    <3>2. /\ pos' \in System => recorded[pos'] + 1 > 0 /\ recorded'[pos'] = recorded[pos'] + 1
          /\ pos' \notin System => recorded'[pos'] = recorded[pos']
          /\ \A e \in Event : e # pos' => recorded'[e] = recorded[e]
      <4>1. CASE pos' \in System
        BY <2>8, <3>1, <4>1 DEF Deliver
      <4>2. CASE pos' \notin System
        BY <2>8, <3>1, <4>2 DEF Deliver
      <4> QED
        BY <4>1, <4>2
    <3>3. OnlyExpirySkips'
      <4> SUFFICES ASSUME expiries = 0, NEW e \in System, e \in listed + 1 .. pos + 1
                   PROVE  recorded'[e] > 0
        BY <3>1
      <4>1. e \in Event
        BY DEF Event
      <4>2. CASE e = pos'
        BY <3>1, <3>2, <4>1, <4>2
      <4>3. CASE e # pos'
        BY <3>1, <3>2, <4>1, <4>3
      <4> QED
        BY <4>2, <4>3
    <3>4. NothingElseRecorded'
      BY <3>1, <3>2
    <3> QED
      BY <3>1, <3>3, <3>4
  <2>9. CASE StreamEnds
    BY <2>9 DEF StreamEnds
  <2>10. CASE StreamErrors
    BY <2>10 DEF StreamErrors
  <2>11. CASE StreamExpires
    BY <2>11 DEF StreamExpires
  <2>12. CASE UNCHANGED watchVars
    BY <2>12 DEF watchVars
  <2> QED
    BY <2>1, <2>2, <2>3, <2>4, <2>5, <2>6, <2>7, <2>8, <2>9, <2>10, <2>11, <2>12
       DEF WatchNext, Loop
<1> QED
  BY <1>1, <1>2, WatchTypeCorrect, PTL DEF WatchSpec

(* However often the watch breaks, the events recorded are those of system *)
(* namespaces since the list, all of them but for an expiry.               *)
THEOREM RecordsExactly == WatchSpec => []RecordedExactly
<1>1. RecordingInv => RecordedExactly
  BY DEF RecordingInv
<1> QED
  BY <1>1, RecordingInvHolds, PTL
=============================================================================
