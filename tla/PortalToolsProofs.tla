------------------------- MODULE PortalToolsProofs -------------------------
(***************************************************************************)
(* Theorems about the tools that read ReportPortal page by page, for every *)
(* set of items, suites and profiles, every page size and every number of  *)
(* faults, runs and changes by others.                                     *)
(***************************************************************************)
EXTENDS PortalTools, FiniteSetTheorems, WellFoundedInduction, TLAPS

-----------------------------------------------------------------------------
(* Numbers and loops.                                                      *)

(* Every non-empty set of numbers has a least one.                         *)
LEMMA Least ==
  ASSUME NEW S, S \subseteq Nat, S # {}
  PROVE  \E x \in S : \A y \in S : x <= y
<1>1. PICK x \in S : \A y \in S : ~(<<y, x>> \in OpToRel(<, Nat))
  BY NatLessThanWellFounded, WFMin, Zenon
<1>2. \A y \in S : y \in Nat /\ <<y, x>> \in Nat \X Nat
  OBVIOUS
<1>3. \A y \in S : ~(y < x)
  BY <1>1, <1>2 DEF OpToRel
<1> QED
  BY <1>2, <1>3

(* Induction, said of a set of numbers.                                    *)
LEMMA Induction ==
  ASSUME NEW n \in Nat, NEW S, 0 \in S, \A m \in 0 .. n - 1 : m \in S => m + 1 \in S
  PROVE  \A m \in 0 .. n : m \in S
<1> DEFINE T == {m \in 0 .. n : m \notin S}
<1>1. SUFFICES ASSUME T # {}
               PROVE  FALSE
  OBVIOUS
<1>2. T \subseteq Nat
  OBVIOUS
<1>3. PICK x \in T : \A y \in T : x <= y
  BY <1>1, <1>2, Least
<1>4. x \in 0 .. n /\ x \notin S /\ x # 0
  OBVIOUS
<1>5. x - 1 \in 0 .. n - 1 /\ x - 1 \in Nat /\ x - 1 + 1 = x
  BY <1>4
<1>6. x - 1 \notin S
  BY <1>4, <1>5
<1>7. x - 1 \in T
  BY <1>5, <1>6
<1> QED
  BY <1>3, <1>4, <1>5, <1>7

(* A loop over 1 .. L with a step that stays in A can be run.              *)
Loop(g, L, A, start, step) ==
  g \in [0 .. L -> A] /\ g[0] = start /\ \A n \in 1 .. L : g[n] = step[<<g[n - 1], n>>]

LEMMA LoopExists ==
  ASSUME NEW L \in Nat, NEW A, NEW start \in A, NEW step \in [A \X (1 .. L) -> A]
  PROVE  \E g : Loop(g, L, A, start, step)
<1> DEFINE S == {m \in 0 .. L : \E g \in [0 .. m -> A] :
                    g[0] = start /\ \A n \in 1 .. m : g[n] = step[<<g[n - 1], n>>]}
<1>1. 0 \in S
  <2> DEFINE g == [n \in 0 .. 0 |-> start]
  <2>1. g \in [0 .. 0 -> A] /\ g[0] = start
    OBVIOUS
  <2> HIDE DEF g
  <2>2. \A n \in 1 .. 0 : g[n] = step[<<g[n - 1], n>>]
    OBVIOUS
  <2>3. 0 \in 0 .. L
    OBVIOUS
  <2> QED
    BY <2>1, <2>2, <2>3
<1>2. ASSUME NEW m \in 0 .. L - 1, m \in S
      PROVE  m + 1 \in S
  <2>1. PICK g \in [0 .. m -> A] : g[0] = start /\ \A n \in 1 .. m : g[n] = step[<<g[n - 1], n>>]
    BY <1>2
  <2>2. m \in Nat /\ m \in 0 .. m /\ m + 1 \in 1 .. L /\ m + 1 - 1 = m /\ m + 1 # 0
    OBVIOUS
  <2>3. PICK x \in A : x = step[<<g[m], m + 1>>]
    BY <2>2
  <2> DEFINE h == [n \in 0 .. m + 1 |-> IF n = m + 1 THEN x ELSE g[n]]
  <2>4. h \in [0 .. m + 1 -> A]
    BY <2>2
  <2>5. h[m + 1] = x /\ \A n \in 0 .. m : h[n] = g[n]
    BY <2>2
  <2> HIDE DEF h
  <2>6. \A n \in 1 .. m + 1 : h[n] = step[<<h[n - 1], n>>]
    <3> SUFFICES ASSUME NEW n \in 1 .. m + 1
                 PROVE  h[n] = step[<<h[n - 1], n>>]
      OBVIOUS
    <3>1. CASE n = m + 1
      <4>1. h[n] = x /\ n - 1 = m /\ h[n - 1] = g[m]
        BY <2>2, <2>5, <3>1
      <4> QED
        BY <2>3, <3>1, <4>1
    <3>2. CASE n # m + 1
      <4>1. n \in 1 .. m /\ n \in 0 .. m /\ n - 1 \in 0 .. m
        BY <2>2, <3>2
      <4> QED
        BY <2>1, <2>5, <4>1
    <3> QED
      BY <3>1, <3>2
  <2>7. h[0] = start
    BY <2>1, <2>2, <2>5
  <2> QED
    BY <2>4, <2>6, <2>7
<1>3. \A m \in 0 .. L : m \in S
  <2> HIDE DEF S
  <2> QED
    BY <1>1, <1>2, Induction
<1>4. L \in S
  <2> HIDE DEF S
  <2> QED
    BY <1>3
<1> QED
  BY <1>4 DEF Loop

(* Min chooses the least.                                                  *)
LEMMA MinIn ==
  ASSUME NEW S, S \subseteq Nat, S # {}
  PROVE  Min(S) \in S
<1>1. \E x \in S : \A y \in S : x <= y
  BY Least
<1> QED
  BY <1>1 DEF Min

-----------------------------------------------------------------------------
(* Pages.                                                                  *)

(* Past the last page nothing is left of a list.                           *)
LEMMA PagesReach ==
  ASSUME NEW n \in Nat, NEW size \in Nat \ {0}, NEW k \in Nat, ~(k < PagesOf(n, size))
  PROVE  n <= k * size
<1> DEFINE q == PagesOf(n, size)
<1>1. q \in Int /\ n + size - 1 < q * size + size
  BY Z3 DEF PagesOf
<1>2. q <= k
  BY <1>1
<1> HIDE DEF q
<1>3. q * size <= k * size
  BY <1>1, <1>2, Z3
<1> QED
  BY <1>1, <1>3, Z3

LEMMA RankIs ==
  ASSUME NEW S, S \subseteq Nat, IsFiniteSet(S), NEW x \in S
  PROVE  Cardinality(S) \in Nat /\ Rank(x, S) \in 1 .. Cardinality(S)
<1> DEFINE Below == {y \in S : y <= x}
<1>1. Below \subseteq S /\ x \in Below
  OBVIOUS
<1> HIDE DEF Below
<1>2. IsFiniteSet(Below) /\ Cardinality(Below) <= Cardinality(S)
  BY <1>1, FS_Subset
<1>3. Cardinality(Below) \in Nat /\ Cardinality(S) \in Nat /\ Cardinality(Below) # 0
  BY <1>1, <1>2, FS_CardinalityType, FS_EmptySet
<1>4. Cardinality(Below) \in 1 .. Cardinality(S)
  BY <1>2, <1>3
<1>5. Rank(x, S) = Cardinality(Below)
  BY DEF Rank, Below
<1> QED
  BY <1>3, <1>4, <1>5

(* All of S up to page k is in got, as far as it matters.                  *)
Reached(S, k, size, got) == \A x \in S : Rank(x, S) <= (k - 1) * size => x \in got

(* Before the first page nothing is.                                       *)
LEMMA NoneReached ==
  ASSUME NEW S, S \subseteq Nat, IsFiniteSet(S), NEW size \in Nat, NEW got
  PROVE  Reached(S, 1, size, got)
<1> SUFFICES ASSUME NEW x \in S, Rank(x, S) <= (1 - 1) * size
             PROVE  FALSE
  BY DEF Reached
<1>1. Rank(x, S) \in 1 .. Cardinality(S) /\ Cardinality(S) \in Nat
  BY RankIs
<1> QED
  BY <1>1

(* A page that is read adds to what is reached.                            *)
LEMMA PageReached ==
  ASSUME NEW S, S \subseteq Nat, IsFiniteSet(S), NEW size \in Nat, NEW k \in Nat, NEW got, NEW new,
         Reached(S, k, size, got), got \subseteq new, PageAt(S, k, size) \subseteq new
  PROVE  Reached(S, k + 1, size, new)
<1> SUFFICES ASSUME NEW x \in S, Rank(x, S) <= (k + 1 - 1) * size
             PROVE  x \in new
  BY DEF Reached
<1>1. k + 1 - 1 = k /\ (k - 1) * size \in Int /\ k * size \in Int
  OBVIOUS
<1>2. Rank(x, S) \in 1 .. Cardinality(S) /\ Cardinality(S) \in Nat
  BY RankIs
<1>3. Rank(x, S) <= k * size
  BY <1>1
<1>4. CASE Rank(x, S) <= (k - 1) * size
  BY <1>4 DEF Reached
<1>5. CASE (k - 1) * size < Rank(x, S)
  BY <1>3, <1>5 DEF PageAt
<1> QED
  BY <1>1, <1>2, <1>4, <1>5

(* With the last page everything is.                                       *)
LEMMA AllReached ==
  ASSUME NEW S, S \subseteq Nat, IsFiniteSet(S), NEW size \in Nat \ {0}, NEW k \in Nat \ {0}, NEW got,
         Reached(S, k, size, got), k > PagesOf(Cardinality(S), size)
  PROVE  S \subseteq got
<1> SUFFICES ASSUME NEW x \in S
             PROVE  x \in got
  OBVIOUS
<1>1. Cardinality(S) \in Nat /\ Rank(x, S) \in 1 .. Cardinality(S)
  BY RankIs
<1>2. k - 1 \in Nat /\ PagesOf(Cardinality(S), size) \in Int
  BY <1>1 DEF PagesOf
<1>3. ~(k - 1 < PagesOf(Cardinality(S), size))
  BY <1>2
<1>4. Cardinality(S) <= (k - 1) * size
  BY <1>1, <1>2, <1>3, PagesReach
<1>5. (k - 1) * size \in Int
  BY <1>2
<1>6. Rank(x, S) <= (k - 1) * size
  BY <1>1, <1>4, <1>5
<1> QED
  BY <1>6 DEF Reached

-----------------------------------------------------------------------------
(* The profiles.                                                           *)
ProfileInv ==
  /\ faults \in 0 .. MaxFaults /\ changes \in 0 .. MaxChanges
  /\ inRepo \subseteq Profile /\ (listed \cup stale) \subseteq Profile
  /\ real \in [Profile -> Nat] /\ fakes \in [Profile -> Nat]
  /\ back \in {"clean", "each"} /\ cur \in Profile \cup {0}
  /\ ppc \in {"idle", "list", "clean", "each", "find", "delete", "import", "getid", "attrs"}
  /\ \A p \in Profile : real[p] <= changes /\ fakes[p] <= faults + 1
  /\ ppc \in {"find", "delete", "import", "getid", "attrs"} => cur \in Profile
  /\ ppc \in {"import", "getid", "attrs"} => fakes[cur] <= faults
  /\ ppc = "delete" => fakes[cur] > 0
  /\ ppc \in {"find", "delete"} /\ back = "each" => real[cur] + fakes[cur] > 1

(* What a call does to the faults.                                         *)
LEMMA CountFacts ==
  ASSUME faults \in 0 .. MaxFaults, NEW a \in Answer, Count(a)
  PROVE  /\ faults' \in 0 .. MaxFaults /\ a \in {"ok", "error", "lost"}
         /\ faults' = IF a = "ok" THEN faults ELSE faults + 1
  BY CallsAssumption DEF Answer, Count

LEMMA DieFacts ==
  ASSUME faults \in 0 .. MaxFaults, Die
  PROVE  faults' \in 0 .. MaxFaults /\ faults' = faults + 1
  BY CallsAssumption DEF Die

LEMMA ProfileStart == Init => ProfileInv
  BY CallsAssumption, ProfileAssumption DEF Init, ProfileInit, ProfileInv, Profile

(* The other tools leave the profiles alone; their faults only add up.     *)
LEMMA ProfileAside ==
  ASSUME ProfileInv, faults' \in 0 .. MaxFaults, faults <= faults', UNCHANGED pvars
  PROVE  ProfileInv'
<1>1. UNCHANGED <<inRepo, real, fakes, ppc, listed, stale, cur, back, changes>>
  BY DEF pvars
<1>2. \A p \in Profile : real[p] <= changes /\ fakes[p] <= faults' + 1
  BY CallsAssumption, ProfileAssumption DEF ProfileInv
<1>3. ppc \in {"import", "getid", "attrs"} => fakes[cur] <= faults'
  BY CallsAssumption, ProfileAssumption DEF ProfileInv
<1> QED
  BY <1>1, <1>2, <1>3, CallsAssumption, ProfileAssumption DEF ProfileInv

LEMMA PutProfileLaunchKeeps ==
  ASSUME ProfileInv, PutProfileLaunch
  PROVE  ProfileInv'
  BY CallsAssumption, ProfileAssumption DEF ProfileInv, PutProfileLaunch, portal

LEMMA ListFakesKeeps ==
  ASSUME ProfileInv, ListFakes
  PROVE  ProfileInv'
<1>1. PICK a \in ReadAnswer :
        Count(a) /\ stale' = IF a = "ok" THEN {p \in Profile : fakes[p] > 0} \ listed ELSE {}
  BY DEF ListFakes
<1>2. a \in Answer /\ faults \in 0 .. MaxFaults
  BY DEF ReadAnswer, ProfileInv
<1>3. faults' \in 0 .. MaxFaults /\ faults <= faults'
  BY <1>1, <1>2, CountFacts, CallsAssumption
<1>4. stale' \subseteq Profile
  BY <1>1
<1>5. UNCHANGED <<inRepo, real, fakes, changes, listed, cur, back>> /\ ppc' = "clean"
  BY DEF ListFakes, portal
<1>6. \A p \in Profile : fakes[p] <= faults' + 1
  BY <1>2, <1>3, CallsAssumption DEF ProfileInv
<1> QED
  BY <1>3, <1>4, <1>5, <1>6 DEF ProfileInv

LEMMA NextStaleKeeps ==
  ASSUME ProfileInv, NextStale
  PROVE  ProfileInv'
<1>1. UNCHANGED <<inRepo, real, fakes, changes, listed, faults>>
  BY DEF NextStale, portal
<1>2. CASE stale = {}
  BY <1>1, <1>2 DEF ProfileInv, NextStale
<1>3. CASE stale # {}
  <2>1. cur' = Min(stale) /\ stale' = stale \ {cur'} /\ ppc' = "find" /\ back' = "clean"
    BY <1>3 DEF NextStale
  <2>2. stale \subseteq Profile /\ Profile \subseteq Nat
    BY ProfileAssumption DEF ProfileInv, Profile
  <2>3. Min(stale) \in stale
    BY <1>3, <2>2, MinIn
  <2>4. cur' \in Profile /\ stale' \subseteq Profile
    BY <2>1, <2>2, <2>3
  <2> QED
    BY <1>1, <2>1, <2>4 DEF ProfileInv
<1> QED
  BY <1>2, <1>3

LEMMA NextProfileKeeps ==
  ASSUME ProfileInv, NextProfile
  PROVE  ProfileInv'
<1>1. UNCHANGED <<inRepo, real, fakes, changes, stale>> /\ ppc = "each"
  BY DEF NextProfile, portal
<1>2. CASE listed = {}
  BY <1>1, <1>2 DEF ProfileInv, NextProfile
<1>3. CASE listed # {}
  <2>1. cur' = Min(listed) /\ listed' = listed \ {cur'} /\ back' = "each"
    BY <1>3 DEF NextProfile
  <2>2. PICK a \in ReadAnswer :
          Count(a) /\ ppc' = For(IF a = "ok" THEN real[cur'] + fakes[cur'] ELSE 0)
    BY <1>3 DEF NextProfile
  <2>3. listed \subseteq Profile /\ Profile \subseteq Nat
    BY ProfileAssumption DEF ProfileInv, Profile
  <2>4. Min(listed) \in listed
    BY <1>3, <2>3, MinIn
  <2>5. cur' \in Profile /\ listed' \subseteq Profile
    BY <2>1, <2>3, <2>4
  <2>6. a \in Answer /\ faults \in 0 .. MaxFaults
    BY <2>2 DEF ReadAnswer, ProfileInv
  <2>7. faults' \in 0 .. MaxFaults /\ faults' = IF a = "ok" THEN faults ELSE faults + 1
    BY <2>2, <2>6, CountFacts
  <2>8. real[cur'] \in Nat /\ fakes[cur'] \in Nat /\ fakes[cur'] <= faults + 1
    BY <2>5 DEF ProfileInv
  <2>9. \/ ppc' = "import" /\ fakes[cur'] <= faults'
        \/ ppc' = "find" /\ real[cur'] + fakes[cur'] > 1
        \/ ppc' = "each"
    BY <2>2, <2>6, <2>7, <2>8 DEF For
  <2>10. \A p \in Profile : fakes[p] <= faults' + 1
    BY <2>6, <2>7, CallsAssumption DEF ProfileInv
  <2> QED
    BY <1>1, <2>1, <2>5, <2>7, <2>9, <2>10 DEF ProfileInv
<1> QED
  BY <1>2, <1>3

LEMMA FindFakeKeeps ==
  ASSUME ProfileInv, FindFake
  PROVE  ProfileInv'
<1>1. PICK a \in ReadAnswer :
        Count(a) /\ ppc' = IF a = "ok" /\ fakes[cur] > 0 THEN "delete" ELSE back
  BY DEF FindFake
<1>2. a \in Answer /\ faults \in 0 .. MaxFaults
  BY DEF ReadAnswer, ProfileInv
<1>3. faults' \in 0 .. MaxFaults /\ faults <= faults'
  BY <1>1, <1>2, CountFacts, CallsAssumption
<1>4. UNCHANGED <<inRepo, real, fakes, changes, listed, stale, cur, back>> /\ ppc = "find"
  BY DEF FindFake, portal
<1>5. \A p \in Profile : fakes[p] <= faults' + 1
  BY <1>2, <1>3, CallsAssumption DEF ProfileInv
<1>6. \/ ppc' = "delete" /\ fakes[cur] > 0
      \/ ppc' \in {"each", "clean"}
  BY <1>1 DEF ProfileInv
<1> QED
  BY <1>3, <1>4, <1>5, <1>6 DEF ProfileInv

LEMMA DeleteFakeKeeps ==
  ASSUME ProfileInv, DeleteFake
  PROVE  ProfileInv'
<1>1. PICK a \in Answer :
        Count(a) /\ fakes' = IF a = "error" THEN fakes ELSE [fakes EXCEPT ![cur] = @ - 1]
  BY DEF DeleteFake
<1>2. faults \in 0 .. MaxFaults
  BY DEF ProfileInv
<1>3. faults' \in 0 .. MaxFaults /\ faults <= faults'
  BY <1>1, <1>2, CountFacts, CallsAssumption
<1>4. UNCHANGED <<inRepo, real, changes, listed, stale, cur, back>> /\ ppc = "delete" /\ ppc' = back
  BY DEF DeleteFake
<1>5. fakes' \in [Profile -> Nat] /\ \A p \in Profile : fakes'[p] <= fakes[p]
  BY <1>1, <1>4 DEF ProfileInv
<1>6. \A p \in Profile : fakes'[p] <= faults' + 1
  BY <1>2, <1>3, <1>5, CallsAssumption DEF ProfileInv
<1> QED
  BY <1>3, <1>4, <1>5, <1>6 DEF ProfileInv

LEMMA ImportFakeKeeps ==
  ASSUME ProfileInv, ImportFake
  PROVE  ProfileInv'
<1>1. PICK a \in Answer :
        Count(a) /\ ppc' = IF a # "ok" THEN "each" ELSE IF ppc = "import" THEN "getid" ELSE "attrs"
  BY DEF ImportFake
<1>2. faults \in 0 .. MaxFaults
  BY DEF ProfileInv
<1>3. faults' \in 0 .. MaxFaults /\ faults <= faults'
  BY <1>1, <1>2, CountFacts, CallsAssumption
<1>4. UNCHANGED <<inRepo, real, fakes, changes, listed, stale, cur, back>> /\ ppc \in {"import", "getid"}
  BY DEF ImportFake, portal
<1>5. \A p \in Profile : fakes[p] <= faults' + 1
  BY <1>2, <1>3, CallsAssumption DEF ProfileInv
<1>6. cur \in Profile /\ fakes[cur] <= faults'
  BY <1>2, <1>3, <1>4, CallsAssumption DEF ProfileInv
<1>7. ppc' \in {"each", "getid", "attrs"}
  BY <1>1
<1> QED
  BY <1>3, <1>4, <1>5, <1>6, <1>7 DEF ProfileInv

LEMMA AttributeFakeKeeps ==
  ASSUME ProfileInv, AttributeFake
  PROVE  ProfileInv'
<1>1. PICK a \in Answer :
        Count(a) /\ fakes' = IF a = "error" THEN fakes ELSE [fakes EXCEPT ![cur] = @ + 1]
  BY DEF AttributeFake
<1>2. faults \in 0 .. MaxFaults
  BY DEF ProfileInv
<1>3. faults' \in 0 .. MaxFaults /\ faults <= faults'
  BY <1>1, <1>2, CountFacts, CallsAssumption
<1>4. UNCHANGED <<inRepo, real, changes, listed, stale, cur, back>> /\ ppc = "attrs" /\ ppc' = "each"
  BY DEF AttributeFake
<1>5. fakes' \in [Profile -> Nat]
      /\ \A p \in Profile : fakes'[p] <= fakes[p] \/ (p = cur /\ fakes'[p] = fakes[p] + 1)
  BY <1>1, <1>4 DEF ProfileInv
<1>6. \A p \in Profile : fakes'[p] <= faults' + 1
  BY <1>2, <1>3, <1>4, <1>5, CallsAssumption DEF ProfileInv
<1> QED
  BY <1>3, <1>4, <1>5, <1>6 DEF ProfileInv

LEMMA PutDiesKeeps ==
  ASSUME ProfileInv, PutDies
  PROVE  ProfileInv'
<1>1. faults \in 0 .. MaxFaults /\ Die
  BY DEF ProfileInv, PutDies
<1>2. faults' \in 0 .. MaxFaults /\ faults' = faults + 1
  BY <1>1, DieFacts
<1>3. \A p \in Profile : fakes[p] <= faults' + 1
  BY <1>1, <1>2, CallsAssumption DEF ProfileInv
<1> QED
  BY <1>2, <1>3 DEF ProfileInv, PutDies, portal

LEMMA PortalChangesKeeps ==
  ASSUME ProfileInv, NEW p \in Profile, PortalChanges(p)
  PROVE  ProfileInv'
<1>1. UNCHANGED <<fakes, ppc, listed, stale, cur, back, faults>> /\ changes < MaxChanges /\ changes' = changes + 1
  BY DEF PortalChanges
<1>2. changes' \in 0 .. MaxChanges
  BY <1>1, ProfileAssumption DEF ProfileInv
<1>3. CASE real' = [real EXCEPT ![p] = @ + 1] /\ UNCHANGED inRepo
  <2>1. real' \in [Profile -> Nat] /\ \A q \in Profile : real[q] <= real'[q] /\ real'[q] <= changes'
    BY <1>1, <1>3, ProfileAssumption DEF ProfileInv
  <2> QED
    BY <1>1, <1>2, <1>3, <2>1 DEF ProfileInv
<1>4. CASE inRepo' = SymDiff(inRepo, {p}) /\ UNCHANGED real
  <2>1. inRepo' \subseteq Profile
    BY <1>4 DEF SymDiff, ProfileInv
  <2>2. \A q \in Profile : real'[q] <= changes'
    BY <1>1, <1>4, ProfileAssumption DEF ProfileInv
  <2> QED
    BY <1>1, <1>2, <1>4, <2>1, <2>2 DEF ProfileInv
<1> QED
  BY <1>3, <1>4 DEF PortalChanges

LEMMA ProfileKeeps ==
  ASSUME ProfileInv, ProfileNext
  PROVE  ProfileInv'
<1>1. CASE PutProfileLaunch
  BY <1>1, PutProfileLaunchKeeps
<1>2. CASE ListFakes
  BY <1>2, ListFakesKeeps
<1>3. CASE NextStale
  BY <1>3, NextStaleKeeps
<1>4. CASE NextProfile
  BY <1>4, NextProfileKeeps
<1>5. CASE FindFake
  BY <1>5, FindFakeKeeps
<1>6. CASE DeleteFake
  BY <1>6, DeleteFakeKeeps
<1>7. CASE ImportFake
  BY <1>7, ImportFakeKeeps
<1>8. CASE AttributeFake
  BY <1>8, AttributeFakeKeeps
<1>9. CASE PutDies
  BY <1>9, PutDiesKeeps
<1>10. ASSUME NEW p \in Profile, PortalChanges(p)
       PROVE  ProfileInv'
  BY <1>10, PortalChangesKeeps
<1> QED
  BY <1>1, <1>2, <1>3, <1>4, <1>5, <1>6, <1>7, <1>8, <1>9, <1>10 DEF ProfileNext, ProfileStep

(* A step takes a profile's last launch only when it was stale.            *)
KeepsLaunch == \A p \in inRepo : real[p] + fakes[p] > 0 /\ back = "each" => real'[p] + fakes'[p] > 0
LEMMA LastLaunchStep ==
  ASSUME ProfileInv, ProfileNext
  PROVE  KeepsLaunch
<1> SUFFICES ASSUME NEW p \in inRepo, real[p] + fakes[p] > 0, back = "each"
             PROVE  real'[p] + fakes'[p] > 0
  BY DEF KeepsLaunch
<1>1. p \in Profile /\ real[p] \in Nat /\ fakes[p] \in Nat
  BY DEF ProfileInv
<1>2. CASE DeleteFake
  <2>1. PICK a \in Answer : fakes' = IF a = "error" THEN fakes ELSE [fakes EXCEPT ![cur] = @ - 1]
    BY <1>2 DEF DeleteFake
  <2>2. real' = real /\ ppc = "delete"
    BY <1>2 DEF DeleteFake
  <2>3. CASE p = cur
    <3>1. fakes'[p] = fakes[p] \/ fakes'[p] = fakes[p] - 1
      BY <1>1, <2>1, <2>3 DEF ProfileInv
    <3>2. real[p] + fakes[p] > 1
      BY <2>2, <2>3 DEF ProfileInv
    <3> QED
      BY <1>1, <2>2, <3>1, <3>2
  <2>4. CASE p # cur
    <3>1. fakes'[p] = fakes[p]
      BY <1>1, <2>1, <2>4 DEF ProfileInv
    <3> QED
      BY <2>2, <3>1
  <2> QED
    BY <2>3, <2>4
<1>3. CASE AttributeFake
  <2>1. PICK a \in Answer : fakes' = IF a = "error" THEN fakes ELSE [fakes EXCEPT ![cur] = @ + 1]
    BY <1>3 DEF AttributeFake
  <2>2. real' = real /\ cur \in Profile
    BY <1>3 DEF AttributeFake, ProfileInv
  <2>3. fakes'[p] = fakes[p] \/ fakes'[p] = fakes[p] + 1
    BY <1>1, <2>1, <2>2 DEF ProfileInv
  <2> QED
    BY <1>1, <2>2, <2>3
<1>4. ASSUME NEW q \in Profile, PortalChanges(q)
      PROVE  real'[p] + fakes'[p] > 0
  <2>1. fakes' = fakes /\ (real' = real \/ real' = [real EXCEPT ![q] = @ + 1])
    BY <1>4 DEF PortalChanges
  <2>2. real'[p] = real[p] \/ real'[p] = real[p] + 1
    BY <1>1, <2>1 DEF ProfileInv
  <2> QED
    BY <1>1, <2>1, <2>2
<1>5. CASE UNCHANGED <<real, fakes>>
  BY <1>5
<1>6. CASE PutProfileLaunch \/ ListFakes \/ NextStale \/ NextProfile \/ FindFake \/ ImportFake \/ PutDies
  <2>1. UNCHANGED <<real, fakes>>
    BY <1>6 DEF PutProfileLaunch, ListFakes, NextStale, NextProfile, FindFake, ImportFake, PutDies, portal
  <2> QED
    BY <1>5, <2>1
<1> QED
  BY <1>2, <1>3, <1>4, <1>6 DEF ProfileNext, ProfileStep

-----------------------------------------------------------------------------
(* The update.                                                             *)
Current == MatchingItems(Min(found))
Quiet == runs > 0 /\ others.now = 0 /\ ~told

UpdateTypes ==
  /\ UpdateTypeOK /\ page >= 1 /\ others \in [now : Nat, all : Nat]
  /\ upc # "idle" /\ page = 1 => pages = 1
  /\ upc = "items" => found # {}
  /\ toPass \subseteq Mine
ChosenInv == others.now = 0 => toPass \subseteq defect
LaunchesRead == /\ page > 1 => pages = Pages(MatchingLaunches)
                /\ Reached(MatchingLaunches, page, PageSize, found)
ItemsRead == /\ \A i \in Matching \cap Mine : LaunchOf[i] \in found
             /\ page > pages => Current \cap Mine \subseteq toPass
             /\ page <= pages => /\ page > 1 => pages = Pages(Current)
                                 /\ Reached(Current, page, PageSize, toPass \cup (UItem \ Mine))
CompleteInv == Quiet => /\ upc = "idle" => Matching \cap Mine = {}
                        /\ upc = "launches" => LaunchesRead
                        /\ upc = "items" => ItemsRead
UpdateInv == UpdateTypes /\ ChosenInv /\ CompleteInv

LEMMA MatchingFacts ==
         /\ Matching \subseteq UItem /\ Matching \subseteq Nat /\ IsFiniteSet(Matching)
         /\ MatchingLaunches \subseteq ULaunch /\ MatchingLaunches \subseteq Nat /\ IsFiniteSet(MatchingLaunches)
         /\ \A l : MatchingItems(l) \subseteq UItem /\ MatchingItems(l) \subseteq Nat /\ IsFiniteSet(MatchingItems(l))
<1>1. /\ UItem \subseteq Nat /\ ULaunch \subseteq Nat
      /\ Matching \subseteq UItem /\ MatchingLaunches \subseteq ULaunch /\ \A l : MatchingItems(l) \subseteq UItem
  BY UpdateAssumption DEF UItem, ULaunch, Matching, MatchingLaunches, MatchingItems
<1>2. IsFiniteSet(UItem) /\ IsFiniteSet(ULaunch)
  BY UpdateAssumption, FS_Interval DEF UItem, ULaunch
<1>3. IsFiniteSet(Matching) /\ IsFiniteSet(MatchingLaunches) /\ \A l : IsFiniteSet(MatchingItems(l))
  BY <1>1, <1>2, FS_Subset
<1> QED
  BY <1>1, <1>3

LEMMA PagesNat ==
  ASSUME NEW S, IsFiniteSet(S), NEW size \in Nat \ {0}
  PROVE  PagesOf(Cardinality(S), size) \in Nat
<1>1. Cardinality(S) \in Nat
  BY FS_CardinalityType
<1> QED
  BY <1>1 DEF PagesOf

LEMMA SameMatching ==
  ASSUME UNCHANGED <<result, defect>>
  PROVE  /\ Matching' = Matching /\ MatchingLaunches' = MatchingLaunches
         /\ \A l : MatchingItems(l)' = MatchingItems(l)
  BY DEF Matching, MatchingLaunches, MatchingItems

LEMMA UpdateStart == Init => UpdateInv
<1> SUFFICES ASSUME Init
             PROVE  UpdateInv
  OBVIOUS
<1>1. UpdateInit
  BY DEF Init
<1>2. UpdateTypes
  <2>1. told \in BOOLEAN
    BY <1>1, Zenon DEF UpdateInit
  <2>2. result \in [UItem -> {"FAILED", "passed"}] /\ others \in [now : Nat, all : Nat] /\ others.all \in 0 .. MaxOthers
    BY <1>1, UpdateAssumption DEF UpdateInit
  <2> QED
    BY <1>1, <2>1, <2>2, UpdateAssumption DEF UpdateInit, UpdateTypes, UpdateTypeOK
<1>3. ChosenInv /\ CompleteInv
  BY <1>1 DEF UpdateInit, ChosenInv, CompleteInv, Quiet
<1> QED
  BY <1>2, <1>3 DEF UpdateInv

LEMMA UpdateAside ==
  ASSUME UpdateInv, UNCHANGED uvars
  PROVE  UpdateInv'
<1>1. UNCHANGED <<result, defect, upc, page, pages, found, toPass, runs, told, others>>
  BY DEF uvars
<1>2. Matching' = Matching /\ MatchingLaunches' = MatchingLaunches /\ Current' = Current
  BY <1>1, SameMatching DEF Current, MatchingItems
<1>3. UpdateTypes'
  BY <1>1 DEF UpdateInv, UpdateTypes, UpdateTypeOK
<1>4. ChosenInv'
  BY <1>1 DEF UpdateInv, ChosenInv
<1>5. LaunchesRead' = LaunchesRead /\ ItemsRead' = ItemsRead
  BY <1>1, <1>2 DEF LaunchesRead, ItemsRead, Reached, Pages
<1>6. CompleteInv'
  BY <1>1, <1>2, <1>5 DEF UpdateInv, CompleteInv, Quiet
<1> QED
  BY <1>3, <1>4, <1>6 DEF UpdateInv

LEMMA ChangeToSuccessKeeps ==
  ASSUME UpdateInv, ChangeToSuccess
  PROVE  UpdateInv'
<1>1. /\ runs < MaxRuns /\ runs' = runs + 1 /\ upc' = "launches"
      /\ page' = 1 /\ pages' = 1 /\ found' = {} /\ toPass' = {} /\ told' = FALSE
      /\ others' = [others EXCEPT !.now = 0] /\ UNCHANGED <<result, defect>>
  BY DEF ChangeToSuccess
<1>2. UpdateTypes
  BY DEF UpdateInv
<1>3. others' \in [now : Nat, all : Nat] /\ others'.all \in 0 .. MaxOthers
  BY <1>1, <1>2 DEF UpdateTypes, UpdateTypeOK
<1>4. UpdateTypes'
  <2>1. told' \in BOOLEAN
    BY <1>1, Zenon
  <2> QED
    BY <1>1, <1>2, <1>3, <2>1, UpdateAssumption DEF UpdateTypes, UpdateTypeOK
<1>5. ChosenInv'
  BY <1>1 DEF ChosenInv
<1>6. LaunchesRead'
  <2>1. MatchingLaunches' = MatchingLaunches
    BY <1>1, SameMatching
  <2>2. Reached(MatchingLaunches, 1, PageSize, found')
    BY MatchingFacts, NoneReached, UpdateAssumption
  <2> QED
    BY <1>1, <2>1, <2>2 DEF LaunchesRead, Reached
<1>7. CompleteInv'
  BY <1>1, <1>6 DEF CompleteInv
<1> QED
  BY <1>4, <1>5, <1>7 DEF UpdateInv

LEMMA GetLaunchesKeeps ==
  ASSUME UpdateInv, GetLaunches
  PROVE  UpdateInv'
<1>1. PICK a \in ReadAnswer :
        /\ page' = page + 1
        /\ told' = (told \/ a # "ok")
        /\ found' = IF a = "ok" THEN found \cup Page(MatchingLaunches, page) ELSE found
        /\ pages' = IF a = "ok" /\ page = 1 THEN Pages(MatchingLaunches) ELSE pages
  BY DEF GetLaunches
<1>2. upc = "launches" /\ page <= pages /\ UNCHANGED <<result, defect, upc, toPass, runs, others>>
  BY DEF GetLaunches
<1>3. UpdateTypes /\ page \in Nat \ {0} /\ pages \in Nat
  BY DEF UpdateInv, UpdateTypes, UpdateTypeOK
<1>4. Pages(MatchingLaunches) \in Nat
  BY MatchingFacts, PagesNat, UpdateAssumption DEF Pages
<1>5. Page(MatchingLaunches, page) \subseteq ULaunch
  BY MatchingFacts DEF Page, PageAt
<1>6. UpdateTypes'
  <2>1. found' \subseteq ULaunch
    BY <1>1, <1>3, <1>5 DEF UpdateTypes, UpdateTypeOK
  <2>2. page' \in Nat /\ page' > 1 /\ pages' \in Nat
    BY <1>1, <1>3, <1>4
  <2>3. told' \in BOOLEAN
    BY <1>1, <1>3, Zenon DEF UpdateTypes, UpdateTypeOK
  <2> QED
    BY <1>2, <1>3, <2>1, <2>2, <2>3 DEF UpdateTypes, UpdateTypeOK
<1>7. ChosenInv'
  BY <1>2 DEF UpdateInv, ChosenInv
<1>8. ASSUME Quiet'
      PROVE  LaunchesRead'
  <2>1. a = "ok" /\ Quiet
    BY <1>1, <1>2, <1>8 DEF Quiet
  <2>2. LaunchesRead
    BY <1>2, <2>1 DEF UpdateInv, CompleteInv
  <2>3. pages' = Pages(MatchingLaunches)
    BY <1>1, <1>3, <2>1, <2>2 DEF LaunchesRead
  <2>4. found \subseteq found' /\ PageAt(MatchingLaunches, page, PageSize) \subseteq found'
    BY <1>1, <2>1 DEF Page
  <2>5. Reached(MatchingLaunches, page + 1, PageSize, found')
    BY <1>3, <2>2, <2>4, MatchingFacts, PageReached, UpdateAssumption DEF LaunchesRead
  <2>6. MatchingLaunches' = MatchingLaunches
    BY <1>2, SameMatching
  <2> QED
    BY <1>1, <2>3, <2>5, <2>6 DEF LaunchesRead, Reached, Pages
<1>9. CompleteInv'
  BY <1>2, <1>8 DEF CompleteInv
<1> QED
  BY <1>6, <1>7, <1>9 DEF UpdateInv

LEMMA NextLaunchKeeps ==
  ASSUME UpdateInv, NextLaunch
  PROVE  UpdateInv'
<1>1. /\ page > pages /\ toPass = {} /\ upc \in {"launches", "items"}
      /\ found' = IF upc = "items" THEN found \ {Min(found)} ELSE found
      /\ upc' = IF found' = {} THEN "idle" ELSE "items"
      /\ page' = 1 /\ pages' = 1
      /\ UNCHANGED <<result, defect, toPass, runs, told, others>>
  BY DEF NextLaunch
<1>2. UpdateTypes /\ page \in Nat \ {0} /\ pages \in Nat
  BY DEF UpdateInv, UpdateTypes, UpdateTypeOK
<1>3. UpdateTypes'
  BY <1>1, <1>2 DEF UpdateTypes, UpdateTypeOK
<1>4. ChosenInv'
  BY <1>1 DEF UpdateInv, ChosenInv
<1>5. ASSUME Quiet
      PROVE  \A i \in Matching \cap Mine : LaunchOf[i] \in found'
  <2>1. CASE upc = "launches"
    <3>1. LaunchesRead
      BY <1>5, <2>1 DEF UpdateInv, CompleteInv
    <3>2. page > 1
      BY <1>1, <1>2, <2>1 DEF UpdateTypes
    <3>3. page > PagesOf(Cardinality(MatchingLaunches), PageSize)
      BY <1>1, <3>1, <3>2 DEF LaunchesRead, Pages
    <3>4. MatchingLaunches \subseteq found
      BY <1>2, <3>1, <3>3, MatchingFacts, AllReached, UpdateAssumption DEF LaunchesRead
    <3> QED
      BY <1>1, <2>1, <3>4 DEF MatchingLaunches
  <2>2. CASE upc = "items"
    <3>1. ItemsRead
      BY <1>5, <2>2 DEF UpdateInv, CompleteInv
    <3>2. Current \cap Mine = {}
      BY <1>1, <3>1 DEF ItemsRead
    <3>3. \A i \in Matching \cap Mine : LaunchOf[i] # Min(found)
      BY <3>2 DEF Current, MatchingItems
    <3> QED
      BY <1>1, <2>2, <3>1, <3>3 DEF ItemsRead
  <2> QED
    BY <1>1, <2>1, <2>2
<1>6. Matching' = Matching
  BY <1>1, SameMatching
<1>7. ASSUME Quiet
      PROVE  ItemsRead'
  <2>1. Reached(Current', 1, PageSize, toPass \cup (UItem \ Mine))
    <3>1. Current' \subseteq Nat /\ IsFiniteSet(Current')
      <4>1. Current' = MatchingItems(Min(found'))
        BY <1>1 DEF Current, MatchingItems, Matching
      <4> QED
        BY <4>1, MatchingFacts
    <3> HIDE DEF Current
    <3> QED
      BY <3>1, NoneReached, UpdateAssumption
  <2>2. Reached(Current, page, PageSize, toPass \cup (UItem \ Mine))'
    BY <1>1, <2>1 DEF Reached
  <2>3. \A i \in Matching' \cap Mine : LaunchOf[i] \in found'
    BY <1>5, <1>6, <1>7
  <2> QED
    BY <1>1, <2>2, <2>3 DEF ItemsRead
<1>8. CompleteInv'
  <2>1. Quiet' => Quiet
    BY <1>1 DEF Quiet
  <2>2. Quiet /\ upc' = "idle" => Matching' \cap Mine = {}
    BY <1>1, <1>5, <1>6
  <2> QED
    BY <1>1, <1>7, <2>1, <2>2 DEF CompleteInv
<1> QED
  BY <1>3, <1>4, <1>8 DEF UpdateInv

LEMMA GetItemsKeeps ==
  ASSUME UpdateInv, GetItems
  PROVE  UpdateInv'
<1>1. PICK a \in ReadAnswer :
        /\ page' = page + 1
        /\ told' = (told \/ a # "ok")
        /\ toPass' = IF a = "ok" THEN toPass \cup MineOn(Current, page) ELSE toPass
        /\ pages' = IF a = "ok" /\ page = 1 THEN Pages(Current) ELSE pages
  BY DEF GetItems, Current
<1>2. upc = "items" /\ page <= pages /\ UNCHANGED <<result, defect, upc, found, runs, others>>
  BY DEF GetItems
<1>3. UpdateTypes /\ page \in Nat \ {0} /\ pages \in Nat
  BY DEF UpdateInv, UpdateTypes, UpdateTypeOK
<1>4. Current \subseteq UItem /\ Current \subseteq Nat /\ IsFiniteSet(Current)
  BY MatchingFacts DEF Current
<1>5. Pages(Current) \in Nat
  BY <1>4, PagesNat, UpdateAssumption DEF Pages
<1>6. Page(Current, page) \subseteq Current /\ MineOn(Current, page) = Page(Current, page) \cap Mine
  BY DEF Page, PageAt, MineOn
<1>7. UpdateTypes'
  <2>1. toPass' \subseteq UItem /\ toPass' \subseteq Mine
    BY <1>1, <1>3, <1>4, <1>6 DEF UpdateTypes, UpdateTypeOK
  <2>2. page' \in Nat /\ page' > 1 /\ pages' \in Nat
    BY <1>1, <1>3, <1>5
  <2>3. told' \in BOOLEAN
    BY <1>1, <1>3, Zenon DEF UpdateTypes, UpdateTypeOK
  <2> QED
    BY <1>2, <1>3, <2>1, <2>2, <2>3 DEF UpdateTypes, UpdateTypeOK
<1>8. ChosenInv'
  <2>1. Current \subseteq defect
    BY DEF Current, MatchingItems, Matching
  <2> QED
    BY <1>1, <1>2, <1>6, <2>1 DEF UpdateInv, ChosenInv
<1>9. ASSUME Quiet'
      PROVE  ItemsRead'
  <2>1. a = "ok" /\ Quiet
    BY <1>1, <1>2, <1>9 DEF Quiet
  <2>2. ItemsRead
    BY <1>2, <2>1 DEF UpdateInv, CompleteInv
  <2>3. pages' = Pages(Current)
    BY <1>1, <1>2, <1>3, <2>1, <2>2 DEF ItemsRead
  <2> DEFINE got == toPass \cup (UItem \ Mine)
             new == toPass' \cup (UItem \ Mine)
  <2>4. got \subseteq new /\ PageAt(Current, page, PageSize) \subseteq new
    BY <1>1, <1>4, <1>6, <2>1 DEF Page
  <2>5. Reached(Current, page, PageSize, got)
    BY <1>2, <2>2 DEF ItemsRead
  <2>6. Matching' = Matching /\ Current' = Current
    BY <1>2, SameMatching DEF Current, MatchingItems
  <2>7. \A i \in Matching \cap Mine : LaunchOf[i] \in found
    BY <2>2 DEF ItemsRead
  <2>8. PageSize \in Nat \ {0}
    BY UpdateAssumption
  <2> HIDE DEF got, new, Current
  <2>9. Reached(Current, page + 1, PageSize, new)
    BY <1>3, <1>4, <2>4, <2>5, <2>8, PageReached
  <2>10. page' > pages' => Current \subseteq new
    <3>1. page + 1 \in Nat \ {0}
      BY <1>3
    <3> QED
      BY <1>1, <1>4, <2>3, <2>8, <2>9, <3>1, AllReached DEF Pages
  <2>11. page' > pages' => Current \cap Mine \subseteq toPass'
    BY <2>10 DEF new
  <2>12. Reached(Current, page, PageSize, toPass \cup (UItem \ Mine))'
    BY <1>1, <2>6, <2>9 DEF Reached, new
  <2>13. pages' = Pages(Current)'
    BY <2>3, <2>6 DEF Pages
  <2> QED
    BY <1>2, <2>6, <2>7, <2>11, <2>12, <2>13 DEF ItemsRead
<1>10. CompleteInv'
  BY <1>2, <1>9 DEF CompleteInv
<1> QED
  BY <1>7, <1>8, <1>10 DEF UpdateInv

LEMMA UpdateItemStatusKeeps ==
  ASSUME UpdateInv, UpdateItemStatus
  PROVE  UpdateInv'
<1>1. PICK a \in Answer, i \in toPass :
        /\ toPass' = toPass \ {i}
        /\ result' = IF a = "error" THEN result ELSE [result EXCEPT ![i] = NewStatus]
        /\ told' = (told \/ a # "ok")
  BY DEF UpdateItemStatus
<1>2. upc = "items" /\ page > pages /\ UNCHANGED <<defect, upc, page, pages, found, runs, others>>
  BY DEF UpdateItemStatus
<1>3. UpdateTypes
  BY DEF UpdateInv
<1>4. UpdateTypes'
  <2>1. told' \in BOOLEAN
    BY <1>1, <1>3, Zenon DEF UpdateTypes, UpdateTypeOK
  <2>2. result' \in [UItem -> {"FAILED", "passed"}]
    BY <1>1, <1>3 DEF UpdateTypes, UpdateTypeOK, NewStatus
  <2> QED
    BY <1>1, <1>2, <1>3, <2>1, <2>2 DEF UpdateTypes, UpdateTypeOK
<1>5. ChosenInv'
  BY <1>1, <1>2 DEF UpdateInv, ChosenInv
<1>6. ASSUME Quiet'
      PROVE  ItemsRead'
  <2>1. a = "ok" /\ Quiet
    BY <1>1, <1>2, <1>6 DEF Quiet
  <2>2. ItemsRead
    BY <1>2, <2>1 DEF UpdateInv, CompleteInv
  <2>3. i \in UItem /\ result \in [UItem -> {"FAILED", "passed"}]
    BY <1>3 DEF UpdateTypes, UpdateTypeOK
  <2>4. Matching' = Matching \ {i}
    BY <1>1, <1>2, <2>1, <2>3 DEF Matching, NewStatus
  <2>5. Current' = Current \ {i}
    BY <1>2, <2>4 DEF Current, MatchingItems
  <2>6. Current' \cap Mine \subseteq toPass'
    BY <1>1, <1>2, <2>2, <2>5 DEF ItemsRead
  <2>7. \A k \in Matching' \cap Mine : LaunchOf[k] \in found'
    BY <1>2, <2>2, <2>4 DEF ItemsRead
  <2>8. ~(page' <= pages')
    BY <1>2, <1>3 DEF UpdateTypes, UpdateTypeOK
  <2> QED
    BY <2>6, <2>7, <2>8 DEF ItemsRead
<1>7. CompleteInv'
  BY <1>2, <1>6 DEF CompleteInv
<1> QED
  BY <1>4, <1>5, <1>7 DEF UpdateInv

LEMMA OthersChangeKeeps ==
  ASSUME UpdateInv, NEW i \in UItem, OthersChange(i)
  PROVE  UpdateInv'
<1>1. /\ others.all < MaxOthers /\ others' = [now |-> others.now + 1, all |-> others.all + 1]
      /\ UNCHANGED <<upc, page, pages, found, toPass, told, runs>>
      /\ \/ defect' = defect \ {i} /\ result' = result
         \/ result' = [result EXCEPT ![i] = "passed"] /\ defect' = defect
  BY DEF OthersChange, reader
<1>2. UpdateTypes
  BY DEF UpdateInv
<1>3. /\ others'.now \in Nat \ {0} /\ others'.all \in 0 .. MaxOthers /\ others' \in [now : Nat, all : Nat]
  BY <1>1, <1>2, UpdateAssumption DEF UpdateTypes, UpdateTypeOK
<1>4. UpdateTypes'
  <2>1. result' \in [UItem -> {"FAILED", "passed"}] /\ defect' \subseteq UItem
    BY <1>1, <1>2 DEF UpdateTypes, UpdateTypeOK
  <2> QED
    BY <1>1, <1>2, <1>3, <2>1 DEF UpdateTypes, UpdateTypeOK
<1>5. ChosenInv' /\ CompleteInv'
  BY <1>3 DEF ChosenInv, CompleteInv, Quiet
<1> QED
  BY <1>4, <1>5 DEF UpdateInv

LEMMA UpdateDiesKeeps ==
  ASSUME UpdateInv, UpdateDies
  PROVE  UpdateInv'
<1>1. /\ upc' = "idle" /\ told' = TRUE /\ found' = {} /\ toPass' = {}
      /\ UNCHANGED <<result, defect, page, pages, runs, others>>
  BY DEF UpdateDies
<1>2. told' \in BOOLEAN
  BY <1>1, Zenon
<1>3. UpdateTypes'
  BY <1>1, <1>2 DEF UpdateInv, UpdateTypes, UpdateTypeOK
<1>4. ChosenInv' /\ CompleteInv'
  BY <1>1 DEF ChosenInv, CompleteInv, Quiet
<1> QED
  BY <1>3, <1>4 DEF UpdateInv

LEMMA UpdateKeeps ==
  ASSUME UpdateInv, UpdateNext
  PROVE  UpdateInv'
<1>1. CASE ChangeToSuccess
  BY <1>1, ChangeToSuccessKeeps
<1>2. CASE GetLaunches
  BY <1>2, GetLaunchesKeeps
<1>3. CASE NextLaunch
  BY <1>3, NextLaunchKeeps
<1>4. CASE GetItems
  BY <1>4, GetItemsKeeps
<1>5. CASE UpdateItemStatus
  BY <1>5, UpdateItemStatusKeeps
<1>6. CASE UpdateDies
  BY <1>6, UpdateDiesKeeps
<1>7. ASSUME NEW i \in UItem, OthersChange(i)
      PROVE  UpdateInv'
  BY <1>7, OthersChangeKeeps
<1> QED
  BY <1>1, <1>2, <1>3, <1>4, <1>5, <1>6, <1>7 DEF UpdateNext

LEMMA UpdateFaults ==
  ASSUME faults \in 0 .. MaxFaults, UpdateNext
  PROVE  faults' \in 0 .. MaxFaults /\ faults <= faults'
<1>1. CASE GetLaunches \/ GetItems \/ UpdateItemStatus
  <2>1. PICK a \in Answer : Count(a)
    BY <1>1 DEF GetLaunches, GetItems, UpdateItemStatus, ReadAnswer
  <2> QED
    BY <2>1, CountFacts, CallsAssumption
<1>2. CASE UpdateDies
  BY <1>2, DieFacts, CallsAssumption DEF UpdateDies
<1>3. CASE ChangeToSuccess \/ NextLaunch \/ \E i \in UItem : OthersChange(i)
  BY <1>3, CallsAssumption DEF ChangeToSuccess, NextLaunch, OthersChange
<1> QED
  BY <1>1, <1>2, <1>3 DEF UpdateNext

(* What is passed is the author's, and of the type unless others changed.  *)
PassesChosen == UpdateItemStatus => \A i \in UItem : result'[i] # result[i] =>
                  i \in Mine /\ (i \in defect \/ others.now > 0)
LEMMA ChosenStep ==
  ASSUME UpdateInv
  PROVE  PassesChosen
<1> SUFFICES ASSUME UpdateItemStatus, NEW k \in UItem, result'[k] # result[k]
             PROVE  k \in Mine /\ (k \in defect \/ others.now > 0)
  BY DEF PassesChosen
<1>1. PICK a \in Answer, i \in toPass : result' = IF a = "error" THEN result ELSE [result EXCEPT ![i] = NewStatus]
  BY DEF UpdateItemStatus
<1>2. UpdateTypes /\ ChosenInv /\ others.now \in Nat
  BY DEF UpdateInv, UpdateTypes
<1>3. k = i
  BY <1>1, <1>2 DEF UpdateTypes, UpdateTypeOK
<1> QED
  BY <1>2, <1>3 DEF UpdateTypes, ChosenInv

-----------------------------------------------------------------------------
(* Sums.                                                                   *)

(* The loop over a list of numbers can be run, and its sum is a number.    *)
LEMMA TotalNat ==
  ASSUME NEW s \in Seq(Nat), NEW S
  PROVE  Total(s, S) \in Nat
<1> DEFINE L == Len(s)
           Step(acc, n) == IF n \in S THEN acc + s[n] ELSE acc
<1>1. L \in Nat /\ \A n \in 1 .. L : s[n] \in Nat
  OBVIOUS
<1>2. \A acc \in Nat, n \in 1 .. L : Step(acc, n) \in Nat
  BY <1>1
<1>3. PICK step \in [Nat \X (1 .. L) -> Nat] : \A acc \in Nat, n \in 1 .. L : step[<<acc, n>>] = Step(acc, n)
  <2> DEFINE f == [x \in Nat \X (1 .. L) |-> Step(x[1], x[2])]
  <2> HIDE DEF Step, L
  <2>1. f \in [Nat \X (1 .. L) -> Nat] /\ \A acc \in Nat, n \in 1 .. L : f[<<acc, n>>] = Step(acc, n)
    BY <1>2
  <2> HIDE DEF f
  <2> QED
    BY <2>1
<1>4. SumUpTo(s, S) = CHOOSE h : h = [n \in 0 .. L |-> IF n = 0 THEN 0 ELSE Step(h[n - 1], n)]
  BY DEF SumUpTo
<1> HIDE DEF Step, L
<1>5. PICK g \in [0 .. L -> Nat] : g[0] = 0 /\ \A n \in 1 .. L : g[n] = step[<<g[n - 1], n>>]
  <2>1. \E g : Loop(g, L, Nat, 0, step)
    BY <1>1, LoopExists
  <2> QED
    BY <2>1 DEF Loop
<1>6. g = [n \in 0 .. L |-> IF n = 0 THEN 0 ELSE Step(g[n - 1], n)]
  <2>1. g = [n \in 0 .. L |-> g[n]]
    OBVIOUS
  <2>2. \A n \in 0 .. L : g[n] = IF n = 0 THEN 0 ELSE Step(g[n - 1], n)
    <3> SUFFICES ASSUME NEW n \in 0 .. L, n # 0
                 PROVE  g[n] = Step(g[n - 1], n)
      BY <1>5
    <3>1. n \in 1 .. L /\ n - 1 \in 0 .. L
      BY <1>1
    <3> QED
      BY <1>3, <1>5, <3>1
  <2> QED
    BY <2>1, <2>2
<1>7. SumUpTo(s, S) = [n \in 0 .. L |-> IF n = 0 THEN 0 ELSE Step(SumUpTo(s, S)[n - 1], n)]
  BY <1>4, <1>6
<1> DEFINE U(n) == SumUpTo(s, S)[n]
           Good == {n \in 0 .. L : U(n) \in Nat}
<1>8. \A n \in 0 .. L : U(n) = IF n = 0 THEN 0 ELSE Step(U(n - 1), n)
  BY <1>7
<1> HIDE DEF U
<1>9. 0 \in Good
  BY <1>1, <1>8
<1>10. \A n \in 0 .. L - 1 : n \in Good => n + 1 \in Good
  <2> SUFFICES ASSUME NEW n \in 0 .. L - 1, U(n) \in Nat
               PROVE  n + 1 \in 0 .. L /\ U(n + 1) \in Nat
    OBVIOUS
  <2>1. n + 1 \in 1 .. L /\ n + 1 \in 0 .. L /\ n + 1 - 1 = n /\ n + 1 # 0
    BY <1>1
  <2>2. U(n + 1) = Step(U(n), n + 1)
    BY <1>8, <2>1
  <2> QED
    BY <1>2, <2>1, <2>2
<1>11. \A n \in 0 .. L : n \in Good
  <2> HIDE DEF Good
  <2> QED
    BY <1>1, <1>9, <1>10, Induction
<1>12. L \in 0 .. L
  BY <1>1
<1>13. U(L) \in Nat
  BY <1>11, <1>12
<1> QED
  BY <1>13 DEF Total, U, L

(* A whole number cut off from the exact rate.                             *)
LEMMA CutRate ==
  ASSUME NEW p \in Nat, NEW n \in Nat \ {0}, p <= n
  PROVE  LET r == (100 * p) \div n
         IN /\ r \in 0 .. 100 /\ r * n <= 100 * p /\ 100 * p <= (r + 1) * n
            /\ p > 0 /\ (100 * p) % n = 0 => r >= 1 /\ r * n = 100 * p
<1> DEFINE r == (100 * p) \div n
           m == (100 * p) % n
<1>1. r \in Int /\ m \in 0 .. n - 1 /\ 100 * p = n * r + m
  BY Z3
<1> HIDE DEF r, m
<1>2. n * r = r * n /\ (r + 1) * n = r * n + n /\ r * n \in Int
  BY <1>1, Z3
<1>3. r * n <= 100 * p /\ 100 * p < (r + 1) * n
  BY <1>1, <1>2
<1>4. r >= 0
  <2> SUFFICES ASSUME r + 1 <= 0
               PROVE  FALSE
    BY <1>1
  <2>1. (r + 1) * n <= 0
    BY <1>1, Z3
  <2> QED
    BY <1>1, <1>2, <1>3, <2>1
<1>5. r <= 100
  <2> SUFFICES ASSUME r >= 101
               PROVE  FALSE
    BY <1>1
  <2>1. r * n >= 101 * n
    BY <1>1, Z3
  <2> QED
    BY <1>2, <1>3, <2>1
<1>6. ASSUME p > 0, m = 0
      PROVE  r >= 1 /\ r * n = 100 * p
  <2>1. r * n = 100 * p
    BY <1>1, <1>2, <1>6
  <2>2. r # 0
    BY <1>6, <2>1
  <2> QED
    BY <1>1, <1>4, <2>1, <2>2
<1> QED
  BY <1>1, <1>3, <1>4, <1>5, <1>6, <1>2 DEF r, m

-----------------------------------------------------------------------------
(* The rates.                                                              *)
RateTypes ==
  /\ RateTypeOK /\ rpage \in Nat \ {0} /\ rpages \in Nat /\ whole \in BOOLEAN
  /\ launches \subseteq Launches
  /\ rpc \in {"launches", "suites"} /\ rpage = 1 => rpages = 1
  /\ rpc = "suites" => launches # {}
  /\ \A s \in DOMAIN rpstat : rpstat[s] \in [RTeam -> Minus1 .. 100]
  /\ complete \subseteq DOMAIN rpstat
RLaunchesRead == /\ rpage > 1 => rpages = PagesOf(Cardinality(Launches), RPageSize)
                 /\ Reached(Launches, rpage, RPageSize, launches)
SuitesRead == LET own == SuitesIn(Min(launches))
              IN /\ \A i \in DOMAIN Suites : Suites[i].launch \in launches \/ i \in read
                 /\ rpage > 1 => rpages = PagesOf(Cardinality(own), RPageSize)
                 /\ Reached(own, rpage, RPageSize, read)
WholeInv == whole => /\ rpc = "launches" => RLaunchesRead
                     /\ rpc = "suites" => SuitesRead
                     /\ rpc \in {"write", "truncated"} => read = DOMAIN Suites
RateInv == RateTypes /\ WholeInv /\ RatesExact

(* The launches of the suites of a slot, and the suites.                   *)
LEMMA LaunchesIn ==
  ASSUME NEW s \in Slot
  PROVE  LET all == SuitesOf[s]
         IN /\ all \in Seq(Suite) /\ Len(all) \in Nat /\ DOMAIN all = 1 .. Len(all)
            /\ IsFiniteSet(DOMAIN all) /\ DOMAIN all \subseteq Nat
            /\ \A i \in DOMAIN all : all[i] \in Suite
            /\ {all[i].launch : i \in DOMAIN all} \subseteq Nat /\ IsFiniteSet({all[i].launch : i \in DOMAIN all})
<1> DEFINE all == SuitesOf[s]
           in == {all[i].launch : i \in DOMAIN all}
<1>1. all \in Seq(Suite)
  BY PassRateAssumption
<1> HIDE DEF all
<1>2. Len(all) \in Nat /\ DOMAIN all = 1 .. Len(all) /\ \A i \in DOMAIN all : all[i] \in Suite
  BY <1>1
<1>3. IsFiniteSet(DOMAIN all) /\ DOMAIN all \subseteq Nat
  BY <1>2, FS_Interval
<1>4. in \subseteq Nat
  BY <1>2, PassRateAssumption
<1>5. IsFiniteSet(in)
  <2> DEFINE f == [i \in DOMAIN all |-> all[i].launch]
  <2>1. f \in Surjection(DOMAIN all, in)
    BY DEF Surjection
  <2> HIDE DEF f, in
  <2> QED
    BY <1>3, <2>1, FS_Surjection
<1> QED
  BY <1>1, <1>2, <1>3, <1>4, <1>5 DEF all

LEMMA SuitesFacts ==
  ASSUME slot \in Slot
  PROVE  /\ Suites \in Seq(Suite) /\ Len(Suites) \in Nat /\ DOMAIN Suites = 1 .. Len(Suites)
         /\ \A i \in DOMAIN Suites : Suites[i] \in Suite
         /\ Launches \subseteq Nat /\ IsFiniteSet(Launches)
         /\ \A l : SuitesIn(l) \subseteq DOMAIN Suites /\ SuitesIn(l) \subseteq Nat /\ IsFiniteSet(SuitesIn(l))
<1>1. /\ Suites \in Seq(Suite) /\ Len(Suites) \in Nat /\ DOMAIN Suites = 1 .. Len(Suites)
      /\ IsFiniteSet(DOMAIN Suites) /\ DOMAIN Suites \subseteq Nat
      /\ \A i \in DOMAIN Suites : Suites[i] \in Suite
  BY LaunchesIn DEF Suites
<1>2. Launches \subseteq Nat /\ IsFiniteSet(Launches)
  BY LaunchesIn DEF Launches, Suites
<1>3. \A l : SuitesIn(l) \subseteq DOMAIN Suites
  BY DEF SuitesIn
<1>4. \A l : IsFiniteSet(SuitesIn(l))
  BY <1>1, <1>3, FS_Subset
<1> QED
  BY <1>1, <1>2, <1>3, <1>4

LEMMA SameSuites ==
  ASSUME slot' = slot
  PROVE  Suites' = Suites /\ Launches' = Launches /\ \A l : SuitesIn(l)' = SuitesIn(l)
  BY DEF Suites, Launches, SuitesIn

(* The rates of whole suites are exact.                                    *)
Exact(s, rates) ==
  \A t \in RTeam :
    LET mine == {i \in DOMAIN SuitesOf[s] : SuitesOf[s][i].team = t}
        p == Total([i \in DOMAIN SuitesOf[s] |-> SuitesOf[s][i].passed], mine)
        f == Total([i \in DOMAIN SuitesOf[s] |-> SuitesOf[s][i].failed], mine)
    IN /\ t \in DOMAIN rates
       /\ p + f = 0 <=> rates[t] = Minus1
       /\ p + f > 0 => /\ rates[t] * (p + f) <= 100 * p
                       /\ (rates[t] + 1) * (p + f) >= 100 * p

LEMMA ExactIs == RatesExact <=> \A s \in complete : s \in DOMAIN rpstat /\ Exact(s, rpstat[s])
  BY DEF RatesExact, Exact

LEMMA SumsNat ==
  ASSUME slot \in Slot, NEW S, NEW t
  PROVE  Passed(S, t) \in Nat /\ Failed(S, t) \in Nat
<1> DEFINE ps == [i \in DOMAIN Suites |-> Suites[i].passed]
           fs == [i \in DOMAIN Suites |-> Suites[i].failed]
<1>1. \A i \in DOMAIN Suites : Suites[i].passed \in Nat /\ Suites[i].failed \in Nat
  BY SuitesFacts, PassRateAssumption
<1>2. ps \in [1 .. Len(Suites) -> Nat] /\ fs \in [1 .. Len(Suites) -> Nat] /\ Len(Suites) \in Nat
  BY <1>1, SuitesFacts
<1> HIDE DEF ps, fs
<1>3. ps \in Seq(Nat) /\ fs \in Seq(Nat)
  BY <1>2
<1>4. Total(ps, {i \in S : Suites[i].team = t}) \in Nat /\ Total(fs, {i \in S : Suites[i].team = t}) \in Nat
  BY <1>3, TotalNat
<1> QED
  BY <1>4 DEF Passed, Failed, ps, fs

(* The rates of any suites read are between -1 and 100, and never above    *)
(* the exact rate nor a whole number below it.                             *)
LEMMA RatesFacts ==
  ASSUME slot \in Slot, NEW S, NEW short \in SUBSET Inexact(S), NEW t \in RTeam
  PROVE  /\ Rates(S, short)[t] \in Minus1 .. 100
         /\ All(S, t) = 0 <=> Rates(S, short)[t] = Minus1
         /\ All(S, t) > 0 => /\ Rates(S, short)[t] * All(S, t) <= 100 * Passed(S, t)
                            /\ (Rates(S, short)[t] + 1) * All(S, t) >= 100 * Passed(S, t)
<1> DEFINE p == Passed(S, t)
           n == All(S, t)
           r == (100 * p) \div n
           v == Rates(S, short)[t]
<1>1. p \in Nat /\ n \in Nat /\ p <= n
  BY SumsNat DEF All
<1>2. v = IF t \notin Ran(S) THEN Minus1 ELSE r - (IF t \in short THEN 1 ELSE 0)
  BY DEF Rates, Rate
<1>3. t \in Ran(S) <=> n > 0
  BY DEF Ran
<1>4. t \in short => p > 0 /\ (100 * p) % n = 0
  BY DEF Inexact
<1> HIDE DEF p, n, v
<1>5. CASE n = 0
  BY <1>1, <1>2, <1>3, <1>5 DEF Minus1, p, n, v
<1>6. CASE n > 0
  <2>1. /\ r \in 0 .. 100 /\ r * n <= 100 * p /\ 100 * p <= (r + 1) * n
        /\ p > 0 /\ (100 * p) % n = 0 => r >= 1 /\ r * n = 100 * p
    BY <1>1, <1>6, CutRate
  <2> HIDE DEF r
  <2>2. CASE t \in short
    <3>1. v = r - 1 /\ r >= 1 /\ r * n = 100 * p
      BY <1>2, <1>3, <1>4, <1>6, <2>1, <2>2
    <3>2. v \in 0 .. 100 /\ v + 1 = r
      BY <2>1, <3>1
    <3>3. v * n <= r * n
      BY <1>1, <2>1, <3>1, Z3
    <3>4. v * n <= 100 * p /\ (v + 1) * n >= 100 * p
      <4>1. (v + 1) * n = 100 * p
        BY <3>1, <3>2
      <4>2. 100 * p \in Nat /\ v * n \in Int
        BY <1>1, <3>2
      <4> QED
        BY <3>1, <3>3, <4>1, <4>2
    <3>5. n # 0 /\ v # Minus1
      BY <1>6, <3>2 DEF Minus1
    <3>6. v \in Minus1 .. 100
      BY <3>2 DEF Minus1
    <3> QED
      BY <3>4, <3>5, <3>6 DEF p, n, v
  <2>3. CASE t \notin short
    <3>1. v = r
      BY <1>2, <1>3, <1>6, <2>1, <2>3
    <3> QED
      BY <1>6, <2>1, <3>1 DEF Minus1, p, n, v
  <2> QED
    BY <2>2, <2>3
<1> QED
  BY <1>1, <1>5, <1>6

LEMMA RateStart == Init => RateInv
<1> SUFFICES ASSUME Init
             PROVE  RateInv
  OBVIOUS
<1>1. RateInit
  BY DEF Init
<1>2. whole \in BOOLEAN
  BY <1>1, Zenon DEF RateInit
<1>3. DOMAIN rpstat = {}
  BY <1>1 DEF RateInit
<1>4. RateTypeOK
  BY <1>1, <1>3, PassRateAssumption DEF RateInit, RateTypeOK
<1>5. RateTypes
  BY <1>1, <1>2, <1>3, <1>4 DEF RateInit, RateTypes
<1>6. WholeInv
  BY <1>1 DEF RateInit, WholeInv
<1>7. RatesExact
  BY <1>1 DEF RateInit, RatesExact
<1> QED
  BY <1>5, <1>6, <1>7 DEF RateInv

(* What a step that leaves the file alone keeps of it.                     *)
LEMMA FileAside ==
  ASSUME RateInv, UNCHANGED <<rpstat, complete>>
  PROVE  /\ complete' \subseteq Slot /\ complete' \subseteq DOMAIN rpstat'
         /\ \A s \in DOMAIN rpstat' : s \in Slot /\ rpstat'[s] \in [RTeam -> Minus1 .. 100]
         /\ \A s \in DOMAIN rpstat' : \A t \in DOMAIN rpstat'[s] : rpstat'[s][t] \in Minus1 .. 100
         /\ RatesExact'
<1>1. RatesExact'
  BY DEF RateInv, RatesExact
<1> QED
  BY <1>1 DEF RateInv, RateTypes, RateTypeOK

LEMMA RateAside ==
  ASSUME RateInv, UNCHANGED rvars
  PROVE  RateInv'
<1>1. UNCHANGED <<rpc, slot, rpage, rpages, launches, read, whole, rpstat, broken, complete, gets>>
  BY DEF rvars
<1>2. Suites' = Suites /\ Launches' = Launches /\ \A l : SuitesIn(l)' = SuitesIn(l)
  BY <1>1, SameSuites
<1>3. SuitesIn(Min(launches))' = SuitesIn(Min(launches))
  BY <1>1 DEF SuitesIn, Suites
<1>4. RateTypes'
  BY <1>1, <1>2 DEF RateInv, RateTypes, RateTypeOK
<1>5. RLaunchesRead' = RLaunchesRead /\ SuitesRead' = SuitesRead
  BY <1>1, <1>2, <1>3 DEF RLaunchesRead, SuitesRead, Reached
<1>6. WholeInv'
  BY <1>1, <1>2, <1>5 DEF RateInv, WholeInv
<1> QED
  BY <1>1, <1>4, <1>6, FileAside DEF RateInv

LEMMA GetTestDataKeeps ==
  ASSUME RateInv, NEW s \in Slot, GetTestData(s)
  PROVE  RateInv'
<1>1. /\ gets < MaxGets /\ gets' = gets + 1 /\ slot' = s /\ rpc' = "launches"
      /\ rpage' = 1 /\ rpages' = 1 /\ launches' = {} /\ read' = {} /\ whole' = TRUE
      /\ UNCHANGED <<rpstat, complete>>
  BY DEF GetTestData
<1>2. RateTypes /\ gets \in 0 .. MaxGets
  BY DEF RateInv, RateTypes, RateTypeOK
<1>3. whole' \in BOOLEAN
  BY <1>1, Zenon
<1>4. RateTypes'
  BY <1>1, <1>2, <1>3, FileAside, PassRateAssumption DEF RateTypes, RateTypeOK
<1>5. RLaunchesRead'
  <2>1. Launches' = {SuitesOf[s][i].launch : i \in DOMAIN SuitesOf[s]}
    BY <1>1 DEF Launches, Suites
  <2>2. Launches' \subseteq Nat /\ IsFiniteSet(Launches')
    BY <2>1, LaunchesIn
  <2> HIDE DEF Launches
  <2>3. Reached(Launches', 1, RPageSize, launches')
    BY <2>2, NoneReached, PassRateAssumption
  <2> QED
    BY <1>1, <2>3 DEF RLaunchesRead, Reached
<1>6. WholeInv'
  BY <1>1, <1>5 DEF WholeInv
<1> QED
  BY <1>1, <1>4, <1>6, FileAside DEF RateInv

LEMMA RateLaunchesKeeps ==
  ASSUME RateInv, RateLaunches
  PROVE  RateInv'
<1>1. PICK a \in ReadAnswer :
        /\ whole' = (whole /\ a = "ok")
        /\ launches' = IF a = "ok" THEN launches \cup RPage(Launches) ELSE launches
        /\ rpages' = RPages(a, Launches)
  BY DEF RateLaunches
<1>2. /\ rpc = "launches" /\ rpage <= rpages /\ rpage' = rpage + 1
      /\ UNCHANGED <<rpc, slot, read, rpstat, broken, complete, gets>>
  BY DEF RateLaunches
<1>3. RateTypes /\ slot \in Slot /\ rpage \in Nat \ {0} /\ rpages \in Nat
  BY DEF RateInv, RateTypes, RateTypeOK
<1>4. Launches' = Launches /\ Suites' = Suites /\ Launches \subseteq Nat /\ IsFiniteSet(Launches)
  BY <1>2, <1>3, SameSuites, SuitesFacts
<1>5. RPage(Launches) = PageAt(Launches, rpage, RPageSize) /\ RPage(Launches) \subseteq Launches
  BY DEF RPage, PageAt
<1>6. rpage' \in Nat /\ rpage' > 1 /\ rpages' \in Nat
  <2>1. PagesOf(Cardinality(Launches), RPageSize) \in Nat
    BY <1>4, PagesNat, PassRateAssumption
  <2> QED
    BY <1>1, <1>2, <1>3, <2>1 DEF RPages
<1>7. RateTypes'
  <2>1. whole' \in BOOLEAN
    BY <1>1, <1>3, Zenon DEF RateTypes
  <2>2. launches' \subseteq Launches'
    BY <1>1, <1>3, <1>4, <1>5 DEF RateTypes
  <2> QED
    BY <1>2, <1>3, <1>4, <1>6, <2>1, <2>2, FileAside DEF RateTypes, RateTypeOK
<1>8. ASSUME whole'
      PROVE  RLaunchesRead'
  <2>1. a = "ok" /\ RLaunchesRead
    BY <1>1, <1>2, <1>8 DEF RateInv, WholeInv
  <2>2. rpages' = PagesOf(Cardinality(Launches), RPageSize)
    BY <1>1, <1>3, <2>1 DEF RPages, RLaunchesRead
  <2>3. launches \subseteq launches' /\ PageAt(Launches, rpage, RPageSize) \subseteq launches'
    BY <1>1, <1>5, <2>1
  <2>4. Reached(Launches, rpage + 1, RPageSize, launches')
    BY <1>3, <1>4, <2>1, <2>3, PageReached, PassRateAssumption DEF RLaunchesRead
  <2> QED
    BY <1>2, <1>4, <2>2, <2>4 DEF RLaunchesRead, Reached
<1>9. WholeInv'
  BY <1>2, <1>8 DEF WholeInv
<1> QED
  BY <1>2, <1>7, <1>9, FileAside DEF RateInv

LEMMA RateAdvanceKeeps ==
  ASSUME RateInv, RateAdvance
  PROVE  RateInv'
<1>1. /\ rpc \in {"launches", "suites"} /\ rpage > rpages
      /\ launches' = IF rpc = "suites" THEN launches \ {Min(launches)} ELSE launches
      /\ rpc' = IF launches' # {} THEN "suites" ELSE IF rpc = "launches" THEN "idle" ELSE "write"
      /\ rpage' = 1 /\ rpages' = 1
      /\ UNCHANGED <<slot, read, whole, rpstat, broken, complete, gets>>
  BY DEF RateAdvance
<1>2. RateTypes /\ slot \in Slot /\ rpage \in Nat \ {0} /\ rpages \in Nat
  BY DEF RateInv, RateTypes, RateTypeOK
<1>3. Launches' = Launches /\ Suites' = Suites /\ Launches \subseteq Nat /\ IsFiniteSet(Launches)
  BY <1>1, <1>2, SameSuites, SuitesFacts
<1>4. RateTypes'
  <2>1. launches' \subseteq Launches'
    BY <1>1, <1>2, <1>3 DEF RateTypes
  <2>2. rpc' \in {"idle", "suites", "write"} /\ (rpc' = "suites" => launches' # {})
    BY <1>1
  <2>3. whole' \in BOOLEAN
    BY <1>1, <1>2, Zenon DEF RateTypes
  <2> QED
    BY <1>1, <1>2, <1>3, <2>1, <2>2, <2>3, FileAside DEF RateTypes, RateTypeOK
<1>5. ASSUME whole
      PROVE  \A i \in DOMAIN Suites : Suites[i].launch \in launches' \/ i \in read
  <2>1. rpage > 1
    BY <1>1, <1>2 DEF RateTypes
  <2>2. CASE rpc = "launches"
    <3>1. RLaunchesRead
      BY <1>5, <2>2 DEF RateInv, WholeInv
    <3>2. rpage > PagesOf(Cardinality(Launches), RPageSize)
      BY <1>1, <2>1, <3>1 DEF RLaunchesRead
    <3>3. Launches \subseteq launches
      BY <1>2, <1>3, <3>1, <3>2, AllReached, PassRateAssumption DEF RLaunchesRead
    <3> QED
      BY <1>1, <2>2, <3>3 DEF Launches
  <2>3. CASE rpc = "suites"
    <3> DEFINE own == SuitesIn(Min(launches))
    <3>1. SuitesRead
      BY <1>5, <2>3 DEF RateInv, WholeInv
    <3>2. /\ rpage > PagesOf(Cardinality(own), RPageSize) /\ Reached(own, rpage, RPageSize, read)
          /\ \A i \in DOMAIN Suites : Suites[i].launch \in launches \/ i \in read
      BY <1>1, <2>1, <3>1 DEF SuitesRead
    <3>3. own \subseteq Nat /\ IsFiniteSet(own)
      BY <1>2, SuitesFacts
    <3>4. \A i \in DOMAIN Suites : Suites[i].launch = Min(launches) => i \in own
      BY DEF SuitesIn
    <3> HIDE DEF own
    <3>5. own \subseteq read
      BY <1>2, <3>2, <3>3, AllReached, PassRateAssumption
    <3> QED
      BY <1>1, <2>3, <3>2, <3>4, <3>5
  <2> QED
    BY <1>1, <2>2, <2>3
<1>6. ASSUME whole
      PROVE  SuitesRead'
  <2> DEFINE own == SuitesIn(Min(launches'))
  <2>1. own \subseteq Nat /\ IsFiniteSet(own)
    BY <1>2, SuitesFacts
  <2>2. SuitesIn(Min(launches))' = own
    BY <1>3 DEF SuitesIn
  <2> HIDE DEF own
  <2>3. Reached(own, 1, RPageSize, read)
    BY <2>1, NoneReached, PassRateAssumption
  <2>4. Reached(SuitesIn(Min(launches)), rpage, RPageSize, read)'
    BY <1>1, <2>2, <2>3 DEF Reached
  <2>5. \A i \in DOMAIN Suites' : Suites'[i].launch \in launches' \/ i \in read'
    BY <1>1, <1>3, <1>5, <1>6
  <2>6. ~(rpage' > 1)
    BY <1>1
  <2> QED
    BY <2>4, <2>5, <2>6 DEF SuitesRead
<1>7. ASSUME whole, rpc' = "write"
      PROVE  read' = DOMAIN Suites'
  <2>1. launches' = {} /\ read \subseteq DOMAIN Suites
    BY <1>1, <1>2, <1>7 DEF RateTypes, RateTypeOK
  <2> QED
    BY <1>1, <1>3, <1>5, <1>7, <2>1
<1>8. WholeInv'
  BY <1>1, <1>6, <1>7 DEF WholeInv
<1> QED
  BY <1>1, <1>4, <1>8, FileAside DEF RateInv

LEMMA RateSuitesKeeps ==
  ASSUME RateInv, RateSuites
  PROVE  RateInv'
<1> DEFINE own == SuitesIn(Min(launches))
<1>1. PICK a \in ReadAnswer :
        /\ whole' = (whole /\ a = "ok")
        /\ read' = IF a = "ok" THEN read \cup RPage(own) ELSE read
        /\ rpages' = RPages(a, own)
  BY DEF RateSuites
<1>2. /\ rpc = "suites" /\ rpage <= rpages /\ rpage' = rpage + 1
      /\ UNCHANGED <<rpc, slot, launches, rpstat, broken, complete, gets>>
  BY DEF RateSuites
<1>3. RateTypes /\ slot \in Slot /\ rpage \in Nat \ {0} /\ rpages \in Nat
  BY DEF RateInv, RateTypes, RateTypeOK
<1>4. Launches' = Launches /\ Suites' = Suites /\ SuitesIn(Min(launches))' = own
  BY <1>2, SameSuites DEF SuitesIn
<1>5. own \subseteq DOMAIN Suites /\ own \subseteq Nat /\ IsFiniteSet(own)
  BY <1>3, SuitesFacts
<1>6. whole => SuitesRead
  BY <1>2 DEF RateInv, WholeInv
<1>7. SuitesRead <=> /\ \A i \in DOMAIN Suites : Suites[i].launch \in launches \/ i \in read
                     /\ rpage > 1 => rpages = PagesOf(Cardinality(own), RPageSize)
                     /\ Reached(own, rpage, RPageSize, read)
  BY DEF SuitesRead
<1>8. SuitesRead' <=> /\ \A i \in DOMAIN Suites' : Suites'[i].launch \in launches' \/ i \in read'
                      /\ rpage' > 1 => rpages' = PagesOf(Cardinality(own), RPageSize)
                      /\ \A x \in own : Rank(x, own) <= (rpage' - 1) * RPageSize => x \in read'
  BY <1>4 DEF SuitesRead, Reached
<1> HIDE DEF own
<1>9. RPage(own) = PageAt(own, rpage, RPageSize) /\ RPage(own) \subseteq own
  BY DEF RPage, PageAt
<1>10. rpage' \in Nat /\ rpage' > 1 /\ rpages' \in Nat
  <2>1. PagesOf(Cardinality(own), RPageSize) \in Nat
    BY <1>5, PagesNat, PassRateAssumption
  <2> QED
    BY <1>1, <1>2, <1>3, <2>1 DEF RPages
<1>11. RateTypes'
  <2>1. whole' \in BOOLEAN
    BY <1>1, <1>3, Zenon DEF RateTypes
  <2>2. read' \subseteq DOMAIN Suites'
    BY <1>1, <1>3, <1>4, <1>5, <1>9 DEF RateTypes, RateTypeOK
  <2> QED
    BY <1>2, <1>3, <1>4, <1>10, <2>1, <2>2, FileAside DEF RateTypes, RateTypeOK
<1>12. ASSUME whole'
       PROVE  SuitesRead'
  <2>1. a = "ok" /\ SuitesRead
    BY <1>1, <1>6, <1>12
  <2>2. rpages' = PagesOf(Cardinality(own), RPageSize)
    BY <1>1, <1>3, <1>7, <2>1 DEF RPages
  <2>3. read \subseteq read' /\ PageAt(own, rpage, RPageSize) \subseteq read'
    BY <1>1, <1>9, <2>1
  <2>4. Reached(own, rpage + 1, RPageSize, read')
    BY <1>3, <1>5, <1>7, <2>1, <2>3, PageReached, PassRateAssumption
  <2> QED
    BY <1>2, <1>4, <1>7, <1>8, <2>1, <2>2, <2>3, <2>4 DEF Reached
<1>13. WholeInv'
  BY <1>2, <1>12 DEF WholeInv
<1> QED
  BY <1>2, <1>11, <1>13, FileAside DEF RateInv

LEMMA TruncateKeeps ==
  ASSUME RateInv, Truncate
  PROVE  RateInv'
<1>1. /\ rpc = "write" /\ rpc' \in {"idle", "truncated"}
      /\ UNCHANGED <<slot, rpage, rpages, launches, read, whole, rpstat, complete, gets>>
  BY DEF Truncate, pager
<1>2. Launches' = Launches /\ Suites' = Suites
  BY <1>1, SameSuites
<1>3. RateTypes'
  BY <1>1, <1>2 DEF RateInv, RateTypes, RateTypeOK
<1>4. WholeInv'
  BY <1>1, <1>2 DEF RateInv, WholeInv
<1> QED
  BY <1>1, <1>3, <1>4, FileAside DEF RateInv

LEMMA DumpKeeps ==
  ASSUME RateInv, Dump
  PROVE  RateInv'
<1>1. PICK short \in SUBSET Inexact(read) : rpstat' = Merged(Rates(read, short))
  BY DEF Dump
<1>2. /\ rpc = "truncated" /\ rpc' = "idle"
      /\ complete' = IF whole THEN complete \cup {slot} ELSE complete \ {slot}
      /\ UNCHANGED <<slot, rpage, rpages, launches, read, whole, gets>>
  BY DEF Dump, pager
<1>3. RateTypes /\ slot \in Slot
  BY DEF RateInv, RateTypes, RateTypeOK
<1>4. Launches' = Launches /\ Suites' = Suites
  BY <1>2, SameSuites
<1> DEFINE rates == Rates(read, short)
<1>5. rates \in [RTeam -> Minus1 .. 100]
  <2>1. \A t \in RTeam : rates[t] \in Minus1 .. 100
    BY <1>3, RatesFacts
  <2>2. rates = [t \in RTeam |-> rates[t]]
    BY DEF Rates
  <2> HIDE DEF rates
  <2> QED
    BY <2>1, <2>2
<1>6. whole => Exact(slot, rates)
  <2> SUFFICES ASSUME whole
               PROVE  Exact(slot, rates)
    OBVIOUS
  <2>1. read = DOMAIN Suites
    BY <1>2 DEF RateInv, WholeInv
  <2>2. DOMAIN rates = RTeam
    BY <1>5
  <2> SUFFICES ASSUME NEW t \in RTeam
               PROVE  LET p == Passed(read, t)
                          f == Failed(read, t)
                      IN /\ p + f = 0 <=> rates[t] = Minus1
                         /\ p + f > 0 => /\ rates[t] * (p + f) <= 100 * p
                                         /\ (rates[t] + 1) * (p + f) >= 100 * p
    BY <2>1, <2>2 DEF Exact, Passed, Failed, Suites
  <2>3. /\ All(read, t) = 0 <=> rates[t] = Minus1
        /\ All(read, t) > 0 => /\ rates[t] * All(read, t) <= 100 * Passed(read, t)
                              /\ (rates[t] + 1) * All(read, t) >= 100 * Passed(read, t)
    BY <1>3, RatesFacts
  <2> HIDE DEF rates
  <2> QED
    BY <2>3 DEF All
<1> HIDE DEF rates
<1>7. DOMAIN rpstat' = {slot} \cup DOMAIN rpstat /\ rpstat'[slot] = rates
      /\ \A s \in DOMAIN rpstat : s # slot => rpstat'[s] = rpstat[s]
  BY <1>1 DEF Merged, rates
<1>8. \A s \in DOMAIN rpstat' : s \in Slot /\ rpstat'[s] \in [RTeam -> Minus1 .. 100]
  BY <1>3, <1>5, <1>7 DEF RateTypes, RateTypeOK
<1>9. complete' \subseteq DOMAIN rpstat' /\ complete' \subseteq Slot
  BY <1>2, <1>3, <1>7 DEF RateTypes, RateTypeOK
<1>10. RateTypes'
  <2>1. \A s \in DOMAIN rpstat' : \A t \in DOMAIN rpstat'[s] : rpstat'[s][t] \in Minus1 .. 100
    BY <1>8
  <2>2. RateTypeOK'
    BY <1>2, <1>3, <1>4, <1>8, <1>9, <2>1 DEF RateTypes, RateTypeOK
  <2> QED
    BY <1>2, <1>3, <1>4, <1>8, <1>9, <2>2 DEF RateTypes
<1>11. WholeInv'
  BY <1>2 DEF WholeInv
<1>12. RatesExact'
  <2> SUFFICES ASSUME NEW s \in complete'
               PROVE  Exact(s, rpstat'[s])
    BY <1>9 DEF RatesExact, Exact
  <2>1. CASE s = slot
    BY <1>2, <1>6, <1>7, <2>1
  <2>2. CASE s # slot
    <3>1. s \in complete /\ s \in DOMAIN rpstat
      BY <1>2, <1>3, <2>2 DEF RateTypes
    <3>2. Exact(s, rpstat[s])
      BY <3>1, ExactIs DEF RateInv
    <3> QED
      BY <1>7, <2>2, <3>1, <3>2
  <2> QED
    BY <2>1, <2>2
<1> QED
  BY <1>10, <1>11, <1>12 DEF RateInv

LEMMA RateDiesKeeps ==
  ASSUME RateInv, RateDies
  PROVE  RateInv'
<1>1. rpc' = "idle" /\ UNCHANGED <<slot, rpage, rpages, launches, read, whole, rpstat, complete, gets>>
  BY DEF RateDies, pager
<1>2. Launches' = Launches /\ Suites' = Suites
  BY <1>1, SameSuites
<1>3. RateTypes'
  BY <1>1, <1>2 DEF RateInv, RateTypes, RateTypeOK
<1>4. WholeInv'
  BY <1>1 DEF WholeInv
<1> QED
  BY <1>1, <1>3, <1>4, FileAside DEF RateInv

LEMMA RateKeeps ==
  ASSUME RateInv, RateNext
  PROVE  RateInv'
<1>1. ASSUME NEW s \in Slot, GetTestData(s)
      PROVE  RateInv'
  BY <1>1, GetTestDataKeeps
<1>2. CASE RateLaunches
  BY <1>2, RateLaunchesKeeps
<1>3. CASE RateAdvance
  BY <1>3, RateAdvanceKeeps
<1>4. CASE RateSuites
  BY <1>4, RateSuitesKeeps
<1>5. CASE Truncate
  BY <1>5, TruncateKeeps
<1>6. CASE Dump
  BY <1>6, DumpKeeps
<1>7. CASE RateDies
  BY <1>7, RateDiesKeeps
<1> QED
  BY <1>1, <1>2, <1>3, <1>4, <1>5, <1>6, <1>7 DEF RateNext

LEMMA RateFaults ==
  ASSUME faults \in 0 .. MaxFaults, RateNext
  PROVE  faults' \in 0 .. MaxFaults /\ faults <= faults'
<1>1. CASE RateLaunches \/ RateSuites
  <2>1. PICK a \in Answer : Count(a)
    BY <1>1 DEF RateLaunches, RateSuites, ReadAnswer
  <2> QED
    BY <2>1, CountFacts, CallsAssumption
<1>2. CASE RateDies
  BY <1>2, DieFacts, CallsAssumption DEF RateDies
<1>3. CASE RateAdvance \/ Truncate \/ Dump \/ \E s \in Slot : GetTestData(s)
  BY <1>3, CallsAssumption DEF RateAdvance, Truncate, Dump, GetTestData
<1> QED
  BY <1>1, <1>2, <1>3 DEF RateNext

(* A run that writes keeps the rates of every other slot.                  *)
KeepsOthers == \A s \in DOMAIN rpstat : s # slot => s \in DOMAIN rpstat' /\ rpstat'[s] = rpstat[s]
LEMMA OthersStep ==
  ASSUME RateNext
  PROVE  KeepsOthers
<1>1. CASE Dump
  BY <1>1 DEF Dump, Merged, KeepsOthers
<1>2. CASE UNCHANGED rpstat
  BY <1>2 DEF KeepsOthers
<1>3. CASE ~Dump
  <2>1. UNCHANGED rpstat
    BY <1>3 DEF RateNext, GetTestData, RateLaunches, RateAdvance, RateSuites, Truncate, RateDies
  <2> QED
    BY <1>2, <2>1
<1> QED
  BY <1>1, <1>3

LEMMA CurvesAgree == RateTypes => CurvesAligned
<1> SUFFICES ASSUME RateTypes, NEW t \in RTeam
             PROVE  {s \in DOMAIN rpstat : t \in DOMAIN rpstat[s]} = DOMAIN rpstat
  BY DEF CurvesAligned, Curve
<1> QED
  BY DEF RateTypes

-----------------------------------------------------------------------------
(* The tools together.                                                     *)
IInv == UpdateInv /\ RateInv /\ ProfileInv

LEMMA StepKeeps == IInv /\ [Next]_vars => IInv'
<1> SUFFICES ASSUME IInv, [Next]_vars
             PROVE  IInv'
  OBVIOUS
<1>1. faults \in 0 .. MaxFaults
  BY DEF IInv, ProfileInv
<1>2. CASE UpdateTool
  <2>1. UpdateNext /\ UNCHANGED rvars /\ UNCHANGED pvars
    BY <1>2 DEF UpdateTool
  <2> QED
    BY <1>1, <2>1, UpdateKeeps, UpdateFaults, RateAside, ProfileAside DEF IInv
<1>3. CASE RateTool
  <2>1. RateNext /\ UNCHANGED uvars /\ UNCHANGED pvars
    BY <1>3 DEF RateTool
  <2> QED
    BY <1>1, <2>1, RateKeeps, RateFaults, UpdateAside, ProfileAside DEF IInv
<1>4. CASE ProfileTool(ProfileNext)
  <2>1. ProfileNext /\ UNCHANGED uvars /\ UNCHANGED rvars
    BY <1>4 DEF ProfileTool
  <2> QED
    BY <2>1, ProfileKeeps, UpdateAside, RateAside DEF IInv
<1>5. CASE UNCHANGED vars
  <2>1. UNCHANGED uvars /\ UNCHANGED rvars /\ UNCHANGED pvars /\ faults' = faults
    BY <1>5 DEF vars
  <2>2. faults' \in 0 .. MaxFaults /\ faults <= faults'
    BY <1>1, <2>1, CallsAssumption
  <2> QED
    BY <2>1, <2>2, UpdateAside, RateAside, ProfileAside DEF IInv
<1> QED
  BY <1>2, <1>3, <1>4, <1>5 DEF Next

LEMMA Invariant == Spec => []IInv
<1>1. Init => IInv
  BY UpdateStart, RateStart, ProfileStart DEF IInv
<1>2. IInv /\ [Next]_vars => IInv'
  BY StepKeeps
<1> QED
  BY <1>1, <1>2, PTL DEF Spec

(* The variables of updateresultrp.py, passrate.py and putProfileLaunch    *)
(* have their types in every state: rates are between -1 and 100, and a    *)
(* profile has at most one fake launch more than calls failed.             *)
THEOREM TypeCorrect == Spec => []TypesOK
<1>1. IInv => TypesOK
  <2> SUFFICES ASSUME IInv
               PROVE  UpdateTypeOK /\ RateTypeOK /\ ProfileTypeOK
    BY DEF TypesOK
  <2>1. ProfileTypeOK
    <3>1. \A p \in Profile : real[p] \in 0 .. MaxChanges /\ fakes[p] \in 0 .. (MaxFaults + 1)
      BY CallsAssumption, ProfileAssumption DEF IInv, ProfileInv
    <3> QED
      BY <3>1 DEF IInv, ProfileInv, ProfileTypeOK
  <2> QED
    BY <2>1 DEF IInv, UpdateInv, UpdateTypes, RateInv, RateTypes
<1> QED
  BY <1>1, Invariant, PTL

(* A run of updateresultrp.py that prints no message has passed every item *)
(* of the author that matched, over all pages of all launches, unless      *)
(* others changed one meanwhile; and it passes no other item.              *)
THEOREM UpdatesExactly == Spec => UpdateExact
<1>1. IInv => LeftOutOnlyIfTold
  BY DEF IInv, UpdateInv, CompleteInv, Quiet, LeftOutOnlyIfTold
<1>2. IInv /\ [Next]_vars =>
        [UpdateItemStatus => \A i \in UItem : result'[i] # result[i] =>
           i \in Mine /\ (i \in defect \/ others.now > 0)]_uvars
  BY ChosenStep DEF IInv, PassesChosen
<1>3. Spec => OnlyChosen
  BY <1>2, Invariant, PTL DEF Spec, OnlyChosen
<1>4. Spec => []LeftOutOnlyIfTold
  BY <1>1, Invariant, PTL
<1> QED
  BY <1>3, <1>4 DEF UpdateExact

(* In the file of passrate.py a slot read without a failing page holds the *)
(* exact rate of every team over all its suites, cut to a whole number; no *)
(* run changes the rates of another slot; and each team has a rate for     *)
(* each slot, so that the curves keep step.                                *)
THEOREM RatesAreSound == Spec => RatesSound
<1>1. IInv => RatesExact /\ CurvesAligned
  BY CurvesAgree DEF IInv, RateInv
<1>2. IInv /\ [Next]_vars =>
        [\A s \in DOMAIN rpstat : s # slot => s \in DOMAIN rpstat' /\ rpstat'[s] = rpstat[s]]_rvars
  <2> SUFFICES ASSUME [Next]_vars, ~UNCHANGED rvars
               PROVE  KeepsOthers
    BY DEF KeepsOthers
  <2>1. RateNext
    BY DEF Next, UpdateTool, RateTool, ProfileTool, vars
  <2> QED
    BY <2>1, OthersStep
<1>3. Spec => OtherSlotsKept
  BY <1>2, Invariant, PTL DEF Spec, OtherSlotsKept
<1>4. Spec => [](RatesExact /\ CurvesAligned)
  BY <1>1, Invariant, PTL
<1> QED
  BY <1>3, <1>4 DEF RatesSound

(* putProfileLaunch never takes the last launch of a profile that it found *)
(* in the repository: whatever calls fail or lose their answers and        *)
(* whenever it dies, it deletes a fake launch only next to another one.    *)
THEOREM KeepsLastLaunch == Spec => LastLaunchKept
<1>1. IInv /\ [Next]_vars =>
        [\A p \in inRepo : real[p] + fakes[p] > 0 /\ back = "each" => real'[p] + fakes'[p] > 0]_pvars
  <2> SUFFICES ASSUME IInv, [Next]_vars, ~UNCHANGED pvars
               PROVE  KeepsLaunch
    BY DEF KeepsLaunch
  <2>1. ProfileNext
    BY DEF Next, UpdateTool, RateTool, ProfileTool, vars
  <2> QED
    BY <2>1, LastLaunchStep DEF IInv
<1> QED
  BY <1>1, Invariant, PTL DEF Spec, LastLaunchKept
=============================================================================
