-------------------------- MODULE TestQueueProofs --------------------------
(***************************************************************************)
(* Theorems about TestQueue, for every set of tests, every number of       *)
(* workers, every choice of [Serial] tests and every exclusion classes.    *)
(***************************************************************************)
EXTENDS TestQueue, FiniteSetTheorems, TLAPS

(* Taking an entry leaves a ring of tests that is one entry shorter.       *)
LEMMA RingTakeType ==
  ASSUME NEW S, NEW s \in Seq(S), NEW i \in 1 .. Len(s)
  PROVE  /\ RingTake(s, i) \in Seq(S)
         /\ Len(RingTake(s, i)) = Len(s) - 1
<1> DEFINE n == Len(s)
<1> DEFINE f == [k \in 1 .. n - 1 |->
                  s[IF k = 1 THEN (IF i = 1 THEN n ELSE i - 1)
                    ELSE IF i + k - 1 <= n THEN i + k - 1 ELSE i + k - 1 - n]]
<1>1. n \in Nat /\ n - 1 \in Nat /\ i \in 1 .. n
  OBVIOUS
<1>2. \A k \in 1 .. n - 1 : f[k] \in S
  BY <1>1
<1>3. f \in [1 .. n - 1 -> S]
  BY <1>2
<1>4. f \in Seq(S) /\ Len(f) = n - 1
  BY <1>1, <1>3
<1> QED
  BY <1>4 DEF RingTake

(* Every entry stays in the ring once, but the one taken.                  *)
LEMMA RingTakeEntries ==
  ASSUME NEW S, NEW s \in Seq(S), NEW i \in 1 .. Len(s),
         \A j, k \in 1 .. Len(s) : s[j] = s[k] => j = k
  PROVE  LET r == RingTake(s, i)
         IN  /\ Entries(r) = Entries(s) \ {s[i]}
             /\ \A j, k \in 1 .. Len(r) : r[j] = r[k] => j = k
<1> DEFINE n == Len(s)
<1> DEFINE r == RingTake(s, i)
<1> DEFINE ix(k) == IF k = 1 THEN (IF i = 1 THEN n ELSE i - 1)
                    ELSE IF i + k - 1 <= n THEN i + k - 1 ELSE i + k - 1 - n
<1> DEFINE inv(j) == IF j = (IF i = 1 THEN n ELSE i - 1) THEN 1
                     ELSE IF j > i THEN j - i + 1 ELSE j - i + 1 + n
<1>1. n \in Nat /\ i \in 1 .. n /\ Len(r) = n - 1
  BY RingTakeType
<1>2. \A k \in 1 .. n - 1 : r[k] = s[ix(k)]
  BY <1>1 DEF RingTake
<1>3. \A k \in 1 .. n - 1 : ix(k) \in 1 .. n /\ ix(k) # i
  BY <1>1
<1>4. \A j, k \in 1 .. n - 1 : ix(j) = ix(k) => j = k
  BY <1>1
<1>5. \A j \in 1 .. n : j # i => inv(j) \in 1 .. n - 1 /\ ix(inv(j)) = j
  BY <1>1
<1> HIDE DEF ix, inv, r
<1>6. \A j, k \in 1 .. n - 1 : r[j] = r[k] => j = k
  BY <1>1, <1>2, <1>3, <1>4
<1>7. \A k \in 1 .. n - 1 : r[k] \in Entries(s) \ {s[i]}
  BY <1>1, <1>2, <1>3 DEF Entries
<1>8. \A j \in 1 .. n : s[j] # s[i] => \E k \in 1 .. n - 1 : r[k] = s[j]
  BY <1>1, <1>2, <1>5
<1>9. Entries(r) = Entries(s) \ {s[i]}
  <2>1. Entries(r) \subseteq Entries(s) \ {s[i]}
    BY <1>1, <1>7 DEF Entries
  <2>2. Entries(s) \ {s[i]} \subseteq Entries(r)
    <3> SUFFICES ASSUME NEW j \in 1 .. n, s[j] # s[i] PROVE s[j] \in Entries(r)
      BY DEF Entries
    <3>1. PICK k \in 1 .. n - 1 : r[k] = s[j]
      BY <1>8
    <3> QED
      BY <1>1, <3>1 DEF Entries
  <2> QED
    BY <2>1, <2>2
<1> USE DEF r
<1> QED
  BY <1>1, <1>6, <1>9

(* Appending a test adds it to the entries, once if it is new.             *)
LEMMA AppendEntries ==
  ASSUME NEW S, NEW s \in Seq(S), NEW t \in S
  PROVE  /\ Entries(Append(s, t)) = Entries(s) \union {t}
         /\ \/ t \in Entries(s)
            \/ \E i, j \in 1 .. Len(s) : s[i] = s[j] /\ i # j
            \/ \A i, j \in 1 .. Len(Append(s, t)) :
                 Append(s, t)[i] = Append(s, t)[j] => i = j
<1>1. /\ Len(s) \in Nat /\ Len(Append(s, t)) = Len(s) + 1
      /\ \A i \in 1 .. Len(s) : Append(s, t)[i] = s[i]
      /\ Append(s, t)[Len(s) + 1] = t
  OBVIOUS
<1> QED
  BY <1>1 DEF Entries

(* The head of a list without repetition is not in its tail.               *)
LEMMA TailEntries ==
  ASSUME NEW S, NEW s \in Seq(S), s # <<>>,
         \A i, j \in 1 .. Len(s) : s[i] = s[j] => i = j
  PROVE  /\ Head(s) \in S
         /\ Entries(Tail(s)) = Entries(s) \ {Head(s)}
         /\ Head(s) \in Entries(s)
         /\ \A i, j \in 1 .. Len(Tail(s)) : Tail(s)[i] = Tail(s)[j] => i = j
<1>1. /\ Len(s) \in Nat \ {0} /\ Len(Tail(s)) = Len(s) - 1
      /\ \A i \in 1 .. Len(s) - 1 : Tail(s)[i] = s[i + 1]
      /\ Head(s) = s[1]
  OBVIOUS
<1>2. Entries(Tail(s)) \subseteq Entries(s) \ {Head(s)}
  BY <1>1 DEF Entries
<1>3. \A i \in 1 .. Len(s) : i # 1 => i - 1 \in 1 .. Len(s) - 1 /\ s[i] = Tail(s)[i - 1]
  BY <1>1
<1>4. Entries(s) \ {Head(s)} \subseteq Entries(Tail(s))
  BY <1>1, <1>3 DEF Entries
<1> QED
  BY <1>1, <1>2, <1>4 DEF Entries

(* Type correctness of the queue.                                          *)
THEOREM TypeCorrect == Spec => []TypeOK
<1>1. Init => TypeOK
  <2> SUFFICES ASSUME Init PROVE TypeOK
    OBVIOUS
  <2>1. Cardinality(Test) \in Nat
    BY TestAssumption, FS_CardinalityType
  <2>2. queue \in Seq(Test)
    BY <2>1 DEF Init, Orders
  <2>3. pc \in [Worker -> {"pop", "beforeWait", "sleep", "taken", "running",
                           "release", "exit"}]
    BY DEF Init
  <2>4. held \in [Worker -> Test \union {NoTest}]
    BY DEF Init
  <2>5. serial \in Seq(Serial) /\ current \in Serial \union {NoTest}
    BY DEF Init
  <2>6. /\ active \subseteq {Class[t] : t \in Test} \ {NoClass}
        /\ finished \subseteq Test
    BY DEF Init
  <2>7. /\ main \in {"wait", "serial", "running", "returned"}
        /\ cancelled \in BOOLEAN /\ closed \in BOOLEAN
    BY DEF Init
  <2>8. /\ \A w \in Worker : held[w] \in Test <=> w \in Busy
        /\ current \in Test <=> main = "running"
    BY TestAssumption DEF Init, Busy
  <2> QED
    BY <2>2, <2>3, <2>4, <2>5, <2>6, <2>7, <2>8 DEF TypeOK
<1>2. TypeOK /\ [Next]_vars => TypeOK'
  <2> SUFFICES ASSUME TypeOK, [Next]_vars PROVE TypeOK'
    OBVIOUS
  <2> USE TestAssumption, SerialAssumption DEF TypeOK, Busy
  <2>1. ASSUME NEW w \in Worker, Pop(w) PROVE TypeOK'
    <3>1. PICK i \in 1 .. Len(queue) :
            /\ held' = [held EXCEPT ![w] = queue[i]]
            /\ active' = active \union ({Class[queue[i]]} \ {NoClass})
            /\ queue' = RingTake(queue, i)
      BY <2>1 DEF Pop
    <3>2. queue[i] \in Test
      BY <3>1
    <3>3. queue' \in Seq(Test)
      BY <3>1, RingTakeType
    <3>4. active' \subseteq {Class[t] : t \in Test} \ {NoClass}
      BY <3>1, <3>2
    <3>5. /\ held' \in [Worker -> Test \union {NoTest}]
          /\ pc' \in [Worker -> {"pop", "beforeWait", "sleep", "taken",
                                 "running", "release", "exit"}]
      BY <2>1, <3>1, <3>2 DEF Pop
    <3>6. \A v \in Worker : held'[v] \in Test <=> v \in Busy'
      BY <2>1, <3>1, <3>2 DEF Pop
    <3> QED
      BY <2>1, <3>3, <3>4, <3>5, <3>6 DEF Pop, mainVars
  <2>2. ASSUME NEW w \in Worker, PopEmpty(w) PROVE TypeOK'
    BY <2>2 DEF PopEmpty, Broadcast, mainVars
  <2>3. ASSUME NEW w \in Worker, PopBlocked(w) PROVE TypeOK'
    BY <2>3 DEF PopBlocked, mainVars
  <2>4. ASSUME NEW w \in Worker, Wait(w) PROVE TypeOK'
    BY <2>4 DEF Wait, mainVars
  <2>5. ASSUME NEW w \in Worker, SetAside(w) PROVE TypeOK'
    BY <2>5 DEF SetAside, mainVars
  <2>6. ASSUME NEW w \in Worker, Start(w) PROVE TypeOK'
    BY <2>6 DEF Start, mainVars
  <2>7. ASSUME NEW w \in Worker, Finish(w) PROVE TypeOK'
    BY <2>7 DEF Finish, mainVars
  <2>8. ASSUME NEW w \in Worker, Done(w) PROVE TypeOK'
    BY <2>8 DEF Done, Broadcast, mainVars
  <2>9. CASE Cancel
    BY <2>9 DEF Cancel, workerVars, mainVars
  <2>10. CASE Close
    BY <2>10 DEF Close, Broadcast, mainVars
  <2>11. CASE Join
    BY <2>11 DEF Join, workerVars
  <2>12. CASE StartSerial
    BY <2>12 DEF StartSerial, workerVars
  <2>13. CASE FinishSerial
    BY <2>13, SerialAssumption DEF FinishSerial, workerVars
  <2>14. CASE Return
    BY <2>14 DEF Return, workerVars
  <2>15. CASE UNCHANGED vars
    BY <2>15 DEF vars, workerVars, mainVars
  <2> QED
    BY <2>1, <2>2, <2>3, <2>4, <2>5, <2>6, <2>7, <2>8, <2>9, <2>10, <2>11,
       <2>12, <2>13, <2>14, <2>15 DEF Next, WorkerStep, MainStep
<1> QED
  BY <1>1, <1>2, PTL DEF Spec

(* Tests of one exclusion class are never out of the queue together, and   *)
(* a queue that still holds a test always has a worker that will come back *)
(* to it.                                                                  *)
ExclusionInv == MutualExclusion /\ QueueNotStranded /\ ClassesHeld

(* They hold when the workers start ...                                    *)
LEMMA ExclusionInit == Init => ExclusionInv
  BY WorkerAssumption DEF Init, ExclusionInv, MutualExclusion,
     QueueNotStranded, ClassesHeld, Busy

(* ... and every step of a worker, of the caller or of Close keeps them.   *)
LEMMA ExclusionStep ==
  ASSUME TypeOK, ExclusionInv, [Next]_vars
  PROVE  ExclusionInv'
<1> USE DEF ExclusionInv, MutualExclusion, QueueNotStranded, ClassesHeld,
            Busy, TypeOK
<1>1. ASSUME NEW w \in Worker, Pop(w) PROVE ExclusionInv'
  <2>1. PICK i \in 1 .. Len(queue) :
          /\ FirstFree(i)
          /\ held' = [held EXCEPT ![w] = queue[i]]
          /\ active' = active \union ({Class[queue[i]]} \ {NoClass})
          /\ queue' = RingTake(queue, i)
    BY <1>1 DEF Pop
  <2>2. queue[i] \in Test /\ Class[queue[i]] \notin active
    BY <2>1 DEF FirstFree, Blocked
  <2>3. ~closed /\ \A v \in Worker : pc[v] # "exit"
    BY <2>1
  <2>4. /\ \A v \in Worker : v # w => pc'[v] = pc[v] /\ held'[v] = held[v]
        /\ pc[w] = "pop" /\ pc'[w] = "taken" /\ held'[w] = queue[i]
        /\ closed' = closed
    BY <1>1, <2>1 DEF Pop
  <2>5. MutualExclusion'
    BY <2>2, <2>3, <2>4
  <2>6. QueueNotStranded'
    BY <2>4
  <2>7. ClassesHeld'
    <3>1. \A v \in Busy' : Class[held'[v]] \in active' \union {NoClass}
      BY <2>1, <2>3, <2>4
    <3>2. \A k \in active' : \E v \in Busy' : Class[held'[v]] = k
      BY <2>1, <2>4
    <3> QED
      BY <2>3, <2>4, <3>1, <3>2
  <2> QED
    BY <2>5, <2>6, <2>7
<1>2. ASSUME NEW w \in Worker, PopEmpty(w) PROVE ExclusionInv'
  <2>1. /\ pc[w] = "pop" /\ pc'[w] = "exit" /\ Len(queue) = 0
        /\ \A v \in Worker : v # w =>
             pc'[v] = IF pc[v] = "sleep" THEN "pop" ELSE pc[v]
        /\ held' = held /\ active' = active
        /\ queue' = queue /\ closed' = closed
    BY <1>2 DEF PopEmpty, Broadcast
  <2>2. Busy' = Busy
    BY <2>1
  <2> QED
    BY <2>1, <2>2
<1>3. ASSUME NEW w \in Worker, PopBlocked(w) PROVE ExclusionInv'
  <2>1. \E v \in Busy : Class[held[v]] = Class[queue[1]]
    BY <1>3 DEF PopBlocked, Blocked
  <2>2. /\ \A v \in Worker : v # w => pc'[v] = pc[v]
        /\ pc[w] = "pop" /\ pc'[w] = "beforeWait" /\ held' = held
        /\ queue' = queue /\ active' = active /\ closed' = closed
    BY <1>3 DEF PopBlocked
  <2>3. Busy' = Busy
    BY <2>2
  <2> QED
    BY <2>1, <2>2, <2>3
<1>4. ASSUME NEW w \in Worker, Wait(w) PROVE ExclusionInv'
  BY <1>4 DEF Wait
<1>5. ASSUME NEW w \in Worker, SetAside(w) PROVE ExclusionInv'
  BY <1>5 DEF SetAside
<1>6. ASSUME NEW w \in Worker, Start(w) PROVE ExclusionInv'
  BY <1>6 DEF Start
<1>7. ASSUME NEW w \in Worker, Finish(w) PROVE ExclusionInv'
  BY <1>7 DEF Finish
<1>8. ASSUME NEW w \in Worker, Done(w) PROVE ExclusionInv'
  <2>1. /\ \A v \in Worker : v # w => held'[v] = held[v]
        /\ pc[w] = "release" /\ pc'[w] = "pop"
        /\ \A v \in Worker : v # w =>
             pc'[v] = IF pc[v] = "sleep" THEN "pop" ELSE pc[v]
        /\ active' = active \ {Class[held[w]]}
        /\ queue' = queue /\ closed' = closed
    BY <1>8 DEF Done, Broadcast
  <2>2. Busy' = Busy \ {w} /\ w \in Busy
    BY <2>1
  <2>3. MutualExclusion' /\ QueueNotStranded'
    BY <2>1, <2>2
  <2>4. closed' \/ \A v \in Busy' : Class[held'[v]] \in active' \union {NoClass}
    BY <2>1, <2>2
  <2>5. \A k \in active' : \E v \in Busy' : Class[held'[v]] = k
    BY <2>1, <2>2
  <2>6. /\ closed' => Len(queue') = 0
        /\ \A v \in Worker : pc'[v] = "exit" => Len(queue') = 0
    BY <2>1
  <2> QED
    BY <2>3, <2>4, <2>5, <2>6
<1>9. CASE Cancel
  BY <1>9 DEF Cancel, workerVars
<1>10. CASE Close
  BY <1>10 DEF Close, Broadcast
<1>11. CASE MainStep
  BY <1>11 DEF MainStep, Join, StartSerial, FinishSerial, Return, workerVars
<1>12. CASE UNCHANGED vars
  BY <1>12 DEF vars, workerVars
<1> QED
  BY <1>1, <1>2, <1>3, <1>4, <1>5, <1>6, <1>7, <1>8, <1>9, <1>10, <1>11,
     <1>12 DEF Next, WorkerStep

(* The conditions above hold together: ClassesHeld explains why exclusion  *)
(* survives Close, and why a sleeping worker always has one to wake it.    *)
THEOREM Exclusion == Spec => []ExclusionInv
  BY TypeCorrect, ExclusionInit, ExclusionStep, PTL DEF Spec

(* No two tests of one exclusion class are ever out of the queue together. *)
THEOREM MutualExclusionHolds == Spec => []MutualExclusion
  BY Exclusion, PTL DEF ExclusionInv

(* No lost wake-up ever strands the tests that are left in the ring.       *)
THEOREM QueueNeverStranded == Spec => []QueueNotStranded
  BY Exclusion, PTL DEF ExclusionInv

(* With tests that exclude nobody, as the runner builds them, pop never    *)
(* leaves a worker without a test while the ring holds one, so no worker   *)
(* ever waits for a wake-up that could be lost.                            *)
THEOREM ShippedNeverWaits ==
  ASSUME \A t \in Test : Class[t] = NoClass
  PROVE  Spec => [](\A w \in Worker : pc[w] \notin {"beforeWait", "sleep"})
<1> DEFINE Awake == /\ active = {}
                    /\ \A w \in Worker : pc[w] \notin {"beforeWait", "sleep"}
<1>1. Init => Awake
  BY DEF Init
<1>2. TypeOK /\ Awake /\ [Next]_vars => Awake'
  <2> SUFFICES ASSUME TypeOK, Awake, [Next]_vars PROVE Awake'
    OBVIOUS
  <2> USE DEF TypeOK, Broadcast
  <2>1. ASSUME NEW w \in Worker, Pop(w) PROVE Awake'
    <3>1. PICK i \in 1 .. Len(queue) :
            active' = active \union ({Class[queue[i]]} \ {NoClass})
      BY <2>1 DEF Pop
    <3>2. active' = {}
      BY <3>1
    <3> QED
      BY <2>1, <3>2 DEF Pop
  <2>2. ASSUME NEW w \in Worker, PopBlocked(w) PROVE Awake'
    <3>1. queue[1] \in Test /\ Blocked(queue[1])
      BY <2>2 DEF PopBlocked
    <3>2. Class[queue[1]] \in active
      BY <3>1 DEF Blocked
    <3> QED
      BY <3>2
  <2>3. ASSUME NEW w \in Worker,
               \/ PopEmpty(w) \/ Wait(w) \/ SetAside(w) \/ Start(w)
               \/ Finish(w) \/ Done(w)
        PROVE Awake'
    BY <2>3 DEF PopEmpty, Wait, SetAside, Start, Finish, Done
  <2>4. CASE Cancel \/ Close \/ MainStep \/ UNCHANGED vars
    BY <2>4 DEF Cancel, Close, MainStep, Join, StartSerial, FinishSerial,
       Return, vars, workerVars, mainVars
  <2> QED
    BY <2>1, <2>2, <2>3, <2>4 DEF Next, WorkerStep
<1> QED
  BY <1>1, <1>2, TypeCorrect, PTL DEF Spec

(* Where the tests are: nowhere twice, nowhere lost, and the [Serial] ones *)
(* after the others.                                                       *)
ConservationInv == NoTestDuplicated /\ NoTestLost /\ SerialAlone

(* The queue is built from every test.                                     *)
LEMMA RingInit ==
  ASSUME Init
  PROVE  /\ \A i, j \in 1 .. Len(queue) : queue[i] = queue[j] => i = j
         /\ Entries(queue) = Test
<1>1. PICK n \in Nat : n = Cardinality(Test)
  BY TestAssumption, FS_CardinalityType
<1>2. /\ queue \in [1 .. n -> Test] /\ Len(queue) = n
      /\ \A i, j \in 1 .. n : queue[i] = queue[j] => i = j
  BY <1>1 DEF Init, Orders
<1>3. queue \in Injection(1 .. n, Test)
  BY <1>2 DEF Injection, IsInjective
<1>4. IsFiniteSet(1 .. n) /\ Cardinality(1 .. n) = n
  BY FS_Interval
<1>5. queue \in Surjection(1 .. n, Test)
  BY <1>1, <1>3, <1>4, TestAssumption, FS_Injection
<1> QED
  BY <1>2, <1>5 DEF Surjection, Entries

(* At the start every test is in the ring, once ...                        *)
LEMMA ConservationInit == Init => ConservationInv
<1> SUFFICES ASSUME Init PROVE ConservationInv
  OBVIOUS
<1>2. /\ Busy = {} /\ Len(serial) = 0 /\ Entries(serial) = {}
      /\ finished = {} /\ main = "wait"
  BY DEF Init, Busy, Entries
<1>3. NoTestDuplicated
  BY <1>2, RingInit DEF NoTestDuplicated
<1>4. NoTestLost
  BY RingInit DEF NoTestLost
<1>5. SerialAlone
  BY DEF Init, SerialAlone
<1> QED
  BY <1>3, <1>4, <1>5 DEF ConservationInv

(* A step of one worker that keeps what each holds takes at most its test  *)
(* from those taken.                                                       *)
LEMMA TakenShrinks ==
  ASSUME NEW w \in Worker, held' = held,
         \A v \in Worker : v # w => pc'[v] = pc[v]
  PROVE  Taken \subseteq Taken' \union {held[w]}
<1> SUFFICES ASSUME NEW t \in Taken, t # held[w] PROVE t \in Taken'
  OBVIOUS
<1>1. PICK v \in Worker : pc[v] = "taken" /\ held[v] = t
  BY DEF Taken
<1>2. v # w
  BY <1>1
<1>3. pc'[v] = "taken" /\ held'[v] = t
  BY <1>1, <1>2
<1> QED
  BY <1>3 DEF Taken

(* ... and each step moves at most one test from one place to the next.    *)
LEMMA ConservationStep ==
  ASSUME TypeOK, ExclusionInv, ConservationInv, [Next]_vars
  PROVE  ConservationInv'
<1> USE DEF ConservationInv, NoTestDuplicated, NoTestLost, SerialAlone, TypeOK
<1>1. ASSUME NEW w \in Worker, Pop(w) PROVE ConservationInv'
  <2>1. PICK i \in 1 .. Len(queue) :
          /\ held' = [held EXCEPT ![w] = queue[i]]
          /\ queue' = RingTake(queue, i)
    BY <1>1 DEF Pop
  <2>2. /\ \A v \in Worker : v # w => pc'[v] = pc[v] /\ held'[v] = held[v]
        /\ pc[w] = "pop" /\ pc'[w] = "taken" /\ held'[w] = queue[i]
        /\ UNCHANGED <<serial, main, current, cancelled, finished>>
    BY <1>1, <2>1 DEF Pop, mainVars
  <2>3. /\ Entries(queue') = Entries(queue) \ {queue[i]}
        /\ \A j, k \in 1 .. Len(queue') : queue'[j] = queue'[k] => j = k
    <3> HIDE DEF ConservationInv, TypeOK
    <3>1. queue \in Seq(Test) /\ i \in 1 .. Len(queue)
      BY DEF TypeOK
    <3>2. \A j, k \in 1 .. Len(queue) : queue[j] = queue[k] => j = k
      BY DEF ConservationInv
    <3> QED
      BY <2>1, <3>1, <3>2, RingTakeEntries
  <2>4. /\ Busy' = Busy \union {w} /\ w \notin Busy
        /\ Taken' = Taken \union {queue[i]}
        /\ Running' = Running
        /\ Busy \subseteq Worker /\ queue[i] \in Entries(queue)
    <3> HIDE DEF ConservationInv, NoTestDuplicated, NoTestLost, SerialAlone, TypeOK
    <3>1. Busy' = Busy \union {w} /\ w \notin Busy /\ Busy \subseteq Worker
      BY <2>2 DEF Busy
    <3>2. Taken' = Taken \union {queue[i]}
      BY <2>2 DEF Taken
    <3>3. Running' = Running
      BY <2>2 DEF Running
    <3>4. queue[i] \in Entries(queue)
      BY DEF Entries
    <3> QED
      BY <3>1, <3>2, <3>3, <3>4
  <2>5. NoTestDuplicated'
    <3>1. /\ queue[i] \notin finished /\ queue[i] \notin Entries(serial)
          /\ \A v \in Busy : held[v] # queue[i]
      BY <2>4
    <3>2. \A v \in Busy : pc'[v] = pc[v] /\ held'[v] = held[v]
      BY <2>2, <2>4
    <3>3. \A u, v \in Busy' : held'[u] = held'[v] => u = v
      BY <2>2, <2>4, <3>1, <3>2
    <3>4. \A v \in Busy' : held'[v] \notin Entries(queue')
      BY <2>2, <2>3, <2>4, <3>1, <3>2
    <3>5. \A v \in Busy' : held'[v] \in finished' \union Entries(serial')
                           <=> pc'[v] = "release"
      BY <2>2, <2>4, <3>1, <3>2
    <3> QED
      BY <2>2, <2>3, <3>3, <3>4, <3>5
  <2>6. NoTestLost'
    BY <2>2, <2>3, <2>4
  <2>7. SerialAlone'
    BY <2>2
  <2> QED
    BY <2>5, <2>6, <2>7
<1>2. ASSUME NEW w \in Worker,
             PopEmpty(w) \/ PopBlocked(w) \/ Wait(w)
      PROVE  ConservationInv'
  <2>1. /\ UNCHANGED <<queue, held, serial, main, current, cancelled, finished>>
        /\ \A v \in Worker : pc[v] \in {"taken", "running", "release", "exit"}
                              => pc'[v] = pc[v]
        /\ \A v \in Worker : pc[v] \notin {"taken", "running", "release"}
                              => pc'[v] \notin {"taken", "running", "release"}
    BY <1>2 DEF PopEmpty, PopBlocked, Wait, Broadcast, mainVars
  <2>2. Busy' = Busy /\ Taken' = Taken /\ Running' = Running
    <3> HIDE DEF ConservationInv, NoTestDuplicated, NoTestLost, SerialAlone, TypeOK
    <3>1. Busy' = Busy
      BY <2>1 DEF Busy
    <3>2. Taken' = Taken
      BY <2>1 DEF Taken
    <3>3. Running' = Running
      BY <2>1 DEF Running
    <3> QED
      BY <3>1, <3>2, <3>3
  <2>3. \A v \in Busy : pc'[v] = pc[v]
    BY <2>1 DEF Busy
  <2> QED
    BY <2>1, <2>2, <2>3
<1>5. ASSUME NEW w \in Worker, SetAside(w) PROVE ConservationInv'
  <2>1. /\ \A v \in Worker : v # w => pc'[v] = pc[v]
        /\ pc[w] = "taken" /\ pc'[w] = "release" /\ held[w] \in Serial
        /\ serial' = Append(serial, held[w])
        /\ UNCHANGED <<queue, held, main, current, cancelled, finished>>
    BY <1>5 DEF SetAside, mainVars
  <2>2. Busy' = Busy /\ w \in Busy /\ Busy \subseteq Worker
    BY <2>1 DEF Busy
  <2>6. Taken \subseteq Taken' \union {held[w]}
    BY <2>1, TakenShrinks
  <2>7. Running \subseteq Running'
    BY <2>1 DEF Running
  <2>3. /\ Entries(serial') = Entries(serial) \union {held[w]}
        /\ \A i, j \in 1 .. Len(serial') : serial'[i] = serial'[j] => i = j
    BY <2>1, <2>2, AppendEntries
  <2>4. main = "wait"
    BY <2>1
  <2>5. NoTestDuplicated'
    <3>1. /\ held[w] \notin finished /\ held[w] \notin Entries(queue)
          /\ \A v \in Busy : v # w => held[v] # held[w]
      BY <2>1, <2>2
    <3>2. \A v \in Busy : held[v] \in finished \union Entries(serial')
                          <=> pc'[v] = "release"
      BY <2>1, <2>2, <2>3, <3>1
    <3>3. \A u, v \in Busy' : held'[u] = held'[v] => u = v
      BY <2>1, <2>2
    <3>4. \A v \in Busy' : held'[v] \notin Entries(queue')
      BY <2>1, <2>2
    <3>5. Entries(queue') \intersect Entries(serial') = {}
      BY <2>1, <2>3, <3>1
    <3>6. finished' \intersect (Entries(queue') \union Entries(serial')) = {}
      BY <2>1, <2>3, <3>1
    <3>7. main' # "running"
      BY <2>1, <2>4
    <3>8. \A i, j \in 1 .. Len(queue') : queue'[i] = queue'[j] => i = j
      BY <2>1
    <3>9. \A v \in Busy' : held'[v] \in finished' \union Entries(serial')
                          <=> pc'[v] = "release"
      BY <2>1, <2>2, <3>2
    <3> HIDE DEF ConservationInv, TypeOK
    <3> QED
      BY <2>3, <3>3, <3>4, <3>5, <3>6, <3>7, <3>8, <3>9
  <2> QED
    BY <2>1, <2>2, <2>3, <2>4, <2>5, <2>6, <2>7
<1>6. ASSUME NEW w \in Worker, Start(w) PROVE ConservationInv'
  <2>1. /\ \A v \in Worker : v # w => pc'[v] = pc[v]
        /\ pc[w] = "taken" /\ pc'[w] = "running" /\ held[w] \notin Serial
        /\ UNCHANGED <<queue, held, serial, main, current, cancelled, finished>>
    BY <1>6 DEF Start, mainVars
  <2>2. /\ Busy' = Busy
        /\ Busy \subseteq Worker /\ w \in Busy
        /\ Taken \union Running \subseteq Taken' \union Running'
    <3> HIDE DEF ConservationInv, NoTestDuplicated, NoTestLost, SerialAlone, TypeOK
    <3>1. Busy' = Busy /\ Busy \subseteq Worker /\ w \in Busy
      BY <2>1 DEF Busy
    <3>2. Taken \subseteq Taken' \union {held[w]}
      BY <2>1, TakenShrinks
    <3>3. Running \subseteq Running'
      BY <2>1 DEF Running
    <3>4. held[w] \in Running'
      BY <2>1, <3>1 DEF Running
    <3> QED
      BY <3>1, <3>2, <3>3, <3>4
  <2>3. \A v \in Busy : held[v] \in finished \union Entries(serial)
                        <=> pc'[v] = "release"
    BY <2>1, <2>2
  <2>4. main = "wait"
    BY <2>1
  <2>5. NoTestDuplicated'
    BY <2>1, <2>2, <2>3, <2>4
  <2>6. NoTestLost'
    BY <2>1, <2>2
  <2>7. SerialAlone'
    BY <2>1, <2>4
  <2> QED
    BY <2>5, <2>6, <2>7
<1>7. ASSUME NEW w \in Worker, Finish(w) PROVE ConservationInv'
  <2>1. /\ \A v \in Worker : v # w => pc'[v] = pc[v]
        /\ pc[w] = "running" /\ pc'[w] = "release"
        /\ finished' = finished \union {held[w]}
        /\ UNCHANGED <<queue, held, serial, main, current, cancelled>>
    BY <1>7 DEF Finish, mainVars
  <2>2. /\ Busy' = Busy /\ w \in Busy
        /\ Taken' = Taken
        /\ Running \subseteq Running' \union {held[w]}
        /\ Busy \subseteq Worker
    <3> HIDE DEF ConservationInv, NoTestDuplicated, NoTestLost, SerialAlone, TypeOK
    <3>1. Busy' = Busy /\ Busy \subseteq Worker /\ w \in Busy
      BY <2>1 DEF Busy
    <3>2. Taken' = Taken
      BY <2>1 DEF Taken
    <3>3. Running \subseteq Running' \union {held[w]}
      BY <2>1 DEF Running
    <3> QED
      BY <3>1, <3>2, <3>3
  <2>3. main = "wait"
    BY <2>1
  <2>4. NoTestDuplicated'
    <3>1. /\ held[w] \notin Entries(serial) /\ held[w] \notin Entries(queue)
          /\ \A v \in Busy : v # w => held[v] # held[w]
      BY <2>1, <2>2
    <3>2. \A v \in Busy : held[v] \in finished' \union Entries(serial)
                          <=> pc'[v] = "release"
      BY <2>1, <2>2, <3>1
    <3> QED
      BY <2>1, <2>2, <2>3, <3>1, <3>2
  <2> QED
    BY <2>1, <2>2, <2>3, <2>4
<1>8. ASSUME NEW w \in Worker, Done(w) PROVE ConservationInv'
  <2>1. /\ \A v \in Worker : v # w => held'[v] = held[v]
        /\ \A v \in Worker : pc[v] \in {"taken", "running", "exit"}
                              => pc'[v] = pc[v]
        /\ \A v \in Worker : pc[v] \notin {"taken", "running", "release"}
                              => pc'[v] \notin {"taken", "running", "release"}
        /\ \A v \in Worker : v # w /\ pc[v] = "release" => pc'[v] = "release"
        /\ pc[w] = "release" /\ pc'[w] = "pop"
        /\ UNCHANGED <<queue, serial, main, current, cancelled, finished>>
    BY <1>8 DEF Done, Broadcast, mainVars
  <2>2. Busy' = Busy \ {w} /\ w \in Busy
    BY <2>1 DEF Busy
  <2>4. /\ \A v \in Worker : pc[v] = "taken" => v # w /\ pc'[v] = "taken"
        /\ \A v \in Worker : pc[v] = "running" => v # w /\ pc'[v] = "running"
    BY <2>1
  <2>5. Taken \subseteq Taken'
    BY <2>1, <2>4 DEF Taken
  <2>6. Running \subseteq Running'
    BY <2>1, <2>4 DEF Running
  <2>3. \A v \in Busy' : pc'[v] = pc[v] /\ held'[v] = held[v]
    BY <2>1, <2>2 DEF Busy
  <2> QED
    BY <2>1, <2>2, <2>3, <2>5, <2>6
<1>9. CASE Cancel
  BY <1>9 DEF Cancel, workerVars, mainVars, Busy
<1>10. CASE Close
  <2>1. /\ \A v \in Worker : pc[v] \in {"taken", "running", "release", "exit"}
                              => pc'[v] = pc[v]
        /\ \A v \in Worker : pc[v] \notin {"taken", "running", "release"}
                              => pc'[v] \notin {"taken", "running", "release"}
        /\ cancelled /\ queue' = <<>>
        /\ UNCHANGED <<held, serial, main, current, cancelled, finished>>
    BY <1>10 DEF Close, Broadcast, mainVars
  <2>2. Busy' = Busy /\ Entries(queue') = {} /\ Len(queue') = 0
    BY <2>1 DEF Busy, Entries
  <2>3. \A v \in Busy : pc'[v] = pc[v]
    BY <2>1 DEF Busy
  <2> QED
    BY <2>1, <2>2, <2>3
<1>11. CASE Join
  <2>1. /\ UNCHANGED <<queue, pc, held, serial, current, cancelled, finished>>
        /\ main = "wait" /\ main' = "serial"
        /\ \A v \in Worker : pc[v] = "exit"
    BY <1>11 DEF Join, workerVars
  <2>2. Busy = {} /\ Busy' = {} /\ Taken = {} /\ Running = {}
    BY <2>1 DEF Busy, Taken, Running
  <2>3. Entries(queue) = {}
    BY <2>1, WorkerAssumption DEF ExclusionInv, ClassesHeld, Entries
  <2>4. Entries(serial) \subseteq Serial
    BY DEF Entries
  <2> QED
    BY <2>1, <2>2, <2>3, <2>4
<1>12. CASE StartSerial
  <2>1. /\ UNCHANGED <<queue, pc, held, cancelled, finished>>
        /\ main = "serial" /\ main' = "running" /\ serial # <<>>
        /\ current' = Head(serial) /\ serial' = Tail(serial)
    BY <1>12 DEF StartSerial, workerVars
  <2>2. Busy' = Busy /\ Busy = {} /\ Taken' = Taken
    BY <2>1 DEF Busy, Taken
  <2>3. /\ Entries(serial') = Entries(serial) \ {current'}
        /\ current' \in Entries(serial)
        /\ \A i, j \in 1 .. Len(serial') : serial'[i] = serial'[j] => i = j
    BY <2>1, TailEntries
  <2>4. Running \subseteq Running' /\ current' \in Running'
    BY <2>1, <2>2 DEF Running, Busy
  <2> QED
    BY <2>1, <2>2, <2>3, <2>4
<1>13. CASE FinishSerial
  <2>1. /\ UNCHANGED <<queue, pc, held, serial, cancelled>>
        /\ main = "running" /\ main' = "serial"
        /\ finished' = finished \union {current}
    BY <1>13 DEF FinishSerial, workerVars
  <2>2. /\ Busy' = Busy /\ Busy = {} /\ Taken' = Taken
        /\ Running \subseteq Running' \union {current}
    BY <2>1 DEF Busy, Taken, Running
  <2>3. Entries(queue) = {}
    BY <2>1, WorkerAssumption DEF ExclusionInv, ClassesHeld, Entries
  <2> QED
    BY <2>1, <2>2, <2>3
<1>14. CASE Return
  <2>1. /\ UNCHANGED <<queue, pc, held, serial, cancelled, finished>>
        /\ main = "serial" /\ main' = "returned"
    BY <1>14 DEF Return, workerVars
  <2>2. Busy' = Busy /\ Taken' = Taken /\ Running' = Running
    <3> HIDE DEF ConservationInv, NoTestDuplicated, NoTestLost, SerialAlone, TypeOK
    <3>1. Busy' = Busy
      BY <2>1 DEF Busy
    <3>2. Taken' = Taken
      BY <2>1 DEF Taken
    <3>3. Running' = Running
      BY <2>1 DEF Running
    <3> QED
      BY <3>1, <3>2, <3>3
  <2> QED
    BY <2>1, <2>2
<1>15. CASE UNCHANGED vars
  <2>1. UNCHANGED <<queue, pc, held, serial, main, current, cancelled, finished>>
    BY <1>15 DEF vars, workerVars, mainVars
  <2>2. Busy' = Busy /\ Taken' = Taken /\ Running' = Running
    <3> HIDE DEF ConservationInv, NoTestDuplicated, NoTestLost, SerialAlone, TypeOK
    <3>1. Busy' = Busy
      BY <2>1 DEF Busy
    <3>2. Taken' = Taken
      BY <2>1 DEF Taken
    <3>3. Running' = Running
      BY <2>1 DEF Running
    <3> QED
      BY <3>1, <3>2, <3>3
  <2> QED
    BY <2>1, <2>2
<1> QED
  BY <1>1, <1>2, <1>5, <1>6, <1>7, <1>8, <1>9, <1>10, <1>11, <1>12, <1>13,
     <1>14, <1>15 DEF Next, WorkerStep, MainStep

(* No operation duplicates, forgets or hurries a test.                     *)
THEOREM Conservation == Spec => []ConservationInv
  BY TypeCorrect, Exclusion, ConservationInit, ConservationStep, PTL DEF Spec

(* No test is run twice.                                                   *)
THEOREM NoTestRunTwice == Spec => []NoTestDuplicated
  BY Conservation, PTL DEF ConservationInv

(* An execution that was not interrupted forgets no test.                  *)
THEOREM NoTestForgotten == Spec => []NoTestLost
  BY Conservation, PTL DEF ConservationInv

(* [Serial] tests run alone and, unless interrupted, after all others.     *)
THEOREM SerialTestsAlone == Spec => []SerialAlone
  BY Conservation, PTL DEF ConservationInv

(* No two tests overlap that must not, by their class or by [Serial],      *)
(* although Close forgets the classes under tests that still run.          *)
THEOREM OverlapsExcluded == Spec => []NoForbiddenOverlap
  BY MutualExclusionHolds, SerialTestsAlone, PTL DEF NoForbiddenOverlap

(* Every test stays in one place of the queue until it was run.            *)
THEOREM ConservesTests == Spec => []TestsConserved
  BY NoTestRunTwice, NoTestForgotten, PTL DEF TestsConserved

(* Every step of the queue is a step of the abstract execution or leaves   *)
(* it unchanged.                                                           *)
LEMMA ExecutionStep ==
  ASSUME TypeOK, ExclusionInv, ConservationInv, [Next]_vars
  PROVE  [Execution!Next]_Execution!vars
<1> DEFINE W == IF main = "returned" THEN {}
                ELSE Entries(queue) \union Taken \union Entries(serial)
<1> USE DEF TypeOK
<1>1. ASSUME NEW w \in Worker, Pop(w) PROVE UNCHANGED Execution!vars
  <2>1. PICK i \in 1 .. Len(queue) :
          /\ held' = [held EXCEPT ![w] = queue[i]]
          /\ queue' = RingTake(queue, i)
    BY <1>1 DEF Pop
  <2>2. /\ Entries(queue') = Entries(queue) \ {queue[i]}
        /\ queue[i] \in Entries(queue)
    <3>1. \A j, k \in 1 .. Len(queue) : queue[j] = queue[k] => j = k
      BY DEF ConservationInv, NoTestDuplicated
    <3>2. queue[i] \in Entries(queue)
      BY DEF Entries
    <3> QED
      BY <2>1, <3>1, <3>2, RingTakeEntries
  <2>3. Taken' = Taken \union {queue[i]} /\ Running' = Running
    BY <1>1, <2>1 DEF Pop, mainVars, Taken, Running
  <2>4. UNCHANGED <<serial, main, cancelled, finished>>
    BY <1>1 DEF Pop, mainVars
  <2>5. W' = W
    BY <2>2, <2>3, <2>4
  <2> QED
    BY <2>3, <2>4, <2>5 DEF Execution!vars
<1>2. ASSUME NEW w \in Worker, PopEmpty(w) \/ PopBlocked(w) \/ Wait(w)
      PROVE  UNCHANGED Execution!vars
  <2>1. /\ UNCHANGED <<queue, held, serial, main, current, cancelled, finished>>
        /\ \A v \in Worker : pc'[v] = "taken" <=> pc[v] = "taken"
        /\ \A v \in Worker : pc'[v] = "running" <=> pc[v] = "running"
    BY <1>2 DEF PopEmpty, PopBlocked, Wait, Broadcast, mainVars
  <2>2. Taken' = Taken /\ Running' = Running
    BY <2>1 DEF Taken, Running
  <2> QED
    BY <2>1, <2>2 DEF Execution!vars
<1>3. ASSUME NEW w \in Worker, SetAside(w) PROVE UNCHANGED Execution!vars
  <2>1. /\ \A v \in Worker : v # w => pc'[v] = pc[v]
        /\ pc[w] = "taken" /\ pc'[w] = "release" /\ held[w] \in Serial
        /\ serial' = Append(serial, held[w])
        /\ UNCHANGED <<queue, held, main, current, cancelled, finished>>
    BY <1>3 DEF SetAside, mainVars
  <2>2. Entries(serial') = Entries(serial) \union {held[w]}
    BY <2>1, AppendEntries
  <2>3. Taken \subseteq Taken' \union {held[w]} /\ Taken' \subseteq Taken
    <3>1. Taken \subseteq Taken' \union {held[w]}
      BY <2>1, TakenShrinks
    <3>2. Taken' \subseteq Taken
      BY <2>1 DEF Taken
    <3> QED
      BY <3>1, <3>2
  <2>4. Running' \subseteq Running /\ Running \subseteq Running'
    BY <2>1 DEF Running
  <2>5. held[w] \in Taken
    BY <2>1 DEF Taken
  <2> QED
    BY <2>1, <2>2, <2>3, <2>4, <2>5 DEF Execution!vars
<1>4. ASSUME NEW w \in Worker, Start(w) PROVE Execution!Next
  <2>1. /\ \A v \in Worker : v # w => pc'[v] = pc[v]
        /\ pc[w] = "taken" /\ pc'[w] = "running"
        /\ held[w] \in Test \ Serial /\ w \in Busy
        /\ UNCHANGED <<queue, held, serial, main, current, cancelled, finished>>
    BY <1>4 DEF Start, mainVars, Busy
  <2>2. main = "wait"
    BY <2>1 DEF ConservationInv, SerialAlone
  <2>3. /\ held[w] \notin Entries(queue) /\ held[w] \notin Entries(serial)
        /\ \A v \in Busy : v # w => held[v] # held[w]
    BY <2>1 DEF ConservationInv, NoTestDuplicated
  <2>4. W' = W \ {held[w]} /\ held[w] \in W
    <3>1. Taken' = Taken \ {held[w]} /\ held[w] \in Taken
      BY <2>1, <2>3 DEF Taken, Busy
    <3> QED
      BY <2>1, <2>2, <2>3, <3>1
  <2>5. Running' = Running \union {held[w]}
    BY <2>1, <2>2 DEF Running
  <2>6. \A u \in Running :
          u \notin Serial /\ ~Execution!Conflict(held[w], u)
    <3> SUFFICES ASSUME NEW v \in Worker, pc[v] = "running"
                 PROVE  /\ held[v] \notin Serial
                        /\ ~Execution!Conflict(held[w], held[v])
      BY <2>2 DEF Running
    <3>1. v \in Busy /\ v # w
      BY <2>1 DEF Busy
    <3>2. held[v] \notin Serial
      BY DEF ConservationInv, SerialAlone
    <3> QED
      BY <2>1, <3>1, <3>2 DEF ExclusionInv, MutualExclusion, Execution!Conflict
  <2>7. Execution!StartParallel(held[w])
    BY <2>1, <2>2, <2>4, <2>5, <2>6 DEF Execution!StartParallel
  <2> QED
    BY <2>1, <2>7 DEF Execution!Next
<1>5. ASSUME NEW w \in Worker, Finish(w) PROVE Execution!Next
  <2>1. /\ \A v \in Worker : v # w => pc'[v] = pc[v]
        /\ pc[w] = "running" /\ pc'[w] = "release"
        /\ finished' = finished \union {held[w]}
        /\ held[w] \in Test /\ w \in Busy
        /\ UNCHANGED <<queue, held, serial, main, current, cancelled>>
    BY <1>5 DEF Finish, mainVars, Busy
  <2>2. main = "wait"
    BY <2>1 DEF ConservationInv, SerialAlone
  <2>3. \A v \in Busy : v # w => held[v] # held[w]
    BY <2>1 DEF ConservationInv, NoTestDuplicated
  <2>4. W' = W
    <3>1. Taken' = Taken
      BY <2>1 DEF Taken
    <3> QED
      BY <2>1, <3>1
  <2>5. Running' = Running \ {held[w]} /\ held[w] \in Running
    BY <2>1, <2>2, <2>3 DEF Running, Busy
  <2>6. Execution!Finish(held[w])
    BY <2>1, <2>2, <2>4, <2>5 DEF Execution!Finish
  <2> QED
    BY <2>1, <2>6 DEF Execution!Next
<1>6. ASSUME NEW w \in Worker, Done(w) PROVE UNCHANGED Execution!vars
  <2>1. /\ \A v \in Worker : v # w => held'[v] = held[v]
        /\ \A v \in Worker : pc'[v] = "taken" <=> pc[v] = "taken"
        /\ \A v \in Worker : pc'[v] = "running" <=> pc[v] = "running"
        /\ pc[w] = "release"
        /\ UNCHANGED <<queue, serial, main, current, cancelled, finished>>
    BY <1>6 DEF Done, Broadcast, mainVars
  <2>2. Taken' \subseteq Taken /\ Taken \subseteq Taken'
    BY <2>1 DEF Taken
  <2>3. Running' \subseteq Running /\ Running \subseteq Running'
    BY <2>1 DEF Running
  <2> QED
    BY <2>1, <2>2, <2>3 DEF Execution!vars
<1>7. CASE Cancel
  <2>1. /\ UNCHANGED <<queue, pc, held, serial, main, current, finished>>
        /\ cancelled' = TRUE
    BY <1>7 DEF Cancel, workerVars, mainVars
  <2>2. Taken' = Taken /\ Running' = Running
    BY <2>1 DEF Taken, Running
  <2>3. Execution!Cancel
    BY <2>1, <2>2 DEF Execution!Cancel
  <2> QED
    BY <2>3 DEF Execution!Next
<1>8. CASE Close
  <2>1. /\ \A v \in Worker : pc'[v] = "taken" <=> pc[v] = "taken"
        /\ \A v \in Worker : pc'[v] = "running" <=> pc[v] = "running"
        /\ cancelled /\ queue' = <<>>
        /\ UNCHANGED <<held, serial, main, current, cancelled, finished>>
    BY <1>8 DEF Close, Broadcast, mainVars
  <2>2. Taken' = Taken /\ Running' = Running /\ Entries(queue') = {}
    BY <2>1 DEF Taken, Running, Entries
  <2>3. W' \subseteq W
    BY <2>1, <2>2
  <2>4. W' = W \ (W \ W')
    BY <2>3
  <2>5. Execution!GiveUp
    BY <2>1, <2>2, <2>4 DEF Execution!GiveUp
  <2> QED
    BY <2>5 DEF Execution!Next
<1>9. CASE Join
  <2>1. /\ UNCHANGED <<queue, pc, held, serial, current, cancelled, finished>>
        /\ main = "wait" /\ main' = "serial"
    BY <1>9 DEF Join, workerVars
  <2>2. Taken' = Taken /\ Running' = Running
    BY <2>1 DEF Taken, Running
  <2> QED
    BY <2>1, <2>2 DEF Execution!vars
<1> DEFINE gone == \A v \in Worker : pc[v] = "exit"
<1>10. main # "wait" =>
         /\ gone /\ Taken = {} /\ Entries(queue) = {}
         /\ main # "running" => Running = {}
         /\ main = "running" => Running = {current}
  BY WorkerAssumption
     DEF ConservationInv, SerialAlone, ExclusionInv, ClassesHeld, Taken,
         Running, Entries
<1>11. CASE StartSerial
  <2>1. /\ UNCHANGED <<queue, pc, held, cancelled, finished>>
        /\ main = "serial" /\ main' = "running" /\ serial # <<>>
        /\ current' = Head(serial) /\ serial' = Tail(serial)
    BY <1>11 DEF StartSerial, workerVars
  <2>2. /\ Entries(serial') = Entries(serial) \ {current'}
        /\ current' \in Entries(serial)
    BY <2>1, TailEntries DEF ConservationInv, NoTestDuplicated
  <2>3. Entries(serial) \subseteq Serial
    BY DEF Entries
  <2>4. Taken' = {} /\ Running' = {current'}
    BY <2>1, <1>10 DEF Taken, Running
  <2>5. Execution!StartSerial(current')
    BY <2>1, <2>2, <2>3, <2>4, <1>10 DEF Execution!StartSerial
  <2> QED
    BY <2>2, <2>3, <2>5, SerialAssumption DEF Execution!Next
<1>12. CASE FinishSerial
  <2>1. /\ UNCHANGED <<queue, pc, held, serial, cancelled>>
        /\ main = "running" /\ main' = "serial"
        /\ finished' = finished \union {current} /\ current \in Test
    BY <1>12 DEF FinishSerial, workerVars
  <2>2. Taken' = Taken /\ Running' = {}
    BY <2>1, <1>10 DEF Taken, Running
  <2>3. Execution!Finish(current)
    BY <2>1, <2>2, <1>10 DEF Execution!Finish
  <2> QED
    BY <2>1, <2>3 DEF Execution!Next
<1>13. CASE Return
  <2>1. /\ UNCHANGED <<queue, pc, held, serial, current, cancelled, finished>>
        /\ main = "serial" /\ main' = "returned"
        /\ serial = <<>> \/ cancelled
    BY <1>13 DEF Return, workerVars
  <2>2. Running' = {}
    BY <2>1, <1>10 DEF Running
  <2>3. Entries(<<>>) = {}
    BY DEF Entries
  <2>4. Execution!Return
    BY <2>1, <2>2, <2>3, <1>10 DEF Execution!Return
  <2> QED
    BY <2>4 DEF Execution!Next
<1>14. CASE UNCHANGED vars
  <2>1. UNCHANGED <<queue, pc, held, serial, main, current, cancelled, finished>>
    BY <1>14 DEF vars, workerVars, mainVars
  <2>2. Taken' = Taken /\ Running' = Running
    BY <2>1 DEF Taken, Running
  <2> QED
    BY <2>1, <2>2 DEF Execution!vars
<1> QED
  BY <1>1, <1>2, <1>3, <1>4, <1>5, <1>6, <1>7, <1>8, <1>9, <1>11, <1>12,
     <1>13, <1>14 DEF Next, WorkerStep, MainStep

(* A queue just built is an execution none of whose tests has run.         *)
LEMMA ExecutionInit == Init => Execution!Init
<1> SUFFICES ASSUME Init PROVE Execution!Init
  OBVIOUS
<1>1. Taken = {} /\ Running = {} /\ Entries(serial) = {}
  BY DEF Init, Taken, Running, Entries
<1> QED
  BY <1>1, RingInit DEF Init, Execution!Init

(* The queue, with its ring, workers, lock and lossy condition variable,   *)
(* implements the abstract execution its callers rely on.                  *)
THEOREM QueueImplementsExecution == Spec => ImplementsExecution
<1>1. Spec => [](TypeOK /\ ExclusionInv /\ ConservationInv)
  BY TypeCorrect, Exclusion, Conservation, PTL
<1>2. TypeOK /\ ExclusionInv /\ ConservationInv /\ [Next]_vars
        => [Execution!Next]_Execution!vars
  BY ExecutionStep
<1> QED
  BY <1>1, <1>2, ExecutionInit, PTL DEF Spec, ImplementsExecution, Execution!Spec
=============================================================================
