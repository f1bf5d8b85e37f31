------------------------- MODULE ReportPortalProofs -------------------------
(***************************************************************************)
(* Theorems about ReportPortal, for any number of jobs, cases, teams,      *)
(* builds and faults.                                                      *)
(***************************************************************************)
EXTENDS ReportPortal, FiniteSetTheorems, SequenceTheorems, TLAPS

(* A non-empty set of numbers has a least one, which Min chooses.          *)
LEMMA MinIn ==
  ASSUME NEW S, S \subseteq Nat, S # {}
  PROVE  Min(S) \in S /\ \A y \in S : Min(S) <= y
<1> DEFINE Below(x) == {y \in S : y < x}
           F == {Below(x) : x \in S}
<1>0. \A y \in S : y \in Nat
  OBVIOUS
<1>1. F \subseteq FiniteSubsetsOf(S)
  <2>1. ASSUME NEW x \in S
        PROVE  Below(x) \in FiniteSubsetsOf(S)
    <3>1. \A y \in Below(x) : y \in 0 .. x
      BY <1>0
    <3>2. IsFiniteSet(0 .. x)
      BY FS_Interval
    <3>3. IsFiniteSet(Below(x))
      BY <3>1, <3>2, FS_Subset
    <3> QED
      BY <3>3 DEF FiniteSubsetsOf
  <2> QED
    BY <2>1
<1>2. F # {}
  OBVIOUS
<1>3. PICK T \in F : \A U \in F : ~(<<U, T>> \in StrictSubsetOrdering(S))
  <2> HIDE DEF F
  <2>1. IsWellFoundedOn(StrictSubsetOrdering(S), FiniteSubsetsOf(S))
    BY FS_StrictSubsetOrderingWellFounded
  <2> QED
    BY <1>1, <1>2, <2>1, WFMin
<1>4. PICK x \in S : T = Below(x)
  BY <1>3
<1>5. ASSUME NEW y \in S, y < x
      PROVE  FALSE
  <2>1. x \in Nat /\ y \in Nat
    BY <1>0
  <2>3. y \in Below(x) /\ y \notin Below(y)
    BY <1>5, <2>1
  <2>4. \A z \in Below(y) : z \in Below(x)
    BY <1>0, <1>5, <2>1
  <2>2. <<Below(y), Below(x)>> \in StrictSubsetOrdering(S)
    BY <2>3, <2>4 DEF StrictSubsetOrdering
  <2> QED
    BY <1>3, <1>4, <2>2
<1>6. \A y \in S : x <= y
  BY <1>0, <1>5
<1> QED
  BY <1>6 DEF Min

-----------------------------------------------------------------------------
LaunchRec == [golang : BOOLEAN, team : Team \cup {None}, nums : SUBSET Job,
              status : {"RUNNING", "PASSED", "FAILED"}]
ItemRec == [id : Nat, launch : Nat, case : Case, status : Status]
Client == [pc : Pcs, run : SUBSET Case, new : SUBSET Case, ask : SUBSET Nat,
           file : [Case -> Outcome \cup {None}], teams : SUBSET Team,
           team : Team \cup {None}, l : Nat, todo : SUBSET Case, cur : Nat,
           ids : SUBSET Nat, seen : SUBSET Nat, kept : SUBSET Case,
           nums : SUBSET Job, result : {"PASSED", "FAILED"}]

(* Where a client works on the results of a team, and where it has looked  *)
(* up or created the launch.                                               *)
Rerunning == {"get", "delete", "nums", "launch", "suite", "cases", "child", "finish"}
Holding == Rerunning \cup {"getid", "attrs"}
Reporting == Holding \cup {"import"}

ServerTypes ==
  /\ launch \in Seq(LaunchRec) /\ Len(launch) <= MaxLaunch
  /\ items \in 0 .. MaxItem
  /\ item \subseteq ItemRec
  /\ \A x \in item : x.id \in 1 .. items /\ x.launch \in 1 .. Len(launch)
  /\ \A x, y \in item : x.id = y.id => x = y
  /\ latest \in [Case -> Outcome \cup {None}]
  /\ faults \in 0 .. MaxFaults

(* What a client holds fits the server and the place it is at.             *)
ClientOK(j) ==
  /\ job[j].ids \subseteq 1 .. items /\ job[j].seen \subseteq 1 .. items
  /\ job[j].ask \subseteq 1 .. Len(launch)
  /\ job[j].l \in 0 .. Len(launch)
  /\ job[j].pc \in Holding => job[j].l # 0
  /\ job[j].pc = "delete" => job[j].ids # {}
  /\ job[j].pc \in {"get", "delete", "cases", "child"} => job[j].todo \subseteq FileCases(j)
  /\ job[j].pc \in {"delete", "child"} => job[j].cur \in FileCases(j)

TypeInv ==
  /\ ServerTypes
  /\ job \in [Job -> Client]
  /\ \A j \in Job : ClientOK(j)

(* While items of a case are deleted they are that case's items in the     *)
(* launch at hand; every item found is deleted, about to be or its case is *)
(* left alone; and an item being finished was started by this client.      *)
ReplaceOK(j) ==
  /\ job[j].pc \in Rerunning =>
       \A x \in item : x.id \in job[j].seen =>
         x.case \in job[j].kept \/ (job[j].pc = "delete" /\ x.id \in job[j].ids)
  /\ job[j].pc = "delete" =>
       \A x \in item : x.id \in job[j].ids => x.launch = job[j].l /\ x.case = job[j].cur
  /\ job[j].pc = "child" =>
       \A x \in item : x.id \in job[j].ids => x.status = "OPEN" /\ x.case = job[j].cur

(* No two clients finish the same item.                                    *)
ChildrenApart ==
  \A j, k \in Job : j # k /\ job[j].pc = "child" /\ job[k].pc = "child"
                    => job[j].ids \cap job[k].ids = {}

Inv == TypeInv /\ (\A j \in Job : ReplaceOK(j)) /\ ChildrenApart

(* What one client does to the items: new ones have new numbers, the one   *)
(* it finishes gets a status, others stay or go.                           *)
ItemFrame(j) ==
  /\ items <= items'
  /\ \A x \in item' :
       \/ x.id \in items + 1 .. items'
       \/ x \in item
       \/ /\ job[j].pc = "child" /\ x.id \in job[j].ids
          /\ \E y \in item : y.id = x.id /\ y.launch = x.launch /\ y.case = x.case

(* The record of one client changes.                                       *)
Only(j) == job' \in [Job -> Client] /\ \A k \in Job : k # j => job'[k] = job[k]

(* A step of client j: the others keep what they hold.                     *)
StepOK(j) ==
  /\ ServerTypes' /\ Len(launch) <= Len(launch')
  /\ job' \in [Job -> Client]
  /\ \A k \in Job : k # j => job'[k] = job[k]
  /\ ClientOK(j)' /\ ReplaceOK(j)' /\ ItemFrame(j)
  /\ job'[j].pc = "child" => job'[j].ids = {items + 1}

(* What the constants are.                                                 *)
LEMMA Constants ==
  /\ NCase \in Nat /\ Case = 1 .. NCase /\ \A c \in Case : c \in Nat
  /\ IsFiniteSet(Case)
  /\ \A c \in Case : TeamOf[c] \in Team
  /\ None \notin Team /\ None \notin Outcome /\ "OPEN" \notin Outcome
  /\ MaxLaunch \in Nat /\ MaxItem \in Nat /\ MaxFaults \in Nat
  /\ \A j \in Job : CasesOf[j] \subseteq Case
  /\ \A b \in Budgets : b \in [Job -> Nat]
  BY ReportPortalAssumption, CallsAssumption, FS_Interval DEF Case, Team, None

(* A call is answered, answered with an error or not answered; without a   *)
(* fault it is answered.                                                   *)
LEMMA Calling ==
  ASSUME faults \in 0 .. MaxFaults, NEW a \in Answer, Count(a)
  PROVE  /\ a \in {"ok", "error", "lost"}
         /\ faults' \in 0 .. MaxFaults /\ faults <= faults'
         /\ a # "ok" => faults' = faults + 1
         /\ a = "ok" => faults' = faults
<1>1. a # "ok" => faults < MaxFaults /\ a \in {"error", "lost"}
  BY DEF Answer
<1> QED
  BY <1>1, CallsAssumption DEF Count

(* A call that only reads is answered, or fails.                           *)
LEMMA Reading ==
  ASSUME NEW a \in ReadAnswer
  PROVE  a \in Answer /\ a \in {"ok", "error"}
  BY DEF ReadAnswer, Answer

(* The cases a client reports for a team are finitely many.                *)
LEMMA FileCasesFinite ==
  ASSUME NEW j \in Job, items \in Nat
  PROVE  /\ FileCases(j) \subseteq Case /\ IsFiniteSet(FileCases(j))
         /\ Cardinality(FileCases(j)) \in Nat
         /\ \A c \in FileCases(j) :
              items + Cardinality({d \in FileCases(j) : d <= c})
                \in items + 1 .. items + Cardinality(FileCases(j))
<1>1. FileCases(j) \subseteq Case
  BY DEF FileCases
<1>2. IsFiniteSet(FileCases(j))
  BY <1>1, Constants, FS_Subset
<1>3. Cardinality(FileCases(j)) \in Nat
  BY <1>2, FS_CardinalityType
<1>4. ASSUME NEW c \in FileCases(j)
      PROVE  Cardinality({d \in FileCases(j) : d <= c}) \in 1 .. Cardinality(FileCases(j))
  <2> DEFINE D == {d \in FileCases(j) : d <= c}
  <2>1. c \in D
    BY <1>1, Constants
  <2>2. D \subseteq FileCases(j)
    OBVIOUS
  <2> HIDE DEF D
  <2>3. IsFiniteSet(D) /\ Cardinality(D) <= Cardinality(FileCases(j))
    BY <1>2, <2>2, FS_Subset
  <2>4. Cardinality(D) \in Nat /\ Cardinality(D) # 0
    BY <2>1, <2>3, FS_CardinalityType, FS_EmptySet
  <2>5. Cardinality(D) \in 1 .. Cardinality(FileCases(j))
    BY <1>3, <2>3, <2>4
  <2> QED
    BY <2>5 DEF D
<1>5. ASSUME NEW c \in FileCases(j)
      PROVE  items + Cardinality({d \in FileCases(j) : d <= c})
               \in items + 1 .. items + Cardinality(FileCases(j))
  BY <1>3, <1>4
<1> QED
  BY <1>1, <1>2, <1>3, <1>5

(* A launch is appended or changed in place; others keep what they have.   *)
LEMMA LaunchChange ==
  ASSUME launch \in Seq(LaunchRec), NEW l \in 1 .. Len(launch), NEW r \in LaunchRec
  PROVE  /\ [launch EXCEPT ![l] = r] \in Seq(LaunchRec)
         /\ Len([launch EXCEPT ![l] = r]) = Len(launch)
         /\ launch[l] \in LaunchRec
         /\ [launch EXCEPT ![l] = r][l] = r
         /\ \A m \in 1 .. Len(launch) : m # l => [launch EXCEPT ![l] = r][m] = launch[m]
  BY ExceptSeq, ElementOfSeq

(* A launch that is appended comes after the others, which stay the same.  *)
LEMMA LaunchAdded ==
  ASSUME launch \in Seq(LaunchRec), NEW r \in LaunchRec
  PROVE  /\ Append(launch, r) \in Seq(LaunchRec)
         /\ Len(Append(launch, r)) = Len(launch) + 1
         /\ \A m \in 1 .. Len(launch) : Append(launch, r)[m] = launch[m]
         /\ Append(launch, r)[Len(launch) + 1] = r
  OBVIOUS

-----------------------------------------------------------------------------
(* A step of one client leaves the invariant of the others alone.          *)
LEMMA StepKeeps ==
  ASSUME Inv, NEW j \in Job, StepOK(j)
  PROVE  Inv'
<1>0. /\ items \in Nat /\ items' \in Nat /\ Len(launch) \in Nat /\ Len(launch') \in Nat
      /\ items <= items' /\ Len(launch) <= Len(launch')
  <2>1. launch \in Seq(LaunchRec) /\ launch' \in Seq(LaunchRec)
    BY DEF Inv, TypeInv, StepOK, ServerTypes
  <2>2. items \in Nat /\ items' \in Nat
    BY Constants DEF Inv, TypeInv, StepOK, ServerTypes
  <2> QED
    BY <2>1, <2>2, LenProperties DEF StepOK, ItemFrame
<1>1. ASSUME NEW k \in Job, k # j
      PROVE  ClientOK(k)' /\ ReplaceOK(k)'
  <2>1. job'[k] = job[k]
    BY <1>1 DEF StepOK
  <2>2. ClientOK(k) /\ ReplaceOK(k)
    BY DEF Inv, TypeInv
  <2>3. job[k].ids \subseteq 1 .. items /\ job[k].seen \subseteq 1 .. items
    BY <2>2 DEF ClientOK
  <2>4. FileCases(k)' = FileCases(k)
    BY <2>1 DEF FileCases
  <2>5. ClientOK(k)'
    BY <1>0, <2>1, <2>2, <2>4 DEF ClientOK
  <2>6. ASSUME NEW x \in item', x.id \in job[k].ids \cup job[k].seen
        PROVE  \E y \in item : /\ y.id = x.id /\ y.launch = x.launch /\ y.case = x.case
                               /\ x = y \/ (job[j].pc = "child" /\ x.id \in job[j].ids)
    <3>1. x.id \notin items + 1 .. items'
      BY <1>0, <2>3, <2>6
    <3> QED
      BY <3>1 DEF StepOK, ItemFrame
  <2>7. ASSUME job[k].pc = "child", NEW x \in item', x.id \in job[k].ids
        PROVE  x \in item
    <3>1. job[j].pc = "child" => x.id \notin job[j].ids
      BY <1>1, <2>7 DEF Inv, ChildrenApart
    <3> QED
      BY <2>6, <2>7, <3>1
  <2>8. ReplaceOK(k)'
    BY <2>1, <2>2, <2>6, <2>7 DEF ReplaceOK
  <2> QED
    BY <2>5, <2>8
<1>2. ChildrenApart'
  <2>1. ASSUME NEW k \in Job, k # j, job'[j].pc = "child", job'[k].pc = "child"
        PROVE  job'[j].ids \cap job'[k].ids = {}
    <3>1. job'[j].ids = {items + 1} /\ job'[k] = job[k]
      BY <2>1 DEF StepOK
    <3>2. job[k].ids \subseteq 1 .. items
      BY DEF Inv, TypeInv, ClientOK
    <3>3. items + 1 \notin 1 .. items
      BY <1>0
    <3> QED
      BY <3>1, <3>2, <3>3
  <2>2. ASSUME NEW k \in Job, NEW m \in Job, k # j, m # j, k # m,
               job'[m].pc = "child", job'[k].pc = "child"
        PROVE  job'[m].ids \cap job'[k].ids = {}
    BY <2>2 DEF StepOK, Inv, ChildrenApart
  <2> QED
    BY <2>1, <2>2 DEF ChildrenApart
<1>3. ClientOK(j)' /\ ReplaceOK(j)'
  BY DEF StepOK
<1>4. (\A k \in Job : ClientOK(k))' /\ (\A k \in Job : ReplaceOK(k))'
  BY <1>1, <1>3
<1> QED
  BY <1>2, <1>4 DEF StepOK, Inv, TypeInv

(* One field of one client is changed.                                     *)
LEMMA Update ==
  ASSUME NEW f \in [Job -> Client], NEW j \in Job
  PROVE  /\ \A x \in Pcs : [f EXCEPT ![j].pc = x] \in [Job -> Client]
         /\ \A x \in SUBSET Case : /\ [f EXCEPT ![j].run = x] \in [Job -> Client]
                                   /\ [f EXCEPT ![j].new = x] \in [Job -> Client]
                                   /\ [f EXCEPT ![j].todo = x] \in [Job -> Client]
                                   /\ [f EXCEPT ![j].kept = x] \in [Job -> Client]
         /\ \A x \in SUBSET Nat : /\ [f EXCEPT ![j].ask = x] \in [Job -> Client]
                                  /\ [f EXCEPT ![j].ids = x] \in [Job -> Client]
                                  /\ [f EXCEPT ![j].seen = x] \in [Job -> Client]
         /\ \A x \in Nat : /\ [f EXCEPT ![j].l = x] \in [Job -> Client]
                           /\ [f EXCEPT ![j].cur = x] \in [Job -> Client]
         /\ \A x \in Team \cup {None} : [f EXCEPT ![j].team = x] \in [Job -> Client]
         /\ \A x \in SUBSET Team : [f EXCEPT ![j].teams = x] \in [Job -> Client]
         /\ \A x \in SUBSET Job : [f EXCEPT ![j].nums = x] \in [Job -> Client]
         /\ \A x \in {"PASSED", "FAILED"} : [f EXCEPT ![j].result = x] \in [Job -> Client]
         /\ \A x \in Client : [f EXCEPT ![j] = x] \in [Job -> Client]
<1>1. \A x \in Pcs : [f EXCEPT ![j].pc = x] \in [Job -> Client]
  BY DEF Client
<1>2. \A x \in SUBSET Case : [f EXCEPT ![j].run = x] \in [Job -> Client]
  BY DEF Client
<1>3. \A x \in SUBSET Case : [f EXCEPT ![j].new = x] \in [Job -> Client]
  BY DEF Client
<1>4. \A x \in SUBSET Case : [f EXCEPT ![j].todo = x] \in [Job -> Client]
  BY DEF Client
<1>5. ASSUME NEW x \in SUBSET Case
      PROVE  [f EXCEPT ![j].kept = x] \in [Job -> Client]
  <2>1. f[j] \in Client
    OBVIOUS
  <2>2. [f[j] EXCEPT !.kept = x] \in Client
    BY <2>1 DEF Client
  <2> QED
    BY <2>2
<1>6. \A x \in SUBSET Nat : [f EXCEPT ![j].ask = x] \in [Job -> Client]
  BY DEF Client
<1>7. \A x \in SUBSET Nat : [f EXCEPT ![j].ids = x] \in [Job -> Client]
  BY DEF Client
<1>8. \A x \in SUBSET Nat : [f EXCEPT ![j].seen = x] \in [Job -> Client]
  BY DEF Client
<1>9. \A x \in Nat : [f EXCEPT ![j].l = x] \in [Job -> Client]
  BY DEF Client
<1>10. \A x \in Nat : [f EXCEPT ![j].cur = x] \in [Job -> Client]
  BY DEF Client
<1>11. \A x \in Team \cup {None} : [f EXCEPT ![j].team = x] \in [Job -> Client]
  BY DEF Client
<1>12. \A x \in SUBSET Team : [f EXCEPT ![j].teams = x] \in [Job -> Client]
  BY DEF Client
<1>13. \A x \in SUBSET Job : [f EXCEPT ![j].nums = x] \in [Job -> Client]
  BY DEF Client
<1>14. \A x \in {"PASSED", "FAILED"} : [f EXCEPT ![j].result = x] \in [Job -> Client]
  BY DEF Client
<1>15. \A x \in Client : [f EXCEPT ![j] = x] \in [Job -> Client]
  OBVIOUS
<1> QED
  BY <1>1, <1>2, <1>3, <1>4, <1>5, <1>6, <1>7, <1>8, <1>9, <1>10, <1>11, <1>12, <1>13,
     <1>14, <1>15

(* A step that leaves the server alone.                                    *)
LEMMA ServerStays ==
  ASSUME Inv, NEW j \in Job, UNCHANGED server, faults' \in 0 .. MaxFaults,
         latest' \in [Case -> Outcome \cup {None}]
  PROVE  ServerTypes' /\ Len(launch) <= Len(launch') /\ ItemFrame(j)
<1>1. ServerTypes
  BY DEF Inv, TypeInv
<1>2. Len(launch) \in Nat
  BY <1>1, LenProperties DEF ServerTypes
<1>3. items \in Nat
  BY <1>1, Constants DEF ServerTypes
<1>4. launch' = launch /\ items' = items /\ item' = item
  BY DEF server
<1> QED
  BY <1>1, <1>2, <1>3, <1>4 DEF ServerTypes, ItemFrame

(* An idle client holds nothing.                                           *)
LEMMA IdleClient ==
  /\ Idle \in Client
  /\ \A j \in Job : job' \in [Job -> Client] /\ job'[j] = Idle =>
       /\ items' \in Nat /\ Len(launch') \in Nat => ClientOK(j)'
       /\ ReplaceOK(j)'
  BY DEF Idle, Client, Pcs, ClientOK, ReplaceOK, Rerunning, Holding

(* The facts about a client that the steps below start from.               *)
LEMMA Facts ==
  ASSUME Inv, NEW j \in Job
  PROVE  /\ job \in [Job -> Client] /\ job[j] \in Client
         /\ ClientOK(j) /\ ReplaceOK(j)
         /\ launch \in Seq(LaunchRec) /\ Len(launch) \in Nat /\ Len(launch) <= MaxLaunch
         /\ items \in Nat /\ items <= MaxItem /\ item \subseteq ItemRec
         /\ \A x \in item : x.id \in 1 .. items /\ x.launch \in 1 .. Len(launch)
         /\ \A x, y \in item : x.id = y.id => x = y
         /\ latest \in [Case -> Outcome \cup {None}]
         /\ faults \in 0 .. MaxFaults
<1>1. launch \in Seq(LaunchRec)
  BY DEF Inv, TypeInv, ServerTypes
<1>2. Len(launch) \in Nat
  BY <1>1, LenProperties
<1> QED
  BY <1>1, <1>2, Constants DEF Inv, TypeInv, ServerTypes

(* A step that leaves the server alone and the client without a launch.    *)
LEMMA Quiet ==
  ASSUME Inv, NEW j \in Job, UNCHANGED server, faults' \in 0 .. MaxFaults,
         latest' \in [Case -> Outcome \cup {None}], Only(j),
         job'[j].ids \subseteq job[j].ids, job'[j].seen \subseteq job[j].seen,
         job'[j].l \in {0, job[j].l}, job'[j].ask \subseteq 1 .. Len(launch),
         job'[j].pc \notin Holding
  PROVE  StepOK(j)
<1>1. ServerTypes' /\ Len(launch) <= Len(launch') /\ ItemFrame(j)
  BY ServerStays
<1>2. launch' = launch /\ items' = items
  BY DEF server
<1>3. ClientOK(j)
  BY Facts
<1>4. ClientOK(j)' /\ ReplaceOK(j)' /\ job'[j].pc # "child"
  BY <1>2, <1>3, Facts DEF ClientOK, ReplaceOK, Holding, Rerunning
<1> QED
  BY <1>1, <1>4 DEF StepOK, Only

(* A client that ends its build, or is killed, holds nothing.              *)
LEMMA ToIdle ==
  ASSUME Inv, NEW j \in Job, UNCHANGED <<server, latest>>, faults' \in 0 .. MaxFaults,
         job' = [job EXCEPT ![j] = Idle]
  PROVE  StepOK(j)
<1>1. job' \in [Job -> Client] /\ job'[j] = Idle
  BY Facts, IdleClient
<1>2. Only(j)
  BY <1>1 DEF Only
<1>3. /\ job'[j].ids = {} /\ job'[j].seen = {} /\ job'[j].l = 0 /\ job'[j].ask = {}
      /\ job'[j].pc = "idle"
  BY <1>1 DEF Idle
<1> QED
  BY <1>2, <1>3, Facts, Quiet DEF Holding, Rerunning

(* A client that keeps the whole scenario goes on to execute it.           *)
LEMMA ToWhole ==
  ASSUME Inv, NEW j \in Job, UNCHANGED <<server, latest>>, faults' \in 0 .. MaxFaults,
         job' = WholeScenario(j)
  PROVE  StepOK(j)
<1>1. job \in [Job -> Client] /\ CasesOf[j] \in SUBSET Case /\ "execute" \in Pcs
  BY Facts, Constants DEF Pcs
<1>2. job' \in [Job -> Client]
  BY <1>1, Update DEF WholeScenario
<1>3. Only(j)
  BY <1>1, <1>2 DEF Only, WholeScenario
<1>4. /\ job'[j].pc = "execute" /\ job'[j].ids = job[j].ids /\ job'[j].seen = job[j].seen
      /\ job'[j].ask = job[j].ask /\ job'[j].l = job[j].l
  BY <1>1 DEF WholeScenario, Client
<1> QED
  BY <1>3, <1>4, Facts, Quiet DEF Holding, Rerunning, ClientOK

(***************************************************************************)
(* Each action, in the order of the specification, is a step of one client *)
(* that leaves the invariant true (StepOK).                                *)
(***************************************************************************)
(* A build starts.                                                         *)
LEMMA StartBuildKeeps ==
  ASSUME Inv, NEW j \in Job, StartBuild(j)
  PROVE  StepOK(j)
<1>1. UNCHANGED <<server, latest>> /\ faults' \in 0 .. MaxFaults
  BY Facts DEF StartBuild
<1>2. CASE job' = WholeScenario(j)
  BY <1>1, <1>2, ToWhole
<1>3. CASE job' = [job EXCEPT ![j].pc = "check"]
  <2>1. job \in [Job -> Client] /\ "check" \in Pcs
    BY Facts DEF Pcs
  <2>2. job' \in [Job -> Client]
    BY <1>3, <2>1, Update
  <2>3. Only(j)
    BY <1>3, <2>1, <2>2 DEF Only
  <2>4. /\ job'[j].pc = "check" /\ job'[j].ids = job[j].ids /\ job'[j].seen = job[j].seen
        /\ job'[j].ask = job[j].ask /\ job'[j].l = job[j].l
    BY <1>3, <2>1 DEF Client
  <2> QED
    BY <1>1, <2>3, <2>4, Facts, Quiet DEF Holding, Rerunning, ClientOK
<1>4. job' = [job EXCEPT ![j].pc = "check"] \/ job' = WholeScenario(j)
  BY DEF StartBuild
<1> QED
  BY <1>2, <1>3, <1>4

(* The launches that hold results of the job are kept to be asked.         *)
LEMMA CheckLaunchesKeeps ==
  ASSUME Inv, NEW j \in Job, CheckLaunches(j)
  PROVE  StepOK(j)
<1>1. UNCHANGED <<server, latest>> /\ faults' \in 0 .. MaxFaults
  BY Facts, Calling, Reading DEF CheckLaunches
<1>2. CASE job' = WholeScenario(j)
  BY <1>1, <1>2, ToWhole
<1>3. ASSUME NEW S \in SUBSET (1 .. Len(launch)), NEW T \in SUBSET Case,
             job' = [job EXCEPT ![j].pc = "ask", ![j].ask = S, ![j].new = T]
      PROVE  StepOK(j)
  <2>1. job \in [Job -> Client] /\ "ask" \in Pcs /\ S \in SUBSET Nat
    BY Facts DEF Pcs
  <2>2. job' \in [Job -> Client]
    <3>1. [job EXCEPT ![j].pc = "ask", ![j].ask = S] \in [Job -> Client]
      BY <2>1, Update
    <3>2. [[job EXCEPT ![j].pc = "ask", ![j].ask = S] EXCEPT ![j].new = T] \in [Job -> Client]
      BY <3>1, Update
    <3> QED
      BY <1>3, <3>2
  <2>3. Only(j)
    BY <1>3, <2>1, <2>2 DEF Only
  <2>4. /\ job'[j].pc = "ask" /\ job'[j].ids = job[j].ids /\ job'[j].seen = job[j].seen
        /\ job'[j].ask = S /\ job'[j].l = job[j].l
    BY <1>3, <2>1 DEF Client
  <2> QED
    BY <1>1, <2>3, <2>4, Facts, Quiet DEF Holding, Rerunning
<1>4. \/ job' = WholeScenario(j)
      \/ \E S \in SUBSET (1 .. Len(launch)), T \in SUBSET Case :
           job' = [job EXCEPT ![j].pc = "ask", ![j].ask = S, ![j].new = T]
  <2> DEFINE S == {l \in GolangLaunches : j \in launch[l].nums}
             T == CasesIn(CasesOf[j], TeamsOf(CasesOf[j]) \ {launch[l].team : l \in S})
  <2>1. S \in SUBSET (1 .. Len(launch)) /\ T \in SUBSET Case
    BY Constants DEF CasesIn, GolangLaunches, Launch
  <2>2. \/ job' = WholeScenario(j)
        \/ job' = [job EXCEPT ![j].pc = "ask", ![j].ask = S, ![j].new = T]
    BY DEF CheckLaunches
  <2> QED
    BY <2>1, <2>2
<1> QED
  BY <1>2, <1>3, <1>4

(* A launch is asked, passed over, or asking is given up.                  *)
LEMMA AskFailedKeeps ==
  ASSUME Inv, NEW j \in Job, AskFailed(j)
  PROVE  StepOK(j)
<1>1. UNCHANGED <<server, latest>> /\ faults' \in 0 .. MaxFaults
  BY Facts, Calling, Reading DEF AskFailed
<1>2. CASE job' = WholeScenario(j)
  BY <1>1, <1>2, ToWhole
<1>3. ASSUME NEW S \in SUBSET job[j].ask, NEW T \in SUBSET Case,
             job' = [job EXCEPT ![j].ask = S, ![j].run = T], At(j, "ask")
      PROVE  StepOK(j)
  <2>1. job \in [Job -> Client] /\ job[j].ask \subseteq 1 .. Len(launch)
    BY Facts DEF ClientOK
  <2>2. S \in SUBSET Nat
    BY <2>1
  <2>3. job' \in [Job -> Client]
    BY <1>3, <2>1, <2>2, Update
  <2>4. Only(j)
    BY <1>3, <2>1, <2>3 DEF Only
  <2>5. /\ job'[j].pc = job[j].pc /\ job'[j].ids = job[j].ids /\ job'[j].seen = job[j].seen
        /\ job'[j].ask = S /\ job'[j].l = job[j].l
    BY <1>3, <2>1 DEF Client
  <2> QED
    BY <1>1, <1>3, <2>1, <2>4, <2>5, Facts, Quiet DEF Holding, Rerunning, At
<1>4. \/ job' = WholeScenario(j)
      \/ \E S \in SUBSET job[j].ask, T \in SUBSET Case :
           job' = [job EXCEPT ![j].ask = S, ![j].run = T]
  <2>1. PICK a \in ReadAnswer, exception \in BOOLEAN :
          job' = IF exception THEN WholeScenario(j)
                 ELSE [job EXCEPT ![j].ask = @ \ {Min(job[j].ask)},
                         ![j].run = IF a = "ok" THEN @ \cup FailedIn(Min(job[j].ask)) ELSE @]
    BY DEF AskFailed
  <2> DEFINE T == IF a = "ok" THEN job[j].run \cup FailedIn(Min(job[j].ask)) ELSE job[j].run
  <2>2. job[j].run \subseteq Case /\ \A x \in item : x.case \in Case
    BY Facts DEF Client, ItemRec
  <2>3. T \in SUBSET Case
    BY <2>2 DEF FailedIn
  <2>4. \/ job' = WholeScenario(j)
        \/ job' = [job EXCEPT ![j].ask = job[j].ask \ {Min(job[j].ask)}, ![j].run = T]
    BY <2>1, Facts
  <2> QED
    BY <2>3, <2>4
<1> QED
  BY <1>2, <1>3, <1>4 DEF AskFailed

(* The build ends or executes what was chosen.                             *)
LEMMA ChooseKeeps ==
  ASSUME Inv, NEW j \in Job, Choose(j)
  PROVE  StepOK(j)
<1>1. UNCHANGED <<server, latest>> /\ faults' \in 0 .. MaxFaults
  BY Facts DEF Choose
<1>2. CASE job' = [job EXCEPT ![j] = Idle]
  BY <1>1, <1>2, ToIdle
<1>3. CASE job' = [job EXCEPT ![j].pc = "execute", ![j].run = @ \cup job[j].new]
  <2>1. job \in [Job -> Client] /\ "execute" \in Pcs
    BY Facts DEF Pcs
  <2>2. job[j].run \cup job[j].new \in SUBSET Case
    BY <2>1 DEF Client
  <2>3. job' = [job EXCEPT ![j].pc = "execute", ![j].run = job[j].run \cup job[j].new]
    BY <1>3, <2>1 DEF Client
  <2>4. job' \in [Job -> Client]
    BY <2>1, <2>2, <2>3, Update
  <2>5. Only(j)
    BY <1>3, <2>1, <2>4 DEF Only
  <2>6. /\ job'[j].pc = "execute" /\ job'[j].ids = job[j].ids /\ job'[j].seen = job[j].seen
        /\ job'[j].ask = job[j].ask /\ job'[j].l = job[j].l
    BY <2>3, <2>1 DEF Client
  <2> QED
    BY <1>1, <2>5, <2>6, Facts, Quiet DEF Holding, Rerunning, ClientOK
<1> QED
  BY <1>2, <1>3 DEF Choose

(* The tests leave a file with the outcome of what was run.                *)
LEMMA ExecuteKeeps ==
  ASSUME Inv, NEW j \in Job, Execute(j)
  PROVE  StepOK(j)
<1>1. PICK out \in [job[j].run \cap CasesOf[j] -> Outcome] :
        /\ latest' = [c \in Case |-> IF c \in DOMAIN out THEN out[c] ELSE latest[c]]
        /\ job' = [job EXCEPT ![j] = [Idle EXCEPT !.pc = "report",
                     !.file = [c \in Case |-> IF c \in DOMAIN out THEN out[c] ELSE None],
                     !.teams = TeamsOf(DOMAIN out)]]
  BY DEF Execute
<1> DEFINE F == [c \in Case |-> IF c \in DOMAIN out THEN out[c] ELSE None]
           r == [Idle EXCEPT !.pc = "report", !.file = F, !.teams = TeamsOf(DOMAIN out)]
<1>2. DOMAIN out \subseteq Case
  BY Constants
<1>3. latest' \in [Case -> Outcome \cup {None}] /\ F \in [Case -> Outcome \cup {None}]
  BY <1>1, <1>2, Facts
<1>4. TeamsOf(DOMAIN out) \subseteq Team
  BY <1>2, Constants DEF TeamsOf
<1>5. /\ r \in Client /\ r.ids = {} /\ r.seen = {} /\ r.l = 0 /\ r.ask = {} /\ r.pc = "report"
  <2> HIDE DEF F
  <2> QED
    BY <1>3, <1>4 DEF Idle, Client, Pcs
<1> HIDE DEF F, r
<1>6. job' = [job EXCEPT ![j] = r]
  BY <1>1 DEF F, r
<1>7. Only(j) /\ job'[j] = r
  BY <1>5, <1>6, Facts DEF Only
<1>8. UNCHANGED server /\ faults' \in 0 .. MaxFaults
  BY Facts DEF Execute
<1> QED
  BY <1>3, <1>5, <1>7, <1>8, Facts, Quiet DEF Holding, Rerunning

(* All teams are reported.                                                 *)
LEMMA EndBuildKeeps ==
  ASSUME Inv, NEW j \in Job, EndBuild(j)
  PROVE  StepOK(j)
  BY ToIdle, Facts DEF EndBuild

(* The build is aborted.                                                   *)
LEMMA KillKeeps ==
  ASSUME Inv, NEW j \in Job, Kill(j)
  PROVE  StepOK(j)
<1>1. faults' \in 0 .. MaxFaults
  BY Facts, Constants DEF Kill, Die
<1> QED
  BY <1>1, ToIdle DEF Kill

(* A launch is found and its rerun begins, or the file is imported.        *)
LEMMA LogResultKeeps ==
  ASSUME Inv, NEW j \in Job, LogResult(j)
  PROVE  StepOK(j)
<1>1. UNCHANGED <<server, latest>> /\ faults' \in 0 .. MaxFaults
  BY Facts, Calling, Reading DEF LogResult
<1>2. job \in [Job -> Client] /\ job[j].teams \subseteq Team
  BY Facts DEF Client
<1>3. ASSUME NEW t \in job[j].teams,
             job' = [job EXCEPT ![j].pc = "import", ![j].team = t, ![j].teams = @ \ {t}]
      PROVE  StepOK(j)
  <2>1. /\ "import" \in Pcs /\ t \in Team \cup {None} /\ job[j].teams \ {t} \in SUBSET Team
        /\ job' = [job EXCEPT ![j].pc = "import", ![j].team = t, ![j].teams = job[j].teams \ {t}]
    BY <1>2, <1>3 DEF Pcs, Client
  <2>2. [job EXCEPT ![j].pc = "import", ![j].team = t] \in [Job -> Client]
    BY <1>2, <2>1, Update
  <2>3. job' \in [Job -> Client]
    BY <2>1, <2>2, Update
  <2>4. Only(j)
    BY <1>2, <2>1, <2>3 DEF Only
  <2>5. /\ job'[j].pc = "import" /\ job'[j].ids = job[j].ids /\ job'[j].seen = job[j].seen
        /\ job'[j].ask = job[j].ask /\ job'[j].l = job[j].l
    BY <1>2, <2>1 DEF Client
  <2> QED
    BY <1>1, <2>4, <2>5, Facts, Quiet DEF Holding, Rerunning, ClientOK
<1>4. ASSUME NEW t \in job[j].teams, NEW l \in FoundLaunches(t),
             job' = [job EXCEPT ![j].pc = "get", ![j].team = t, ![j].teams = @ \ {t},
                        ![j].l = l, ![j].seen = {}, ![j].kept = {}, ![j].result = "PASSED",
                        ![j].todo = {c \in Case : job[j].file[c] # None /\ TeamOf[c] = t}]
      PROVE  StepOK(j)
  <2> DEFINE S == {c \in Case : job[j].file[c] # None /\ TeamOf[c] = t}
  <2>1. l \in 1 .. Len(launch) /\ l \in Nat
    BY Facts DEF FoundLaunches, LaunchesOf, GolangLaunches, Launch
  <2>2. /\ "get" \in Pcs /\ t \in Team \cup {None} /\ job[j].teams \ {t} \in SUBSET Team
        /\ {} \in SUBSET Nat /\ {} \in SUBSET Case /\ "PASSED" \in {"PASSED", "FAILED"}
    BY <1>2 DEF Pcs
  <2>3. S \in SUBSET Case
    BY <1>4
  <2> DEFINE f1 == [job EXCEPT ![j].pc = "get", ![j].team = t, ![j].teams = @ \ {t}]
             f2 == [f1 EXCEPT ![j].l = l, ![j].seen = {}]
             f3 == [f2 EXCEPT ![j].kept = {}, ![j].result = "PASSED"]
  <2>4. job' = [f3 EXCEPT ![j].todo = S]
    BY <1>4
  <2>5. f1 \in [Job -> Client] /\ f1[j].file = job[j].file /\ f1[j].team = t
        /\ f1[j].pc = "get" /\ f1[j].ask = job[j].ask /\ f1[j].ids = job[j].ids
        /\ \A k \in Job : k # j => f1[k] = job[k]
    <3>1. [job EXCEPT ![j].pc = "get", ![j].team = t] \in [Job -> Client]
      BY <1>2, <2>2, Update
    <3>2. f1 = [[job EXCEPT ![j].pc = "get", ![j].team = t] EXCEPT ![j].teams = job[j].teams \ {t}]
      BY <1>2 DEF Client
    <3>3. f1 \in [Job -> Client]
      BY <2>2, <3>1, <3>2, Update
    <3>4. /\ f1[j].file = job[j].file /\ f1[j].team = t /\ f1[j].pc = "get"
          /\ f1[j].ask = job[j].ask /\ f1[j].ids = job[j].ids
      BY <1>2 DEF Client
    <3> QED
      BY <1>2, <3>3, <3>4
  <2> HIDE DEF f1
  <2>6. f2 \in [Job -> Client] /\ f2[j].file = job[j].file /\ f2[j].team = t
        /\ f2[j].pc = "get" /\ f2[j].ask = job[j].ask /\ f2[j].ids = job[j].ids
        /\ f2[j].l = l /\ f2[j].seen = {}
        /\ \A k \in Job : k # j => f2[k] = job[k]
    <3>1. f2 \in [Job -> Client]
      BY <2>1, <2>2, <2>5, Update
    <3>2. f2[j].file = job[j].file /\ f2[j].team = t
        /\ f2[j].pc = "get" /\ f2[j].ask = job[j].ask /\ f2[j].ids = job[j].ids
        /\ f2[j].l = l /\ f2[j].seen = {}
      BY <2>5 DEF Client
    <3> QED
      BY <2>5, <3>1, <3>2
  <2> HIDE DEF f2
  <2>7. f3 \in [Job -> Client] /\ f3[j].file = job[j].file /\ f3[j].team = t
        /\ f3[j].pc = "get" /\ f3[j].ask = job[j].ask /\ f3[j].ids = job[j].ids
        /\ f3[j].l = l /\ f3[j].seen = {}
        /\ \A k \in Job : k # j => f3[k] = job[k]
    <3>1. f3 \in [Job -> Client]
      BY <2>2, <2>6, Update
    <3>2. f3[j].file = job[j].file /\ f3[j].team = t
        /\ f3[j].pc = "get" /\ f3[j].ask = job[j].ask /\ f3[j].ids = job[j].ids
        /\ f3[j].l = l /\ f3[j].seen = {}
      BY <2>6 DEF Client
    <3> QED
      BY <2>6, <3>1, <3>2
  <2> HIDE DEF f3
  <2>8. job' \in [Job -> Client]
    BY <2>3, <2>4, <2>7, Update
  <2>9. Only(j)
    BY <2>4, <2>7, <2>8 DEF Only
  <2>10. job'[j].file = job[j].file /\ job'[j].team = t
        /\ job'[j].pc = "get" /\ job'[j].ask = job[j].ask /\ job'[j].ids = job[j].ids
        /\ job'[j].l = l /\ job'[j].seen = {} /\ job'[j].todo = S
    BY <2>4, <2>7 DEF Client
  <2>11. ServerTypes' /\ Len(launch) <= Len(launch') /\ ItemFrame(j)
    BY <1>1, Facts, ServerStays
  <2>12. job'[j].todo \subseteq FileCases(j)'
    BY <1>4, <2>10 DEF FileCases
  <2>13. ClientOK(j)'
    BY <1>1, <2>1, <2>10, <2>12, Facts DEF ClientOK, server
  <2>14. ReplaceOK(j)'
    BY <2>10 DEF ReplaceOK
  <2> QED
    BY <2>9, <2>10, <2>11, <2>13, <2>14 DEF StepOK, Only
<1>5. PICK t \in job[j].teams :
        \/ job' = [job EXCEPT ![j].pc = "import", ![j].team = t, ![j].teams = @ \ {t}]
        \/ \E l \in FoundLaunches(t) :
             job' = [job EXCEPT ![j].pc = "get", ![j].team = t, ![j].teams = @ \ {t},
                        ![j].l = l, ![j].seen = {}, ![j].kept = {}, ![j].result = "PASSED",
                        ![j].todo = {c \in Case : job[j].file[c] # None /\ TeamOf[c] = t}]
  BY DEF LogResult
<1>6. CASE job' = [job EXCEPT ![j].pc = "import", ![j].team = t, ![j].teams = @ \ {t}]
  BY <1>3, <1>6
<1>7. CASE \E l \in FoundLaunches(t) :
             job' = [job EXCEPT ![j].pc = "get", ![j].team = t, ![j].teams = @ \ {t},
                        ![j].l = l, ![j].seen = {}, ![j].kept = {}, ![j].result = "PASSED",
                        ![j].todo = {c \in Case : job[j].file[c] # None /\ TeamOf[c] = t}]
  BY <1>4, <1>7
<1> QED
  BY <1>5, <1>6, <1>7

(* A step that changes nothing on the server but one launch in place.      *)
LEMMA LaunchSet ==
  ASSUME Inv, NEW j \in Job, UNCHANGED <<item, items, latest>>, faults' \in 0 .. MaxFaults,
         NEW l \in 1 .. Len(launch), NEW r \in LaunchRec,
         launch' = launch \/ launch' = [launch EXCEPT ![l] = r]
  PROVE  ServerTypes' /\ Len(launch') = Len(launch) /\ ItemFrame(j)
<1>1. launch' \in Seq(LaunchRec) /\ Len(launch') = Len(launch)
  BY Facts, LaunchChange
<1>2. ServerTypes
  BY DEF Inv, TypeInv
<1>3. items \in Nat
  BY Facts
<1> QED
  BY <1>1, <1>2, <1>3 DEF ServerTypes, ItemFrame

(* Such a step moves a client on, or back to the report.                   *)
LEMMA MoveOn ==
  ASSUME Inv, NEW j \in Job, ServerTypes', Len(launch) = Len(launch'), items' = items, item' = item,
         ItemFrame(j), NEW p \in Pcs,
         p \in (Holding \ {"get", "delete", "cases", "child"}) \cup {"report"},
         job[j].pc \in Holding, job[j].pc = "delete" => FALSE,
         p \in Rerunning => job[j].pc \in Rerunning,
         job' = [job EXCEPT ![j].pc = p]
  PROVE  StepOK(j)
<1>1. job \in [Job -> Client]
  BY Facts
<1>2. job' \in [Job -> Client]
  BY <1>1, Update
<1>3. Only(j)
  BY <1>1, <1>2 DEF Only
<1>4. /\ job'[j].pc = p /\ job'[j].ids = job[j].ids /\ job'[j].seen = job[j].seen
      /\ job'[j].ask = job[j].ask /\ job'[j].l = job[j].l /\ job'[j].kept = job[j].kept
  BY <1>1 DEF Client
<1>5. p \notin {"get", "delete", "cases", "child"}
  BY DEF Holding, Rerunning
<1>6. ClientOK(j)'
  BY <1>4, <1>5, Facts DEF ClientOK
<1>7. ReplaceOK(j)'
  BY <1>4, <1>5, Facts DEF ReplaceOK
<1>8. Len(launch) <= Len(launch')
  BY Facts
<1> QED
  BY <1>3, <1>4, <1>5, <1>6, <1>7, <1>8 DEF StepOK, Only

(* The launch that was imported is found, or not.                          *)
LEMMA GetLaunchIdKeeps ==
  ASSUME Inv, NEW j \in Job, GetLaunchId(j)
  PROVE  StepOK(j)
<1>1. UNCHANGED <<server, latest>> /\ faults' \in 0 .. MaxFaults
  BY Facts, Calling, Reading DEF GetLaunchId
<1>2. PICK p \in {"attrs", "report"} : job' = [job EXCEPT ![j].pc = p]
  BY DEF GetLaunchId
<1>3. job[j].pc = "getid"
  BY DEF GetLaunchId, At
<1>4. /\ p \in Pcs /\ p \in (Holding \ {"get", "delete", "cases", "child"}) \cup {"report"}
      /\ job[j].pc \in Holding /\ p \notin Rerunning
  BY <1>3 DEF Pcs, Holding, Rerunning
<1>5. ServerTypes' /\ ItemFrame(j)
  BY <1>1, Facts, ServerStays
<1>6. Len(launch) = Len(launch') /\ items' = items /\ item' = item
  BY <1>1 DEF server
<1> QED
  BY <1>2, <1>3, <1>4, <1>5, <1>6, MoveOn

(* The imported launch gets its attributes.                                *)
LEMMA AddAttributesKeeps ==
  ASSUME Inv, NEW j \in Job, AddAttributes(j)
  PROVE  StepOK(j)
<1>1. UNCHANGED <<item, items, latest>> /\ faults' \in 0 .. MaxFaults
  BY Facts, Calling DEF AddAttributes
<1>2. job[j].pc = "attrs"
  BY DEF AddAttributes, At
<1>3. job[j].l \in 1 .. Len(launch)
  BY <1>2, Facts DEF ClientOK, Holding
<1> DEFINE l == job[j].l
           r == [launch[l] EXCEPT !.golang = TRUE, !.nums = {j}, !.team = job[j].team]
<1>4. launch' = launch \/ launch' = [launch EXCEPT ![l] = r]
  BY <1>3, Facts DEF AddAttributes, Here
<1>5. r \in LaunchRec
  <2>1. launch[l] \in LaunchRec
    BY <1>3, Facts, ElementOfSeq
  <2>2. job[j].team \in Team \cup {None}
    BY Facts DEF Client
  <2> QED
    BY <2>1, <2>2 DEF LaunchRec
<1> HIDE DEF r
<1>6. ServerTypes' /\ Len(launch') = Len(launch) /\ ItemFrame(j)
  BY <1>1, <1>3, <1>4, <1>5, LaunchSet
<1>7. job' = [job EXCEPT ![j].pc = "report"]
  BY DEF AddAttributes
<1>8. "report" \in Pcs /\ "report" \notin Rerunning /\ job[j].pc \in Holding
  BY <1>2 DEF Pcs, Rerunning, Holding
<1> QED
  BY <1>1, <1>2, <1>6, <1>7, <1>8, MoveOn

(* The build numbers of the launch are read.                               *)
LEMMA ReadBuildNumsKeeps ==
  ASSUME Inv, NEW j \in Job, ReadBuildNums(j)
  PROVE  StepOK(j)
<1>1. UNCHANGED <<server, latest>> /\ faults' \in 0 .. MaxFaults
  BY Facts, Calling, Reading DEF ReadBuildNums
<1>2. job[j].pc = "get"
  BY DEF ReadBuildNums, At
<1>3. job \in [Job -> Client] /\ job[j].l \in 1 .. Len(launch)
  BY <1>2, Facts DEF ClientOK, Holding, Rerunning
<1> DEFINE nums == launch[job[j].l].nums
<1>4. nums \in SUBSET Job
  <2>1. launch[job[j].l] \in LaunchRec
    BY <1>3, Facts, ElementOfSeq
  <2> QED
    BY <2>1 DEF LaunchRec
<1> HIDE DEF nums
<1>5. PICK p \in {"launch", "nums"} : job' = [job EXCEPT ![j].nums = nums, ![j].pc = p]
  BY DEF ReadBuildNums, Here, nums
<1>6. "launch" \in Pcs /\ "nums" \in Pcs
  BY DEF Pcs
<1>7. job' \in [Job -> Client]
  BY <1>3, <1>4, <1>5, <1>6, Update
<1>8. Only(j)
  BY <1>3, <1>5, <1>7 DEF Only
<1>9. /\ job'[j].pc = p /\ job'[j].ids = job[j].ids /\ job'[j].seen = job[j].seen
      /\ job'[j].ask = job[j].ask /\ job'[j].l = job[j].l /\ job'[j].kept = job[j].kept
  BY <1>3, <1>5 DEF Client
<1>10. ServerTypes' /\ Len(launch) <= Len(launch') /\ ItemFrame(j)
  BY <1>1, Facts, ServerStays
<1>11. launch' = launch /\ items' = items /\ item' = item
  BY <1>1 DEF server
<1>12. ClientOK(j)'
  BY <1>2, <1>3, <1>5, <1>9, <1>11, Facts DEF ClientOK
<1>13. ReplaceOK(j)'
  BY <1>2, <1>5, <1>9, <1>11, Facts DEF ReplaceOK, Rerunning
<1> QED
  BY <1>5, <1>8, <1>9, <1>10, <1>12, <1>13 DEF StepOK, Only

(* The build number is added to the launch.                                *)
LEMMA AddBuildNumKeeps ==
  ASSUME Inv, NEW j \in Job, AddBuildNum(j)
  PROVE  StepOK(j)
<1>1. UNCHANGED <<item, items, latest>> /\ faults' \in 0 .. MaxFaults
  BY Facts, Calling DEF AddBuildNum
<1>2. job[j].pc = "nums"
  BY DEF AddBuildNum, At
<1>3. job[j].l \in 1 .. Len(launch)
  BY <1>2, Facts DEF ClientOK, Holding, Rerunning
<1> DEFINE l == job[j].l
           r == [launch[l] EXCEPT !.nums = launch[l].nums \cup {j}]
<1>4. launch[l] \in LaunchRec
  BY <1>3, Facts, ElementOfSeq
<1>5. r \in LaunchRec
  BY <1>4 DEF LaunchRec
<1>6. launch' = launch \/ launch' = [launch EXCEPT ![l] = r]
  BY <1>3, <1>4, Facts DEF AddBuildNum, Here, LaunchRec
<1> HIDE DEF r
<1>7. ServerTypes' /\ Len(launch') = Len(launch) /\ ItemFrame(j)
  BY <1>1, <1>3, <1>5, <1>6, LaunchSet
<1>8. job' = [job EXCEPT ![j].pc = "launch"]
  BY DEF AddBuildNum
<1>9. "launch" \in Pcs /\ job[j].pc \in Rerunning /\ "launch" \in Holding /\ job[j].pc \in Holding
  BY <1>2 DEF Pcs, Rerunning, Holding
<1> QED
  BY <1>1, <1>2, <1>7, <1>8, <1>9, MoveOn

(* The launch is started again.                                            *)
LEMMA StartLaunchKeeps ==
  ASSUME Inv, NEW j \in Job, StartLaunch(j)
  PROVE  StepOK(j)
<1>1. UNCHANGED <<item, items, latest>> /\ faults' \in 0 .. MaxFaults
  BY Facts, Calling DEF StartLaunch
<1>2. job[j].pc = "launch"
  BY DEF StartLaunch, At
<1>3. job[j].l \in 1 .. Len(launch)
  BY <1>2, Facts DEF ClientOK, Holding, Rerunning
<1> DEFINE l == job[j].l
           r == [launch[l] EXCEPT !.status = "RUNNING"]
<1>4. launch[l] \in LaunchRec
  BY <1>3, Facts, ElementOfSeq
<1>5. r \in LaunchRec
  BY <1>4 DEF LaunchRec
<1>6. launch' = launch \/ launch' = [launch EXCEPT ![l] = r]
  BY <1>3, Facts DEF StartLaunch, Here
<1> HIDE DEF r
<1>7. ServerTypes' /\ Len(launch') = Len(launch) /\ ItemFrame(j)
  BY <1>1, <1>3, <1>5, <1>6, LaunchSet
<1>8. PICK p \in {"suite", "report"} : job' = [job EXCEPT ![j].pc = p]
  BY DEF StartLaunch
<1>9. /\ p \in Pcs /\ job[j].pc \in Rerunning /\ job[j].pc \in Holding
      /\ p \in (Holding \ {"get", "delete", "cases", "child"}) \cup {"report"}
  BY <1>2 DEF Pcs, Rerunning, Holding
<1> QED
  BY <1>1, <1>2, <1>7, <1>8, <1>9, MoveOn

(* The suite is finished.                                                  *)
LEMMA FinishSuiteKeeps ==
  ASSUME Inv, NEW j \in Job, FinishSuite(j)
  PROVE  StepOK(j)
<1>1. UNCHANGED <<server, latest>> /\ faults' \in 0 .. MaxFaults
  BY Facts, Calling DEF FinishSuite
<1>2. job[j].pc = "cases"
  BY DEF FinishSuite, At
<1>3. job' = [job EXCEPT ![j].pc = "finish"]
  BY DEF FinishSuite
<1>4. "finish" \in Pcs /\ "finish" \in Holding /\ job[j].pc \in Rerunning /\ job[j].pc \in Holding
  BY <1>2 DEF Pcs, Rerunning, Holding
<1>5. ServerTypes' /\ ItemFrame(j)
  BY <1>1, Facts, ServerStays
<1>6. Len(launch) = Len(launch') /\ items' = items /\ item' = item
  BY <1>1 DEF server
<1> QED
  BY <1>2, <1>3, <1>4, <1>5, <1>6, MoveOn

(* The launch is finished with the result of the rerun.                    *)
LEMMA FinishLaunchKeeps ==
  ASSUME Inv, NEW j \in Job, FinishLaunch(j)
  PROVE  StepOK(j)
<1>1. UNCHANGED <<item, items, latest>> /\ faults' \in 0 .. MaxFaults
  BY Facts, Calling DEF FinishLaunch
<1>2. job[j].pc = "finish"
  BY DEF FinishLaunch, At
<1>3. job[j].l \in 1 .. Len(launch)
  BY <1>2, Facts DEF ClientOK, Holding, Rerunning
<1> DEFINE l == job[j].l
           r == [launch[l] EXCEPT !.status = job[j].result]
<1>4. launch[l] \in LaunchRec /\ job[j].result \in {"PASSED", "FAILED"}
  BY <1>3, Facts, ElementOfSeq DEF Client
<1>5. r \in LaunchRec
  BY <1>4 DEF LaunchRec
<1>6. launch' = launch \/ launch' = [launch EXCEPT ![l] = r]
  BY <1>3, Facts DEF FinishLaunch, Here
<1> HIDE DEF r
<1>7. ServerTypes' /\ Len(launch') = Len(launch) /\ ItemFrame(j)
  BY <1>1, <1>3, <1>5, <1>6, LaunchSet
<1>8. job' = [job EXCEPT ![j].pc = "report"]
  BY DEF FinishLaunch
<1>9. "report" \in Pcs /\ "report" \notin Rerunning /\ job[j].pc \in Holding
  BY <1>2 DEF Pcs, Rerunning, Holding
<1> QED
  BY <1>1, <1>2, <1>7, <1>8, <1>9, MoveOn

(* A suite is started, and the cases of the file are to be added.          *)
LEMMA StartSuiteKeeps ==
  ASSUME Inv, NEW j \in Job, StartSuite(j)
  PROVE  StepOK(j)
<1>1. UNCHANGED <<server, latest>> /\ faults' \in 0 .. MaxFaults
  BY Facts, Calling DEF StartSuite
<1>2. job[j].pc = "suite" /\ job \in [Job -> Client]
  BY Facts DEF StartSuite, At
<1>3. ServerTypes' /\ Len(launch) <= Len(launch') /\ ItemFrame(j)
  BY <1>1, Facts, ServerStays
<1>4. launch' = launch /\ items' = items /\ item' = item
  BY <1>1 DEF server
<1>5. CASE job' = [job EXCEPT ![j].pc = "cases", ![j].todo = FileCases(j)]
  <2>1. FileCases(j) \in SUBSET Case /\ "cases" \in Pcs
    BY DEF FileCases, Pcs
  <2>2. job' \in [Job -> Client]
    BY <1>2, <1>5, <2>1, Update
  <2>3. Only(j)
    BY <1>2, <1>5, <2>2 DEF Only
  <2>4. /\ job'[j].pc = "cases" /\ job'[j].ids = job[j].ids /\ job'[j].seen = job[j].seen
        /\ job'[j].ask = job[j].ask /\ job'[j].l = job[j].l /\ job'[j].kept = job[j].kept
        /\ job'[j].file = job[j].file /\ job'[j].team = job[j].team
        /\ job'[j].todo = FileCases(j)
    BY <1>2, <1>5 DEF Client
  <2>5. FileCases(j)' = FileCases(j)
    BY <2>4 DEF FileCases
  <2>6. ClientOK(j)'
    BY <1>2, <1>4, <2>4, <2>5, Facts DEF ClientOK, Holding, Rerunning
  <2>7. ReplaceOK(j)'
    BY <1>2, <1>4, <2>4, Facts DEF ReplaceOK, Rerunning
  <2> QED
    BY <1>3, <2>3, <2>4, <2>6, <2>7 DEF StepOK, Only
<1>6. CASE job' = [job EXCEPT ![j].pc = "finish"]
  <2>1. "finish" \in Pcs /\ "finish" \in Holding /\ job[j].pc \in Rerunning /\ job[j].pc \in Holding
    BY <1>2 DEF Pcs, Rerunning, Holding
  <2> QED
    BY <1>2, <1>3, <1>4, <1>6, <2>1, MoveOn
<1> QED
  BY <1>5, <1>6 DEF StartSuite

(* The items of the next case are looked up.                               *)
LEMMA GetChildKeeps ==
  ASSUME Inv, NEW j \in Job, GetChild(j)
  PROVE  StepOK(j)
<1>1. UNCHANGED <<server, latest>> /\ faults' \in 0 .. MaxFaults
  BY Facts, Calling, Reading DEF GetChild
<1>2. job[j].pc = "get" /\ job \in [Job -> Client] /\ job[j].todo # {}
  BY Facts DEF GetChild, At
<1>3. ServerTypes' /\ Len(launch) <= Len(launch') /\ ItemFrame(j)
  BY <1>1, Facts, ServerStays
<1>4. launch' = launch /\ items' = items /\ item' = item
  BY <1>1 DEF server
<1> DEFINE c == Min(job[j].todo)
<1>5. c \in job[j].todo /\ c \in Case /\ c \in Nat /\ job[j].todo \subseteq FileCases(j)
  <2>1. job[j].todo \subseteq Nat /\ job[j].todo \subseteq Case
    BY <1>2, Constants DEF Client
  <2>2. c \in job[j].todo
    BY <1>2, <2>1, MinIn
  <2> QED
    BY <1>2, <2>1, <2>2, Facts DEF ClientOK
<1>6. PICK found \in {{}, {i.id : i \in ItemsOf(Here(j), c)}} :
        job' = [job EXCEPT ![j].pc = IF found = {} THEN "get" ELSE "delete",
                  ![j].cur = c, ![j].ids = found, ![j].todo = @ \ {c},
                  ![j].seen = @ \cup found]
  BY DEF GetChild
<1> HIDE DEF c
<1>7. /\ found \subseteq 1 .. items /\ found \in SUBSET Nat
      /\ \A x \in item : x.id \in found => \E y \in item : y.id = x.id /\ y.launch = job[j].l /\ y.case = c
  BY <1>6, Facts DEF ItemsOf, Here, ItemRec
<1> DEFINE p == IF found = {} THEN "get" ELSE "delete"
           T == job[j].todo \ {c}
           S == job[j].seen \cup found
           f1 == [job EXCEPT ![j].pc = p, ![j].cur = c]
           f2 == [f1 EXCEPT ![j].ids = found, ![j].todo = T]
<1>8. p \in Pcs /\ T \in SUBSET Case /\ S \in SUBSET Nat
  BY <1>2, <1>7 DEF Pcs, Client
<1>9. job' = [f2 EXCEPT ![j].seen = S]
  BY <1>2, <1>6 DEF Client
<1> HIDE DEF p, T, S
<1>10. /\ f1 \in [Job -> Client] /\ f1[j].pc = p /\ f1[j].cur = c /\ f1[j].file = job[j].file
       /\ f1[j].team = job[j].team /\ f1[j].l = job[j].l /\ f1[j].kept = job[j].kept
       /\ f1[j].ask = job[j].ask /\ \A k \in Job : k # j => f1[k] = job[k]
  <2>1. f1 \in [Job -> Client]
    BY <1>2, <1>5, <1>8, Update
  <2>2. /\ f1[j].pc = p /\ f1[j].cur = c /\ f1[j].file = job[j].file
        /\ f1[j].team = job[j].team /\ f1[j].l = job[j].l /\ f1[j].kept = job[j].kept
        /\ f1[j].ask = job[j].ask
    BY <1>2 DEF Client
  <2> QED
    BY <1>2, <2>1, <2>2
<1> HIDE DEF f1
<1>11. /\ f2 \in [Job -> Client] /\ f2[j].pc = p /\ f2[j].cur = c /\ f2[j].file = job[j].file
       /\ f2[j].team = job[j].team /\ f2[j].l = job[j].l /\ f2[j].kept = job[j].kept
       /\ f2[j].ask = job[j].ask /\ f2[j].ids = found /\ f2[j].todo = T
       /\ \A k \in Job : k # j => f2[k] = job[k]
  <2>1. f2 \in [Job -> Client]
    BY <1>7, <1>8, <1>10, Update
  <2>2. /\ f2[j].pc = p /\ f2[j].cur = c /\ f2[j].file = job[j].file
        /\ f2[j].team = job[j].team /\ f2[j].l = job[j].l /\ f2[j].kept = job[j].kept
        /\ f2[j].ask = job[j].ask /\ f2[j].ids = found /\ f2[j].todo = T
    BY <1>10 DEF Client
  <2> QED
    BY <1>10, <2>1, <2>2
<1> HIDE DEF f2
<1>12. /\ Only(j) /\ job'[j].pc = p /\ job'[j].cur = c /\ job'[j].file = job[j].file
       /\ job'[j].team = job[j].team /\ job'[j].l = job[j].l /\ job'[j].kept = job[j].kept
       /\ job'[j].ask = job[j].ask /\ job'[j].ids = found /\ job'[j].todo = T
       /\ job'[j].seen = S
  <2>1. job' \in [Job -> Client]
    BY <1>8, <1>9, <1>11, Update
  <2>2. /\ job'[j].pc = p /\ job'[j].cur = c /\ job'[j].file = job[j].file
        /\ job'[j].team = job[j].team /\ job'[j].l = job[j].l /\ job'[j].kept = job[j].kept
        /\ job'[j].ask = job[j].ask /\ job'[j].ids = found /\ job'[j].todo = T
        /\ job'[j].seen = S
    BY <1>9, <1>11 DEF Client
  <2> QED
    BY <1>9, <1>11, <2>1, <2>2 DEF Only
<1>13. p \in {"get", "delete"} /\ (p = "delete" => found # {}) /\ (found # {} => p = "delete")
  BY DEF p
<1>14. FileCases(j)' = FileCases(j)
  BY <1>12 DEF FileCases
<1>15. ClientOK(j) /\ ReplaceOK(j)
  BY Facts
<1>16. ClientOK(j)'
  <2>1. T \subseteq FileCases(j) /\ S \subseteq 1 .. items
    BY <1>5, <1>7, <1>15 DEF T, S, ClientOK
  <2> QED
    BY <1>2, <1>4, <1>5, <1>7, <1>12, <1>13, <1>14, <1>15, <2>1 DEF ClientOK, Holding, Rerunning
<1>17. \A x \in item : x.id \in job[j].seen => x.case \in job[j].kept
  BY <1>2, <1>15 DEF ReplaceOK, Rerunning
<1>19. \A x \in item : x.id \in found => x.launch = job[j].l /\ x.case = c
  BY <1>7, Facts
<1>20. ReplaceOK(j)'
  BY <1>4, <1>12, <1>13, <1>17, <1>19 DEF ReplaceOK, Rerunning, S
<1> QED
  BY <1>3, <1>12, <1>13, <1>16, <1>20 DEF StepOK, Only

(* An item found is deleted, or its case is left alone.                    *)
LEMMA DeleteChildKeeps ==
  ASSUME Inv, NEW j \in Job, DeleteChild(j)
  PROVE  StepOK(j)
<1>1. UNCHANGED <<launch, items, latest>> /\ faults' \in 0 .. MaxFaults
  BY Facts, Calling DEF DeleteChild
<1>2. job[j].pc = "delete" /\ job \in [Job -> Client] /\ ClientOK(j) /\ ReplaceOK(j)
  BY Facts DEF DeleteChild, At
<1> DEFINE id == Min(job[j].ids)
           there == \E i \in item : i.id = id
<1>3. id \in job[j].ids
  <2>1. job[j].ids \subseteq Nat /\ job[j].ids # {}
    BY <1>2 DEF ClientOK, Client
  <2> QED
    BY <2>1, MinIn
<1>4. PICK a \in Answer :
        /\ item' = IF a = "error" THEN item ELSE {i \in item : i.id # id}
        /\ job' = [job EXCEPT ![j].ids = @ \ {id},
                     ![j].pc = IF job[j].ids = {id} THEN "get" ELSE "delete",
                     ![j].kept = IF a = "ok" /\ there THEN @ ELSE @ \cup {job[j].cur}]
  BY DEF DeleteChild
<1> HIDE DEF id, there
<1> DEFINE p == IF job[j].ids = {id} THEN "get" ELSE "delete"
           R == job[j].ids \ {id}
           K == IF a = "ok" /\ there THEN job[j].kept ELSE job[j].kept \cup {job[j].cur}
           f1 == [job EXCEPT ![j].ids = R, ![j].pc = p]
<1>5. job' = [f1 EXCEPT ![j].kept = K]
  BY <1>2, <1>4 DEF Client
<1>6. p \in Pcs /\ R \in SUBSET Nat /\ K \in SUBSET Case
  <2>1. job[j].cur \in Case /\ job[j].kept \subseteq Case /\ job[j].ids \subseteq Nat
    BY <1>2 DEF ClientOK, FileCases, Client
  <2> QED
    BY <2>1 DEF Pcs
<1> HIDE DEF p, R, K
<1>7. /\ f1 \in [Job -> Client] /\ f1[j].pc = p /\ f1[j].cur = job[j].cur
      /\ f1[j].file = job[j].file /\ f1[j].team = job[j].team /\ f1[j].l = job[j].l
      /\ f1[j].ask = job[j].ask /\ f1[j].ids = R /\ f1[j].todo = job[j].todo
      /\ f1[j].seen = job[j].seen /\ \A k \in Job : k # j => f1[k] = job[k]
  <2>1. f1 \in [Job -> Client]
    BY <1>2, <1>6, Update
  <2>2. /\ f1[j].pc = p /\ f1[j].cur = job[j].cur
        /\ f1[j].file = job[j].file /\ f1[j].team = job[j].team /\ f1[j].l = job[j].l
        /\ f1[j].ask = job[j].ask /\ f1[j].ids = R /\ f1[j].todo = job[j].todo
        /\ f1[j].seen = job[j].seen
    BY <1>2 DEF Client
  <2> QED
    BY <1>2, <2>1, <2>2
<1> HIDE DEF f1
<1>8. /\ Only(j) /\ job'[j].pc = p /\ job'[j].cur = job[j].cur
      /\ job'[j].file = job[j].file /\ job'[j].team = job[j].team /\ job'[j].l = job[j].l
      /\ job'[j].ask = job[j].ask /\ job'[j].ids = R /\ job'[j].todo = job[j].todo
      /\ job'[j].seen = job[j].seen /\ job'[j].kept = K
  <2>1. job' \in [Job -> Client]
    BY <1>5, <1>6, <1>7, Update
  <2>2. /\ job'[j].pc = p /\ job'[j].cur = job[j].cur
        /\ job'[j].file = job[j].file /\ job'[j].team = job[j].team /\ job'[j].l = job[j].l
        /\ job'[j].ask = job[j].ask /\ job'[j].ids = R /\ job'[j].todo = job[j].todo
        /\ job'[j].seen = job[j].seen /\ job'[j].kept = K
    BY <1>5, <1>7 DEF Client
  <2> QED
    BY <1>5, <1>7, <2>1, <2>2 DEF Only
<1>9. item' \subseteq item /\ (a # "error" => \A x \in item' : x.id # id)
  BY <1>4
<1>10. ServerTypes' /\ ItemFrame(j) /\ Len(launch) <= Len(launch')
  <2>1. ServerTypes /\ items \in Nat
    BY Facts DEF Inv, TypeInv
  <2>2. Len(launch) <= Len(launch')
    BY <1>1, Facts
  <2>3. ItemFrame(j)
    BY <1>1, <1>9, <2>1 DEF ItemFrame
  <2>4. launch' = launch /\ items' = items /\ latest' = latest
    BY <1>1
  <2>5. item' \subseteq ItemRec /\ (\A x \in item' : x.id \in 1 .. items /\ x.launch \in 1 .. Len(launch))
        /\ (\A x, y \in item' : x.id = y.id => x = y)
    BY <1>9, <2>1 DEF ServerTypes
  <2>6. ServerTypes'
    BY <1>1, <2>1, <2>4, <2>5 DEF ServerTypes
  <2> QED
    BY <2>2, <2>3, <2>6
<1>11. FileCases(j)' = FileCases(j)
  BY <1>8 DEF FileCases
<1>12. ClientOK(j)'
  <2>1. p \in {"get", "delete"} /\ (p = "delete" => R # {}) /\ R \subseteq 1 .. items
    BY <1>2, <1>3 DEF p, R, ClientOK
  <2> QED
    BY <1>1, <1>2, <1>8, <1>11, <2>1 DEF ClientOK, Holding, Rerunning
<1>13. p \in {"get", "delete"} /\ (p = "get" => R = {}) /\ (R # {} => p = "delete")
       /\ p # "child"
  BY DEF p, R
<1>14. ASSUME NEW x \in item', x.id \in job[j].seen
       PROVE  x.case \in K \/ (p = "delete" /\ x.id \in R)
  <2>1. x \in item
    BY <1>9
  <2>2. x.case \in job[j].kept \/ x.id \in job[j].ids
    BY <1>2, <1>14, <2>1 DEF ReplaceOK, Rerunning
  <2>3. CASE x.case \in job[j].kept
    BY <2>3 DEF K
  <2>4. CASE x.id \in job[j].ids /\ x.id # id
    BY <1>13, <2>4 DEF R
  <2>5. CASE x.id \in job[j].ids /\ x.id = id
    <3>1. x.case = job[j].cur
      BY <1>2, <2>1, <2>5 DEF ReplaceOK
    <3>2. a = "error"
      BY <1>9, <2>5
    <3> QED
      BY <3>1, <3>2 DEF K
  <2> QED
    BY <2>2, <2>3, <2>4, <2>5
<1>15. ASSUME NEW x \in item', x.id \in R
       PROVE  x.launch = job[j].l /\ x.case = job[j].cur
  BY <1>2, <1>9, <1>15 DEF ReplaceOK, R
<1>16. ReplaceOK(j)'
  BY <1>8, <1>13, <1>14, <1>15 DEF ReplaceOK
<1> QED
  BY <1>8, <1>10, <1>12, <1>13, <1>16 DEF StepOK, Only

(* The item of the case gets its status.                                   *)
LEMMA FinishChildKeeps ==
  ASSUME Inv, NEW j \in Job, FinishChild(j)
  PROVE  StepOK(j)
<1>1. UNCHANGED <<launch, items, latest>> /\ faults' \in 0 .. MaxFaults
  BY Facts, Calling DEF FinishChild
<1>2. job[j].pc = "child" /\ job \in [Job -> Client] /\ ClientOK(j) /\ ReplaceOK(j)
  BY Facts DEF FinishChild, At
<1>3. job' = [job EXCEPT ![j].pc = "cases", ![j].ids = {}]
  BY DEF FinishChild
<1>4. /\ Only(j) /\ job'[j].pc = "cases"
      /\ job'[j].file = job[j].file /\ job'[j].team = job[j].team /\ job'[j].l = job[j].l
      /\ job'[j].ask = job[j].ask /\ job'[j].ids = {} /\ job'[j].todo = job[j].todo
      /\ job'[j].seen = job[j].seen /\ job'[j].kept = job[j].kept
  <2>1. "cases" \in Pcs /\ {} \in SUBSET Nat
    BY DEF Pcs
  <2>2. job' \in [Job -> Client]
    BY <1>2, <1>3, <2>1, Update
  <2>3. /\ job'[j].pc = "cases"
        /\ job'[j].file = job[j].file /\ job'[j].team = job[j].team /\ job'[j].l = job[j].l
        /\ job'[j].ask = job[j].ask /\ job'[j].ids = {} /\ job'[j].todo = job[j].todo
        /\ job'[j].seen = job[j].seen /\ job'[j].kept = job[j].kept
    BY <1>2, <1>3 DEF Client
  <2> QED
    BY <1>2, <1>3, <2>2, <2>3 DEF Only
<1> DEFINE new(i) == IF i.id \in job[j].ids THEN [i EXCEPT !.status = StatusOf(j, i.case)] ELSE i
<1>5. item' = item \/ item' = {new(i) : i \in item}
  BY DEF FinishChild
<1>6. ASSUME NEW i \in item
      PROVE  /\ new(i) \in ItemRec /\ new(i).id = i.id /\ new(i).launch = i.launch
             /\ new(i).case = i.case /\ (i.id \notin job[j].ids => new(i) = i)
  <2>1. i \in ItemRec
    BY Facts
  <2>2. CASE i.id \in job[j].ids
    <3>1. i.case \in FileCases(j)
      BY <1>2, <2>2 DEF ClientOK, ReplaceOK
    <3>2. job[j].file[i.case] \in Outcome
      BY <1>2, <3>1 DEF FileCases, Client
    <3>3. StatusOf(j, i.case) \in Status
      BY <3>2 DEF StatusOf, Status
    <3>4. [i EXCEPT !.status = StatusOf(j, i.case)] \in ItemRec
      BY <2>1, <3>3 DEF ItemRec
    <3>5. /\ [i EXCEPT !.status = StatusOf(j, i.case)].id = i.id
          /\ [i EXCEPT !.status = StatusOf(j, i.case)].launch = i.launch
          /\ [i EXCEPT !.status = StatusOf(j, i.case)].case = i.case
      BY <2>1 DEF ItemRec
    <3> QED
      BY <2>2, <3>4, <3>5
  <2>3. CASE i.id \notin job[j].ids
    BY <2>1, <2>3
  <2> QED
    BY <2>2, <2>3
<1> HIDE DEF new
<1>7. \A x \in item' : /\ x \in ItemRec
                       /\ \E y \in item : /\ y.id = x.id /\ y.launch = x.launch /\ y.case = x.case
                                          /\ x = y \/ (x = new(y) /\ x.id \in job[j].ids)
  BY <1>5, <1>6, Facts
<1>8. \A x, y \in item' : x.id = y.id => x = y
  <2>1. CASE item' = item
    BY <2>1, Facts
  <2>2. CASE item' = {new(i) : i \in item}
    <3>1. ASSUME NEW i \in item, NEW k \in item, new(i).id = new(k).id
          PROVE  i = k
      BY <1>6, <3>1, Facts
    <3> QED
      BY <2>2, <3>1
  <2> QED
    BY <1>5, <2>1, <2>2
<1>9. ServerTypes' /\ ItemFrame(j) /\ Len(launch) <= Len(launch')
  <2>1. ServerTypes /\ items \in Nat
    BY Facts DEF Inv, TypeInv
  <2>2. Len(launch) <= Len(launch')
    BY <1>1, Facts
  <2>3. ItemFrame(j)
    BY <1>1, <1>2, <1>7, <2>1 DEF ItemFrame
  <2>4. item' \subseteq ItemRec /\ (\A x \in item' : x.id \in 1 .. items /\ x.launch \in 1 .. Len(launch))
    BY <1>7, <2>1 DEF ServerTypes
  <2>5. ServerTypes'
    BY <1>1, <1>8, <2>1, <2>4 DEF ServerTypes
  <2> QED
    BY <2>2, <2>3, <2>5
<1>10. FileCases(j)' = FileCases(j)
  BY <1>4 DEF FileCases
<1>11. ClientOK(j)'
  BY <1>1, <1>2, <1>4, <1>10 DEF ClientOK, Holding, Rerunning
<1>12. \A x \in item' : x.id \in job[j].seen => x.case \in job[j].kept
  BY <1>2, <1>7 DEF ReplaceOK, Rerunning
<1>13. ReplaceOK(j)'
  BY <1>4, <1>12 DEF ReplaceOK
<1> QED
  BY <1>4, <1>9, <1>11, <1>13 DEF StepOK, Only

(* One more item on the server.                                            *)
LEMMA ItemAdded ==
  ASSUME Inv, NEW j \in Job, UNCHANGED <<launch, latest>>, faults' \in 0 .. MaxFaults,
         NEW r \in ItemRec, r.id = items + 1, r.launch \in 1 .. Len(launch),
         items < MaxItem, item' = item \cup {r}, items' = items + 1
  PROVE  ServerTypes' /\ Len(launch) <= Len(launch') /\ ItemFrame(j)
<1>1. ServerTypes /\ items \in Nat /\ Len(launch) \in Nat
  BY Facts DEF Inv, TypeInv
<1>2. ItemFrame(j)
  BY <1>1 DEF ItemFrame
<1>3. \A x \in item : x.id \in 1 .. items
  BY Facts
<1>4. item' \subseteq ItemRec /\ (\A x \in item' : x.id \in 1 .. items + 1 /\ x.launch \in 1 .. Len(launch))
  BY <1>1, <1>3 DEF ServerTypes
<1>5. \A x, y \in item' : x.id = y.id => x = y
  <2>1. \A x \in item : x.id # r.id
    BY <1>1, <1>3
  <2> QED
    BY <2>1, Facts
<1>6. items + 1 \in 0 .. MaxItem
  BY <1>1, Constants
<1> QED
  BY <1>1, <1>2, <1>4, <1>5, <1>6 DEF ServerTypes

(* The next case gets an item, unless it is left alone.                    *)
LEMMA StartChildKeeps ==
  ASSUME Inv, NEW j \in Job, StartChild(j)
  PROVE  StepOK(j)
<1>1. /\ job[j].pc = "cases" /\ job \in [Job -> Client] /\ ClientOK(j) /\ ReplaceOK(j)
      /\ job[j].todo # {} /\ items < MaxItem /\ UNCHANGED <<launch, latest>>
  BY Facts DEF StartChild, At
<1> DEFINE c == Min(job[j].todo)
           result == IF job[j].file[c] = "FAILED" THEN "FAILED" ELSE job[j].result
<1>2. c \in job[j].todo /\ c \in FileCases(j) /\ c \in Case /\ c \in Nat
  <2>1. job[j].todo \subseteq Nat /\ job[j].todo \subseteq Case
    BY <1>1, Constants DEF Client
  <2>2. c \in job[j].todo
    BY <1>1, <2>1, MinIn
  <2> QED
    BY <1>1, <2>1, <2>2 DEF ClientOK
<1>3. result \in {"PASSED", "FAILED"}
  BY <1>1 DEF Client
<1>4. PICK a \in Answer :
        IF LeftAlone(j, c)
        THEN /\ a = "ok"
             /\ job' = [job EXCEPT ![j].todo = @ \ {c}, ![j].result = result]
             /\ UNCHANGED <<item, items, faults>>
        ELSE /\ Count(a)
             /\ IF a = "error" THEN UNCHANGED <<item, items>>
                ELSE /\ item' = item \cup {[id |-> items + 1, launch |-> Here(j), case |-> c,
                                            status |-> "OPEN"]}
                     /\ items' = items + 1
             /\ job' = [job EXCEPT ![j].pc = IF a = "ok" THEN "child" ELSE "cases", ![j].cur = c,
                          ![j].ids = IF a = "ok" THEN {items + 1} ELSE {},
                          ![j].todo = @ \ {c}, ![j].result = result]
  BY DEF StartChild
<1> HIDE DEF c, result
<1>5. CASE LeftAlone(j, c)
  <2>1. /\ job' = [job EXCEPT ![j].todo = job[j].todo \ {c}, ![j].result = result]
        /\ UNCHANGED <<server, latest, faults>>
    BY <1>1, <1>4, <1>5 DEF Client, server
  <2>2. /\ Only(j) /\ job'[j].pc = "cases"
        /\ job'[j].file = job[j].file /\ job'[j].team = job[j].team /\ job'[j].l = job[j].l
        /\ job'[j].ask = job[j].ask /\ job'[j].ids = job[j].ids /\ job'[j].todo = job[j].todo \ {c}
        /\ job'[j].seen = job[j].seen /\ job'[j].kept = job[j].kept
    <3>1. job[j].todo \ {c} \in SUBSET Case
      BY <1>1 DEF Client
    <3>2. job' \in [Job -> Client]
      BY <1>1, <1>3, <2>1, <3>1, Update
    <3>3. /\ job'[j].pc = "cases"
          /\ job'[j].file = job[j].file /\ job'[j].team = job[j].team /\ job'[j].l = job[j].l
          /\ job'[j].ask = job[j].ask /\ job'[j].ids = job[j].ids /\ job'[j].todo = job[j].todo \ {c}
          /\ job'[j].seen = job[j].seen /\ job'[j].kept = job[j].kept
      BY <1>1, <2>1 DEF Client
    <3> QED
      BY <1>1, <2>1, <3>2, <3>3 DEF Only
  <2>3. ServerTypes' /\ ItemFrame(j) /\ Len(launch) <= Len(launch')
    BY <2>1, Facts, ServerStays
  <2>4. launch' = launch /\ item' = item /\ items' = items
    BY <2>1 DEF server
  <2>5. FileCases(j)' = FileCases(j)
    BY <2>2 DEF FileCases
  <2>6. ClientOK(j)'
    BY <1>1, <2>2, <2>4, <2>5 DEF ClientOK, Holding, Rerunning
  <2>7. ReplaceOK(j)'
    BY <1>1, <2>2, <2>4 DEF ReplaceOK, Rerunning
  <2> QED
    BY <2>2, <2>3, <2>6, <2>7 DEF StepOK, Only
<1>6. CASE ~LeftAlone(j, c)
  <2> DEFINE p == IF a = "ok" THEN "child" ELSE "cases"
             I == IF a = "ok" THEN {items + 1} ELSE {}
             T == job[j].todo \ {c}
             r == [id |-> items + 1, launch |-> Here(j), case |-> c, status |-> "OPEN"]
             f1 == [job EXCEPT ![j].pc = p, ![j].cur = c]
             f2 == [f1 EXCEPT ![j].ids = I, ![j].todo = T]
  <2>1. /\ p \in Pcs /\ I \in SUBSET Nat /\ T \in SUBSET Case /\ T \subseteq FileCases(j)
        /\ p \in {"child", "cases"} /\ (p = "child" => a = "ok" /\ I = {items + 1})
        /\ I \subseteq 1 .. items + 1 /\ (a # "ok" => I = {})
    BY <1>1, Facts DEF Pcs, Client, ClientOK
  <2>2. job' = [f2 EXCEPT ![j].result = result]
    BY <1>1, <1>4, <1>6 DEF Client
  <2>3. /\ faults' \in 0 .. MaxFaults
        /\ IF a = "error" THEN item' = item /\ items' = items
           ELSE item' = item \cup {r} /\ items' = items + 1
    BY <1>4, <1>6, Facts, Calling
  <2>4. r \in ItemRec /\ r.id = items + 1 /\ r.launch = job[j].l /\ r.case = c /\ r.status = "OPEN"
        /\ r.launch \in 1 .. Len(launch)
    BY <1>1, <1>2, Facts DEF ItemRec, Status, Here, ClientOK, Holding, Rerunning, Client
  <2> HIDE DEF p, I, T, r
  <2>5. /\ f1 \in [Job -> Client] /\ f1[j].pc = p /\ f1[j].cur = c /\ f1[j].file = job[j].file
        /\ f1[j].team = job[j].team /\ f1[j].l = job[j].l /\ f1[j].kept = job[j].kept
        /\ f1[j].ask = job[j].ask /\ f1[j].seen = job[j].seen
        /\ \A k \in Job : k # j => f1[k] = job[k]
    <3>1. f1 \in [Job -> Client]
      BY <1>1, <1>2, <2>1, Update
    <3>2. /\ f1[j].pc = p /\ f1[j].cur = c /\ f1[j].file = job[j].file
          /\ f1[j].team = job[j].team /\ f1[j].l = job[j].l /\ f1[j].kept = job[j].kept
          /\ f1[j].ask = job[j].ask /\ f1[j].seen = job[j].seen
      BY <1>1 DEF Client
    <3> QED
      BY <1>1, <3>1, <3>2
  <2> HIDE DEF f1
  <2>6. /\ f2 \in [Job -> Client] /\ f2[j].pc = p /\ f2[j].cur = c /\ f2[j].file = job[j].file
        /\ f2[j].team = job[j].team /\ f2[j].l = job[j].l /\ f2[j].kept = job[j].kept
        /\ f2[j].ask = job[j].ask /\ f2[j].seen = job[j].seen
        /\ f2[j].ids = I /\ f2[j].todo = T
        /\ \A k \in Job : k # j => f2[k] = job[k]
    <3>1. f2 \in [Job -> Client]
      BY <2>1, <2>5, Update
    <3>2. /\ f2[j].pc = p /\ f2[j].cur = c /\ f2[j].file = job[j].file
          /\ f2[j].team = job[j].team /\ f2[j].l = job[j].l /\ f2[j].kept = job[j].kept
          /\ f2[j].ask = job[j].ask /\ f2[j].seen = job[j].seen
          /\ f2[j].ids = I /\ f2[j].todo = T
      BY <2>5 DEF Client
    <3> QED
      BY <2>5, <3>1, <3>2
  <2> HIDE DEF f2
  <2>7. /\ Only(j) /\ job'[j].pc = p /\ job'[j].cur = c /\ job'[j].file = job[j].file
        /\ job'[j].team = job[j].team /\ job'[j].l = job[j].l /\ job'[j].kept = job[j].kept
        /\ job'[j].ask = job[j].ask /\ job'[j].seen = job[j].seen
        /\ job'[j].ids = I /\ job'[j].todo = T
    <3>1. job' \in [Job -> Client]
      BY <1>3, <2>2, <2>6, Update
    <3>2. /\ job'[j].pc = p /\ job'[j].cur = c /\ job'[j].file = job[j].file
          /\ job'[j].team = job[j].team /\ job'[j].l = job[j].l /\ job'[j].kept = job[j].kept
          /\ job'[j].ask = job[j].ask /\ job'[j].seen = job[j].seen
          /\ job'[j].ids = I /\ job'[j].todo = T
      BY <2>2, <2>6 DEF Client
    <3> QED
      BY <2>2, <2>6, <3>1, <3>2 DEF Only
  <2>8. ServerTypes' /\ ItemFrame(j) /\ Len(launch) <= Len(launch')
    <3>1. CASE a = "error"
      <4>1. UNCHANGED <<server, latest>>
        BY <1>1, <2>3, <3>1 DEF server
      <4> QED
        BY <2>3, <4>1, Facts, ServerStays
    <3>2. CASE a # "error"
      BY <1>1, <2>3, <2>4, <3>2, ItemAdded
    <3> QED
      BY <3>1, <3>2
  <2>9. FileCases(j)' = FileCases(j)
    BY <2>7 DEF FileCases
  <2>10. /\ launch' = launch /\ items' \in Nat /\ items \in Nat /\ items <= items'
         /\ (a = "ok" => items' = items + 1)
    BY <1>1, <2>3, Facts
  <2>11. job'[j].ids \subseteq 1 .. items' /\ job'[j].seen \subseteq 1 .. items'
    <3>1. job[j].seen \subseteq 1 .. items'
      BY <1>1, <2>10 DEF ClientOK
    <3>2. I \subseteq 1 .. items'
      BY <2>1, <2>10
    <3> QED
      BY <2>7, <3>1, <3>2
  <2>12. ClientOK(j)'
    BY <1>1, <1>2, <2>1, <2>7, <2>9, <2>10, <2>11 DEF ClientOK, Holding, Rerunning
  <2>13. ASSUME NEW x \in item', x.id \in job[j].seen
         PROVE  x.case \in job[j].kept
    <3>1. x.id # items + 1
      BY <1>1, <2>13, <2>10 DEF ClientOK
    <3>2. x \in item
      BY <2>3, <2>4, <3>1
    <3> QED
      BY <1>1, <2>13, <3>2 DEF ReplaceOK, Rerunning
  <2>14. ASSUME p = "child", NEW x \in item', x.id \in I
         PROVE  x.status = "OPEN" /\ x.case = c
    <3>1. x.id = items + 1 /\ a = "ok"
      BY <2>1, <2>14
    <3>2. x \notin item
      BY <2>10, <3>1, Facts
    <3>3. x = r
      BY <2>3, <3>1, <3>2
    <3> QED
      BY <2>4, <3>3
  <2>15. ReplaceOK(j)'
    BY <2>1, <2>7, <2>13, <2>14 DEF ReplaceOK
  <2> QED
    BY <2>1, <2>7, <2>8, <2>12, <2>15 DEF StepOK, Only
<1> QED
  BY <1>5, <1>6

(* The cases of a file get different numbers.                              *)
LEMMA Numbered ==
  ASSUME NEW j \in Job, items \in Nat, NEW c \in FileCases(j), NEW d \in FileCases(j),
         items + Cardinality({e \in FileCases(j) : e <= c})
           = items + Cardinality({e \in FileCases(j) : e <= d})
  PROVE  c = d
<1> DEFINE Up(x) == {e \in FileCases(j) : e <= x}
<1>1. /\ FileCases(j) \subseteq Case /\ IsFiniteSet(FileCases(j)) /\ c \in Nat /\ d \in Nat
      /\ \A e \in FileCases(j) : e \in Nat
  BY FileCasesFinite, Constants
<1>2. ASSUME NEW x \in FileCases(j), NEW y \in FileCases(j), x < y,
             Cardinality(Up(x)) = Cardinality(Up(y))
      PROVE  FALSE
  <2>1. Up(y) \subseteq FileCases(j) /\ \A e \in Up(x) : e \in Up(y)
    BY <1>1, <1>2
  <2>2. IsFiniteSet(Up(y)) /\ Up(x) \in SUBSET Up(y)
    BY <1>1, <2>1, FS_Subset
  <2>3. Up(x) = Up(y)
    <3> HIDE DEF Up
    <3> QED
      BY <1>2, <2>2, FS_Subset
  <2>4. y \in Up(y) /\ y \notin Up(x)
    BY <1>1, <1>2
  <2> QED
    BY <2>3, <2>4
<1>3. Cardinality(Up(c)) \in Nat /\ Cardinality(Up(d)) \in Nat
  <2>1. Up(c) \in SUBSET FileCases(j) /\ Up(d) \in SUBSET FileCases(j)
    OBVIOUS
  <2> HIDE DEF Up
  <2> QED
    BY <1>1, <2>1, FS_Subset, FS_CardinalityType
<1>4. Cardinality(Up(c)) = Cardinality(Up(d))
  BY <1>3
<1>5. ~(c < d) /\ ~(d < c)
  BY <1>2, <1>4
<1> QED
  BY <1>1, <1>5

(* A launch is made of the file, with an item for each of its cases.       *)
LEMMA ImportKeeps ==
  ASSUME Inv, NEW j \in Job, Import(j)
  PROVE  StepOK(j)
<1>1. /\ job[j].pc = "import" /\ job \in [Job -> Client] /\ ClientOK(j)
      /\ Len(launch) < MaxLaunch /\ items + Cardinality(FileCases(j)) <= MaxItem
      /\ UNCHANGED latest
  BY Facts DEF Import, At
<1> DEFINE Id(c) == items + Cardinality({d \in FileCases(j) : d <= c})
           status == IF \E c \in FileCases(j) : job[j].file[c] = "FAILED" THEN "FAILED" ELSE "PASSED"
           l == Len(launch) + 1
           r == [golang |-> FALSE, team |-> None, nums |-> {}, status |-> status]
           it(c) == [id |-> Id(c), launch |-> Len(launch) + 1, case |-> c, status |-> job[j].file[c]]
<1>2. PICK a \in Answer :
        /\ Count(a)
        /\ IF a = "error" THEN UNCHANGED server
           ELSE /\ launch' = Append(launch, r)
                /\ item' = item \cup {it(c) : c \in FileCases(j)}
                /\ items' = items + Cardinality(FileCases(j))
        /\ job' = IF a = "ok" THEN [job EXCEPT ![j].pc = "getid", ![j].l = Len(launch) + 1]
                  ELSE [job EXCEPT ![j].pc = "report"]
  BY DEF Import
<1>3. faults' \in 0 .. MaxFaults /\ a \in {"ok", "error", "lost"}
  BY <1>2, Facts, Calling
<1>4. r \in LaunchRec
  BY Constants DEF LaunchRec
<1>5. /\ FileCases(j) \subseteq Case /\ Cardinality(FileCases(j)) \in Nat
      /\ \A c \in FileCases(j) : Id(c) \in items + 1 .. items + Cardinality(FileCases(j))
      /\ \A c, d \in FileCases(j) : Id(c) = Id(d) => c = d
  BY FileCasesFinite, Numbered, Facts
<1> HIDE DEF Id, status
<1>6. ASSUME NEW c \in FileCases(j)
      PROVE  /\ it(c) \in ItemRec /\ it(c).id = Id(c) /\ it(c).launch = l /\ it(c).case = c
  <2>1. job[j].file[c] \in Status
    BY <1>1 DEF FileCases, Client, Status
  <2>2. Id(c) \in Nat /\ l \in Nat /\ c \in Case
    BY <1>5, Facts
  <2> QED
    BY <2>1, <2>2 DEF ItemRec
<1> HIDE DEF r, it
<1>7. CASE a = "error"
  <2>1. UNCHANGED <<server, latest>> /\ job' = [job EXCEPT ![j].pc = "report"]
    BY <1>1, <1>2, <1>7
  <2>2. "report" \in Pcs /\ "report" \notin Holding
    BY DEF Pcs, Holding, Rerunning
  <2>3. job' \in [Job -> Client]
    BY <1>1, <2>1, <2>2, Update
  <2>4. Only(j)
    BY <1>1, <2>1, <2>3 DEF Only
  <2>5. /\ job'[j].pc = "report" /\ job'[j].ids = job[j].ids /\ job'[j].seen = job[j].seen
        /\ job'[j].ask = job[j].ask /\ job'[j].l = job[j].l
    BY <1>1, <2>1 DEF Client
  <2> QED
    BY <1>1, <1>3, <2>1, <2>2, <2>4, <2>5, Facts, Quiet DEF ClientOK
<1>8. CASE a # "error"
  <2> DEFINE n == Cardinality(FileCases(j))
  <2>1. /\ launch' = Append(launch, r) /\ items' = items + n
        /\ item' = item \cup {it(c) : c \in FileCases(j)}
    BY <1>2, <1>8
  <2>2. /\ launch' \in Seq(LaunchRec) /\ Len(launch') = l /\ Len(launch') <= MaxLaunch
        /\ items' \in 0 .. MaxItem /\ items <= items' /\ items \in Nat /\ Len(launch) \in Nat
    BY <1>1, <1>4, <1>5, <2>1, LaunchAdded, Facts, Constants
  <2>3. ASSUME NEW x \in item'
        PROVE  x \in item \/ \E c \in FileCases(j) : x = it(c)
    BY <2>1
  <2> HIDE DEF n
  <2>4. ItemFrame(j)
    <3>1. \A c \in FileCases(j) : it(c).id \in items + 1 .. items'
      BY <1>5, <1>6, <2>1 DEF n
    <3> QED
      BY <2>2, <2>3, <3>1 DEF ItemFrame
  <2>5. \A x \in item' : x \in ItemRec /\ x.id \in 1 .. items' /\ x.launch \in 1 .. Len(launch')
    <3>1. \A c \in FileCases(j) : /\ it(c).id \in items + 1 .. items' /\ it(c) \in ItemRec
                                  /\ it(c).launch = l
      BY <1>5, <1>6, <2>1 DEF n
    <3>2. \A x \in item : x \in ItemRec /\ x.id \in 1 .. items /\ x.launch \in 1 .. Len(launch)
      BY Facts
    <3>3. l \in 1 .. Len(launch')
      BY <2>2
    <3>4. \A c \in FileCases(j) : it(c).id \in 1 .. items'
      BY <2>2, <3>1
    <3> QED
      BY <2>2, <2>3, <3>1, <3>2, <3>3, <3>4
  <2>6. \A x, y \in item' : x.id = y.id => x = y
    <3>1. \A c, d \in FileCases(j) : it(c).id = it(d).id => c = d
      BY <1>5, <1>6
    <3>2. \A c \in FileCases(j), x \in item : it(c).id # x.id
      BY <1>5, <1>6, Facts
    <3> QED
      BY <2>3, <3>1, <3>2, Facts
  <2>7. ServerTypes' /\ Len(launch) <= Len(launch')
    BY <1>1, <1>3, <2>2, <2>5, <2>6, Facts DEF ServerTypes
  <2>8. CASE a = "ok"
    <3>1. /\ job' = [job EXCEPT ![j].pc = "getid", ![j].l = l]
          /\ "getid" \in Pcs /\ l \in Nat
      BY <1>2, <2>2, <2>8 DEF Pcs
    <3> HIDE DEF l
    <3>2. job' \in [Job -> Client]
      BY <1>1, <3>1, Update
    <3>3. Only(j)
      BY <1>1, <3>1, <3>2 DEF Only
    <3>4. /\ job'[j].pc = "getid" /\ job'[j].ids = job[j].ids /\ job'[j].seen = job[j].seen
          /\ job'[j].ask = job[j].ask /\ job'[j].l = l
      BY <1>1, <3>1 DEF Client
    <3>5. ClientOK(j)'
      BY <1>1, <2>2, <3>4 DEF ClientOK, l
    <3>6. ReplaceOK(j)'
      BY <3>4 DEF ReplaceOK, Rerunning
    <3> QED
      BY <2>4, <2>7, <3>3, <3>4, <3>5, <3>6 DEF StepOK, Only
  <2>9. CASE a # "ok"
    <3>1. job' = [job EXCEPT ![j].pc = "report"] /\ "report" \in Pcs
      BY <1>2, <2>9 DEF Pcs
    <3>2. job' \in [Job -> Client]
      BY <1>1, <3>1, Update
    <3>3. Only(j)
      BY <1>1, <3>1, <3>2 DEF Only
    <3>4. /\ job'[j].pc = "report" /\ job'[j].ids = job[j].ids /\ job'[j].seen = job[j].seen
          /\ job'[j].ask = job[j].ask /\ job'[j].l = job[j].l
      BY <1>1, <3>1 DEF Client
    <3>5. ClientOK(j)'
      BY <1>1, <2>2, <3>4 DEF ClientOK, Holding, Rerunning
    <3>6. ReplaceOK(j)'
      BY <3>4 DEF ReplaceOK, Rerunning
    <3> QED
      BY <2>4, <2>7, <3>3, <3>4, <3>5, <3>6 DEF StepOK, Only
  <2> QED
    BY <2>8, <2>9
<1> QED
  BY <1>7, <1>8

-----------------------------------------------------------------------------
(* No client holds anything at first.                                      *)
LEMMA InitInv == Init => Inv
<1> SUFFICES ASSUME Init
             PROVE  Inv
  OBVIOUS
<1>1. ServerTypes
  <2>1. launch = <<>> /\ items = 0 /\ item = {} /\ faults = 0 /\ latest = [c \in Case |-> None]
    BY DEF Init
  <2>2. launch \in Seq(LaunchRec) /\ Len(launch) = 0
    BY <2>1
  <2> QED
    BY <2>1, <2>2, Constants DEF ServerTypes
<1>2. job \in [Job -> Client] /\ \A j \in Job : job[j] = Idle
  BY IdleClient DEF Init
<1>3. ASSUME NEW j \in Job
      PROVE  ClientOK(j) /\ ReplaceOK(j) /\ job[j].pc = "idle"
  <2>1. /\ job[j].pc = "idle" /\ job[j].ids = {} /\ job[j].seen = {} /\ job[j].ask = {}
        /\ job[j].l = 0
    BY <1>2 DEF Idle
  <2>2. 0 \in 0 .. Len(launch)
    BY DEF Init
  <2> QED
    BY <2>1, <2>2 DEF ClientOK, ReplaceOK, Holding, Rerunning
<1> QED
  BY <1>1, <1>2, <1>3 DEF Inv, TypeInv, ChildrenApart

(* Every step of a client is one of those.                                 *)
LEMMA NextStepOK ==
  ASSUME Inv, NEW j \in Job, StartBuild(j) \/ Step(j) \/ Kill(j)
  PROVE  StepOK(j)
<1>1. CASE Step(j)
  BY <1>1, CheckLaunchesKeeps, AskFailedKeeps, ChooseKeeps, ExecuteKeeps, LogResultKeeps,
     EndBuildKeeps, ImportKeeps, GetLaunchIdKeeps, AddAttributesKeeps, GetChildKeeps,
     DeleteChildKeeps, ReadBuildNumsKeeps, AddBuildNumKeeps, StartLaunchKeeps, StartSuiteKeeps,
     StartChildKeeps, FinishChildKeeps, FinishSuiteKeeps, FinishLaunchKeeps DEF Step
<1> QED
  BY <1>1, StartBuildKeeps, KillKeeps

(* Nothing changes in a stuttering step.                                   *)
LEMMA StutterInv == Inv /\ UNCHANGED vars => Inv'
<1> SUFFICES ASSUME Inv, UNCHANGED vars
             PROVE  Inv'
  OBVIOUS
<1>1. /\ launch' = launch /\ item' = item /\ items' = items /\ job' = job
      /\ faults' = faults /\ latest' = latest
  BY DEF vars
<1>2. ServerTypes'
  BY <1>1 DEF Inv, TypeInv, ServerTypes
<1>3. (\A j \in Job : ClientOK(j))' /\ (\A j \in Job : ReplaceOK(j))' /\ ChildrenApart'
  BY <1>1 DEF Inv, TypeInv, ClientOK, FileCases, ReplaceOK, ChildrenApart
<1> QED
  BY <1>1, <1>2, <1>3 DEF Inv, TypeInv

(* Types, unique item numbers, and what reruns know of the items of their  *)
(* cases, in every state: for any number of jobs, rebuilds and faults.     *)
THEOREM Invariant == Spec => []Inv
<1>1. Inv /\ [Next]_vars => Inv'
  BY NextStepOK, StepKeeps, StutterInv DEF Next
<1> QED
  BY <1>1, InitInv, PTL DEF Spec

(* The type invariant of reportportal.py's model: in particular an item is *)
(* only ever in a launch that exists.                                      *)
THEOREM TypeCorrect == Spec => []TypeOK
<1>1. Inv => TypeOK
  <2> SUFFICES ASSUME Inv
               PROVE  TypeOK
    OBVIOUS
  <2>1. \A l \in Launch : launch[l] \in LaunchRec
    BY Facts, ElementOfSeq DEF Inv, TypeInv, ServerTypes, Launch
  <2>2. item \subseteq [id : 1 .. items, launch : Launch, case : Case, status : Status]
    BY DEF Inv, TypeInv, ServerTypes, Launch, ItemRec
  <2>3. ASSUME NEW j \in Job
        PROVE  /\ job[j].pc \in Pcs /\ job[j].l \in Launch \cup {0}
               /\ job[j].file \in [Case -> Outcome \cup {None}]
               /\ job[j].team \in Team \cup {None} /\ job[j].teams \subseteq Team
               /\ (job[j].run \cup job[j].new \cup job[j].todo \cup job[j].kept) \subseteq Case
               /\ (job[j].ids \cup job[j].seen) \subseteq 1 .. items
               /\ (job[j].nums \subseteq Job) /\ job[j].ask \subseteq Launch
    <3>1. job[j] \in Client /\ ClientOK(j) /\ Len(launch) \in Nat
      BY Facts
    <3> QED
      BY <3>1 DEF Client, ClientOK, Launch
  <2>4. /\ items \in 0 .. MaxItem /\ Len(launch) <= MaxLaunch /\ faults \in 0 .. MaxFaults
        /\ latest \in [Case -> Outcome \cup {None}]
    BY DEF Inv, TypeInv, ServerTypes
  <2> QED
    BY <2>1, <2>2, <2>3, <2>4 DEF TypeOK, LaunchRec
<1> QED
  BY <1>1, Invariant, PTL

-----------------------------------------------------------------------------
(* A step out of a restarted launch finishes it, or was not answered.      *)
LEMMA FinallyStep ==
  ASSUME Inv, [Next]_vars, NEW j \in Job,
         job[j].pc \in Restarted, job'[j].pc \notin Restarted
  PROVE  \/ job'[j] = Idle
         \/ launch'[Here(j)].status = job[j].result
         \/ At(j, "finish") /\ faults' > faults
<1>1. job \in [Job -> Client] /\ job[j].pc \in {"suite", "cases", "child", "finish"}
  BY Facts DEF Restarted
<1>2. job' # job
  BY DEF Restarted
<1>3. PICK k \in Job : StartBuild(k) \/ Step(k) \/ Kill(k)
  BY <1>2 DEF Next, vars
<1>4. StepOK(k)
  BY <1>3, NextStepOK
<1>5. k = j
  BY <1>4 DEF StepOK
<1>6. CASE FinishLaunch(j)
  <2>1. PICK a \in Answer :
          /\ Count(a)
          /\ launch' = IF a = "error" THEN launch
                       ELSE [launch EXCEPT ![Here(j)].status = job[j].result]
    BY <1>6 DEF FinishLaunch
  <2>2. At(j, "finish")
    BY <1>6 DEF FinishLaunch
  <2>3. CASE a = "error"
    <3>1. faults' = faults + 1 /\ faults \in Nat
      BY <2>1, <2>3, Facts, Calling
    <3> QED
      BY <2>2, <3>1
  <2>4. CASE a # "error"
    <3>1. Here(j) \in 1 .. Len(launch)
      BY <1>1, Facts DEF Here, ClientOK, Holding, Rerunning
    <3>2. launch \in Seq(LaunchRec) /\ launch[Here(j)] \in LaunchRec
      BY <3>1, Facts, ElementOfSeq
    <3>3. launch'[Here(j)] = [launch[Here(j)] EXCEPT !.status = job[j].result]
      BY <2>1, <2>4, <3>1, <3>2
    <3> QED
      BY <3>2, <3>3 DEF LaunchRec
  <2> QED
    BY <2>3, <2>4
<1>7. CASE Kill(j)
  BY <1>1, <1>7 DEF Kill
<1>8. CASE StartSuite(j) \/ StartChild(j) \/ FinishChild(j) \/ FinishSuite(j)
  <2>1. CASE StartSuite(j)
    <3>1. \/ job' = [job EXCEPT ![j].pc = "cases", ![j].todo = FileCases(j)]
          \/ job' = [job EXCEPT ![j].pc = "finish"]
      BY <2>1 DEF StartSuite
    <3>2. job'[j].pc = "cases" \/ job'[j].pc = "finish"
      BY <1>1, <3>1 DEF Client
    <3> QED
      BY <3>2 DEF Restarted
  <2>2. CASE StartChild(j)
    <3> DEFINE c == Min(job[j].todo)
               r == IF job[j].file[c] = "FAILED" THEN "FAILED" ELSE job[j].result
               T == job[j].todo \ {c}
    <3>1. \/ job' = [job EXCEPT ![j].todo = T, ![j].result = r]
          \/ \E p \in {"child", "cases"}, I \in {{items + 1}, {}} :
               job' = [job EXCEPT ![j].pc = p, ![j].cur = c, ![j].ids = I, ![j].todo = T,
                          ![j].result = r]
      <4>1. PICK a \in Answer :
              IF LeftAlone(j, c)
              THEN job' = [job EXCEPT ![j].todo = @ \ {c}, ![j].result = r]
              ELSE job' = [job EXCEPT ![j].pc = IF a = "ok" THEN "child" ELSE "cases",
                             ![j].cur = c, ![j].ids = IF a = "ok" THEN {items + 1} ELSE {},
                             ![j].todo = @ \ {c}, ![j].result = r]
        BY <2>2 DEF StartChild
      <4> DEFINE p == IF a = "ok" THEN "child" ELSE "cases"
                 I == IF a = "ok" THEN {items + 1} ELSE {}
      <4>2. \/ job' = [job EXCEPT ![j].todo = T, ![j].result = r]
            \/ job' = [job EXCEPT ![j].pc = p, ![j].cur = c, ![j].ids = I, ![j].todo = T,
                          ![j].result = r]
        BY <1>1, <4>1 DEF Client
      <4>3. p \in {"child", "cases"} /\ I \in {{items + 1}, {}}
        OBVIOUS
      <4> HIDE DEF p, I, T, r, c
      <4> QED
        BY <4>2, <4>3
    <3> HIDE DEF c, r, T
    <3>2. job'[j].pc \in {"child", "cases"} \/ job'[j].pc = job[j].pc
      BY <1>1, <3>1 DEF Client
    <3> QED
      BY <3>2 DEF Restarted
  <2>3. CASE FinishChild(j)
    <3>1. job' = [job EXCEPT ![j].pc = "cases", ![j].ids = {}]
      BY <2>3 DEF FinishChild
    <3>2. job'[j].pc = "cases"
      BY <1>1, <3>1 DEF Client
    <3> QED
      BY <3>2 DEF Restarted
  <2>4. CASE FinishSuite(j)
    <3>1. job' = [job EXCEPT ![j].pc = "finish"]
      BY <2>4 DEF FinishSuite
    <3>2. job'[j].pc = "finish"
      BY <1>1, <3>1 DEF Client
    <3> QED
      BY <3>2 DEF Restarted
  <2> QED
    BY <1>8, <2>1, <2>2, <2>3, <2>4
<1>9. FinishLaunch(j) \/ Kill(j) \/ StartSuite(j) \/ StartChild(j) \/ FinishChild(j) \/ FinishSuite(j)
  BY <1>1, <1>3, <1>5 DEF StartBuild, Step, CheckLaunches, AskFailed, Choose, Execute, LogResult,
     EndBuild, Import, GetLaunchId, AddAttributes, GetChild, DeleteChild, ReadBuildNums, AddBuildNum,
     StartLaunch, At
<1> QED
  BY <1>6, <1>7, <1>8, <1>9

(* The item a rerun adds is of a case none of whose seen items is left.    *)
LEMMA ReplacesStep ==
  ASSUME Inv, [Next]_vars, NEW j \in Job, NEW i \in item' \ item,
         At(j, "cases"), job'[j] # job[j], i.id > items
  PROVE  ~\E x \in item : x.id \in job[j].seen /\ x.case = i.case
<1>1. job[j].pc = "cases" /\ ReplaceOK(j)
  BY Facts DEF At
<1>2. PICK k \in Job : StartBuild(k) \/ Step(k) \/ Kill(k)
  BY DEF Next, vars
<1>3. StepOK(k)
  BY <1>2, NextStepOK
<1>4. k = j
  BY <1>3 DEF StepOK
<1>5. StartChild(j) \/ FinishSuite(j) \/ Kill(j)
  BY <1>1, <1>2, <1>4 DEF StartBuild, Step, CheckLaunches, AskFailed, Choose, Execute, LogResult,
     EndBuild, Import, GetLaunchId, AddAttributes, GetChild, DeleteChild, ReadBuildNums, AddBuildNum,
     StartLaunch, StartSuite, FinishChild, FinishLaunch, At
<1>6. StartChild(j)
  BY <1>5 DEF FinishSuite, Kill, server
<1>7. i.case \notin job[j].kept
  <2> DEFINE c == Min(job[j].todo)
             r == [id |-> items + 1, launch |-> Here(j), case |-> c, status |-> "OPEN"]
  <2>1. item' = item \/ (~LeftAlone(j, c) /\ item' = item \cup {r})
    BY <1>6 DEF StartChild
  <2>2. i = r /\ ~LeftAlone(j, c)
    BY <2>1
  <2> QED
    BY <2>2 DEF LeftAlone
<1> QED
  BY <1>1, <1>7 DEF ReplaceOK, Rerunning

(* An item goes only to a client that deletes or finishes it.              *)
LEMMA KeptStep ==
  ASSUME Inv, [Next]_vars, NEW i \in item
  PROVE  \/ i \in item'
         \/ \E j \in Job : At(j, "child") /\ i.status = "OPEN" /\ i.id \in job[j].ids
         \/ \E j \in Job : /\ At(j, "delete") /\ Here(j) = i.launch
                           /\ job[j].file[i.case] # None
<1> SUFFICES ASSUME item' # item
             PROVE  \/ i \in item'
                    \/ \E j \in Job : At(j, "child") /\ i.status = "OPEN" /\ i.id \in job[j].ids
                    \/ \E j \in Job : /\ At(j, "delete") /\ Here(j) = i.launch
                                      /\ job[j].file[i.case] # None
  OBVIOUS
<1>1. PICK k \in Job : StartBuild(k) \/ Step(k) \/ Kill(k)
  BY DEF Next, vars
<1>2. Import(k) \/ StartChild(k) \/ DeleteChild(k) \/ FinishChild(k)
  BY <1>1 DEF StartBuild, Step, Kill, CheckLaunches, AskFailed, Choose, Execute, LogResult,
     EndBuild, GetLaunchId, AddAttributes, GetChild, ReadBuildNums, AddBuildNum,
     StartLaunch, StartSuite, FinishSuite, FinishLaunch, server
<1>3. CASE Import(k) \/ StartChild(k)
  BY <1>3 DEF Import, StartChild, server
<1>4. CASE DeleteChild(k)
  <2>1. job[k].pc = "delete" /\ ClientOK(k) /\ ReplaceOK(k) /\ job[k] \in Client
    BY <1>4, Facts DEF DeleteChild, At
  <2>2. Min(job[k].ids) \in job[k].ids
    BY <2>1, MinIn DEF ClientOK, Client
  <2>3. item' = item \/ item' = {x \in item : x.id # Min(job[k].ids)}
    BY <1>4 DEF DeleteChild
  <2>4. CASE i.id = Min(job[k].ids)
    <3>1. i.launch = job[k].l /\ i.case = job[k].cur /\ job[k].cur \in FileCases(k)
      BY <2>1, <2>2, <2>4 DEF ReplaceOK, ClientOK
    <3> QED
      BY <2>1, <3>1 DEF FileCases, At, Here
  <2> QED
    BY <2>3, <2>4
<1>5. CASE FinishChild(k)
  <2>1. job[k].pc = "child" /\ ReplaceOK(k)
    BY <1>5, Facts DEF FinishChild, At
  <2>2. item' = {IF x.id \in job[k].ids THEN [x EXCEPT !.status = StatusOf(k, x.case)] ELSE x
                 : x \in item}
    BY <1>5 DEF FinishChild
  <2>3. CASE i.id \in job[k].ids
    BY <2>1, <2>3 DEF ReplaceOK, At
  <2>4. CASE i.id \notin job[k].ids
    BY <2>2, <2>4
  <2> QED
    BY <2>3, <2>4
<1> QED
  BY <1>2, <1>3, <1>4, <1>5

(* rerunResult replaces what it ran, nothing twice and nothing else, and   *)
(* its finally block leaves the launch finished: however calls fail, are   *)
(* lost or interleave with those of other jobs, and whenever builds die.   *)
THEOREM ReplacesInPlace == Spec => RerunReplaces
<1>1. Inv /\ [Next]_vars =>
        \A j \in Job : job[j].pc \in Restarted /\ job'[j].pc \notin Restarted
          => \/ job'[j] = Idle
             \/ launch'[Here(j)].status = job[j].result
             \/ At(j, "finish") /\ faults' > faults
  BY FinallyStep
<1>2. Inv /\ [Next]_vars =>
        \A j \in Job, i \in item' \ item : At(j, "cases") /\ job'[j] # job[j] /\ i.id > items
          => ~\E x \in item : x.id \in job[j].seen /\ x.case = i.case
  BY ReplacesStep
<1>3. Inv /\ [Next]_vars =>
        \A i \in item :
          \/ i \in item'
          \/ \E j \in Job : /\ At(j, "child") /\ i.status = "OPEN" /\ i.id \in job[j].ids
          \/ \E j \in Job : /\ At(j, "delete") /\ Here(j) = i.launch
                             /\ job[j].file[i.case] # None
  BY KeptStep
<1>4. Spec => FinallyFinishes
  BY <1>1, Invariant, PTL DEF Spec, FinallyFinishes
<1>5. Spec => NewReplacesSeen
  BY <1>2, Invariant, PTL DEF Spec, NewReplacesSeen
<1>6. Spec => OthersKept
  BY <1>3, Invariant, PTL DEF Spec, OthersKept
<1> QED
  BY <1>4, <1>5, <1>6 DEF RerunReplaces

-----------------------------------------------------------------------------
(***************************************************************************)
(* As long as no call fails: what ReportPortal shows, and what a rebuild   *)
(* forgets, for any number of jobs, cases, teams and rebuilds.             *)
(***************************************************************************)

Importing == {"getid", "attrs"}
Choosing == {"idle", "check", "ask", "execute"}

-----------------------------------------------------------------------------
(* What the steps do when no call fails.                                   *)
KeptChoice(j) == job'[j].run = job[j].run /\ job'[j].new = job[j].new /\ job'[j].ask = job[j].ask
KeptReport(j) ==
  /\ job'[j].file = job[j].file /\ job'[j].teams = job[j].teams /\ job'[j].team = job[j].team
  /\ job'[j].kept = job[j].kept

(* A call that is answered with a fault would be counted.                  *)
LEMMA NoFault ==
  ASSUME Inv, NEW a \in Answer, Count(a), faults' = 0
  PROVE  faults = 0 /\ a = "ok"
<1>1. faults \in 0 .. MaxFaults /\ MaxFaults \in Nat
  BY Facts, Constants DEF Inv, TypeInv, ServerTypes
<1> QED
  BY <1>1, Calling

(* The same for a call that only reads.                                    *)
LEMMA NoFaultRead ==
  ASSUME Inv, NEW a \in ReadAnswer, Count(a), faults' = 0
  PROVE  faults = 0 /\ a = "ok"
  BY NoFault, Reading

(* Without a fault, a first build runs every case and a rebuild asks Report*)
(* Portal.                                                                 *)
LEMMA StartBuildEffect ==
  ASSUME Inv, NEW j \in Job, StartBuild(j)
  PROVE  /\ job[j].pc = "idle" /\ left[j] > 0 /\ faults' = faults
         /\ left' = [left EXCEPT ![j] = @ - 1] /\ built' = built \cup {j}
         /\ UNCHANGED <<server, latest>> /\ KeptReport(j)
         /\ \/ j \in built /\ job'[j].pc = "check" /\ KeptChoice(j)
            \/ j \notin built /\ job'[j].pc = "execute" /\ job'[j].run = CasesOf[j]
<1>1. job \in [Job -> Client]
  BY Facts
<1>2. CASE j \in built
  <2>1. job' = [job EXCEPT ![j].pc = "check"]
    BY <1>2 DEF StartBuild
  <2>2. job'[j].pc = "check" /\ KeptChoice(j) /\ KeptReport(j)
    BY <1>1, <2>1 DEF Client, KeptChoice, KeptReport
  <2> QED
    BY <1>2, <2>2 DEF StartBuild, At
<1>3. CASE j \notin built
  <2>1. job' = WholeScenario(j)
    BY <1>3 DEF StartBuild
  <2>2. job'[j].pc = "execute" /\ job'[j].run = CasesOf[j] /\ KeptReport(j)
    BY <1>1, <2>1 DEF WholeScenario, Client, KeptReport
  <2> QED
    BY <1>3, <2>2 DEF StartBuild, At
<1> QED
  BY <1>2, <1>3

(* Without a fault, the job asks about every golang launch that carries it,*)
(* and runs anew what no such launch is for.                               *)
LEMMA CheckLaunchesEffect ==
  ASSUME Inv, NEW j \in Job, CheckLaunches(j), faults' = 0
  PROVE  /\ job[j].pc = "check" /\ faults = 0
         /\ UNCHANGED <<server, left, built, latest>> /\ KeptReport(j)
         /\ \/ /\ GolangLaunches = {} /\ job'[j].pc = "execute" /\ job'[j].run = CasesOf[j]
            \/ /\ job'[j].pc = "ask" /\ job'[j].run = job[j].run
               /\ job'[j].ask = {l \in GolangLaunches : j \in launch[l].nums}
               /\ job'[j].new = {c \in CasesOf[j] :
                    TeamOf[c] \notin {launch[l].team : l \in job'[j].ask}}
<1>1. job \in [Job -> Client]
  BY Facts
<1> DEFINE S == {l \in GolangLaunches : j \in launch[l].nums}
           T == CasesIn(CasesOf[j], TeamsOf(CasesOf[j]) \ {launch[l].team : l \in S})
<1>2. PICK a \in ReadAnswer :
        /\ Count(a)
        /\ job' = IF a = "error" \/ GolangLaunches = {} THEN WholeScenario(j)
                  ELSE [job EXCEPT ![j].pc = "ask", ![j].ask = S, ![j].new = T]
  BY DEF CheckLaunches
<1>3. faults = 0 /\ a = "ok"
  BY <1>2, NoFaultRead
<1>4. T = {c \in CasesOf[j] : TeamOf[c] \notin {launch[l].team : l \in S}}
  BY DEF CasesIn, TeamsOf
<1>5. CASE GolangLaunches = {}
  <2>1. job' = WholeScenario(j)
    BY <1>2, <1>5
  <2>2. job'[j].pc = "execute" /\ job'[j].run = CasesOf[j] /\ KeptReport(j)
    BY <1>1, <2>1 DEF WholeScenario, Client, KeptReport
  <2> QED
    BY <1>3, <1>5, <2>2 DEF CheckLaunches, At
<1>6. CASE GolangLaunches # {}
  <2>1. job' = [job EXCEPT ![j].pc = "ask", ![j].ask = S, ![j].new = T]
    BY <1>2, <1>3, <1>6
  <2> HIDE DEF S, T
  <2>2. /\ job'[j].pc = "ask" /\ job'[j].run = job[j].run /\ job'[j].ask = S /\ job'[j].new = T
        /\ KeptReport(j)
    BY <1>1, <2>1 DEF Client, KeptReport
  <2>3. job[j].pc = "check" /\ UNCHANGED <<server, left, built, latest>>
    BY DEF CheckLaunches, At
  <2> QED
    BY <1>3, <1>4, <2>2, <2>3 DEF S
<1> QED
  BY <1>5, <1>6

(* Without a fault, each launch asked about adds what failed in it.        *)
LEMMA AskFailedEffect ==
  ASSUME Inv, NEW j \in Job, AskFailed(j), faults' = 0
  PROVE  /\ job[j].pc = "ask" /\ job'[j].pc = "ask" /\ faults = 0
         /\ UNCHANGED <<server, left, built, latest>> /\ KeptReport(j)
         /\ job'[j].new = job[j].new
         /\ \E m \in job[j].ask : /\ job'[j].ask = job[j].ask \ {m}
                                  /\ job'[j].run = job[j].run \cup FailedIn(m)
<1>1. job \in [Job -> Client] /\ job[j].ask \subseteq Nat /\ job[j].ask # {} /\ job[j].pc = "ask"
  BY Facts DEF Client, AskFailed, At
<1> DEFINE m == Min(job[j].ask)
<1>2. m \in job[j].ask
  BY <1>1, MinIn
<1>3. PICK a \in ReadAnswer, exception \in BOOLEAN :
        /\ Count(a)
        /\ exception => a = "error"
        /\ job' = IF exception THEN WholeScenario(j)
                  ELSE [job EXCEPT ![j].ask = @ \ {m},
                          ![j].run = IF a = "ok" THEN @ \cup FailedIn(m) ELSE @]
  BY DEF AskFailed
<1>4. faults = 0 /\ a = "ok"
  BY <1>3, NoFaultRead
<1> HIDE DEF m
<1>5. job' = [job EXCEPT ![j].ask = job[j].ask \ {m}, ![j].run = job[j].run \cup FailedIn(m)]
  BY <1>1, <1>3, <1>4 DEF Client
<1>6. /\ job'[j].pc = job[j].pc /\ job'[j].new = job[j].new /\ job'[j].ask = job[j].ask \ {m}
      /\ job'[j].run = job[j].run \cup FailedIn(m) /\ KeptReport(j)
  BY <1>1, <1>5 DEF Client, KeptReport
<1> QED
  BY <1>1, <1>2, <1>4, <1>6 DEF AskFailed

(* A rebuild runs what failed and what is new, or nothing at all.          *)
LEMMA ChooseEffect ==
  ASSUME Inv, NEW j \in Job, Choose(j)
  PROVE  /\ job[j].pc = "ask" /\ job[j].ask = {} /\ faults' = faults
         /\ UNCHANGED <<server, left, built, latest>>
         /\ \/ job'[j] = Idle
            \/ job'[j].pc = "execute" /\ job'[j].run = job[j].run \cup job[j].new /\ KeptReport(j)
<1>1. job \in [Job -> Client] /\ job[j].pc = "ask"
  BY Facts DEF Choose, At
<1>2. CASE job' = [job EXCEPT ![j] = Idle]
  BY <1>1, <1>2 DEF Choose
<1>3. CASE job' = [job EXCEPT ![j].pc = "execute", ![j].run = @ \cup job[j].new]
  <2>1. job' = [job EXCEPT ![j].pc = "execute", ![j].run = job[j].run \cup job[j].new]
    BY <1>1, <1>3 DEF Client
  <2>2. job'[j].pc = "execute" /\ job'[j].run = job[j].run \cup job[j].new /\ KeptReport(j)
    BY <1>1, <2>1 DEF Client, KeptReport
  <2> QED
    BY <1>1, <2>2 DEF Choose
<1> QED
  BY <1>2, <1>3 DEF Choose

(* The test run leaves a result of every case it ran, and nothing on the   *)
(* server.                                                                 *)
LEMMA ExecuteEffect ==
  ASSUME Inv, NEW j \in Job, Execute(j)
  PROVE  /\ job[j].pc = "execute" /\ job'[j].pc = "report" /\ faults' = faults
         /\ UNCHANGED <<server, left, built>>
         /\ \A c \in Case :
              IF c \in job[j].run \cap CasesOf[j]
              THEN latest'[c] \in Outcome /\ job'[j].file[c] = latest'[c]
              ELSE latest'[c] = latest[c] /\ job'[j].file[c] = None
         /\ job'[j].teams = TeamsOf(job[j].run \cap CasesOf[j])
         /\ job'[j].kept = {} /\ job'[j].run = {}
<1>1. job \in [Job -> Client]
  BY Facts
<1>2. PICK out \in [job[j].run \cap CasesOf[j] -> Outcome] :
        /\ latest' = [c \in Case |-> IF c \in DOMAIN out THEN out[c] ELSE latest[c]]
        /\ job' = [job EXCEPT ![j] = [Idle EXCEPT !.pc = "report",
                     !.file = [c \in Case |-> IF c \in DOMAIN out THEN out[c] ELSE None],
                     !.teams = TeamsOf(DOMAIN out)]]
  BY DEF Execute
<1> DEFINE F == [c \in Case |-> IF c \in DOMAIN out THEN out[c] ELSE None]
           r == [Idle EXCEPT !.pc = "report", !.file = F, !.teams = TeamsOf(DOMAIN out)]
<1>3. DOMAIN out = job[j].run \cap CasesOf[j]
  OBVIOUS
<1>4. \A c \in Case : IF c \in job[j].run \cap CasesOf[j]
                      THEN latest'[c] \in Outcome /\ F[c] = latest'[c]
                      ELSE latest'[c] = latest[c] /\ F[c] = None
  BY <1>2, <1>3
<1> HIDE DEF F
<1>5. /\ r.pc = "report" /\ r.file = F /\ r.teams = TeamsOf(DOMAIN out)
      /\ r.kept = {} /\ r.run = {}
  BY DEF Idle
<1>6. job'[j] = r
  BY <1>1, <1>2 DEF F
<1> HIDE DEF r
<1>7. job[j].pc = "execute" /\ faults' = faults /\ UNCHANGED <<server, left, built>>
  BY DEF Execute, At
<1> QED
  BY <1>3, <1>4, <1>5, <1>6, <1>7

(* Without a fault, a team whose launch is found is reported again and any *)
(* other is imported.                                                      *)
LEMMA LogResultEffect ==
  ASSUME Inv, NEW j \in Job, LogResult(j), faults' = 0
  PROVE  /\ job[j].pc = "report" /\ faults = 0
         /\ UNCHANGED <<server, left, built, latest>>
         /\ job'[j].file = job[j].file
         /\ job'[j].team \in job[j].teams /\ job'[j].teams = job[j].teams \ {job'[j].team}
         /\ \/ job'[j].pc = "import" /\ LaunchesOf(job'[j].team) = {}
            \/ /\ job'[j].pc = "get" /\ job'[j].l \in LaunchesOf(job'[j].team)
               /\ job'[j].kept = {}
               /\ job'[j].todo = {c \in Case : job[j].file[c] # None /\ TeamOf[c] = job'[j].team}
<1>1. job \in [Job -> Client] /\ job[j].pc = "report" /\ UNCHANGED <<server, left, built, latest>>
  BY Facts DEF LogResult, At
<1>2. PICK a \in ReadAnswer, t \in job[j].teams :
        /\ Count(a)
        /\ IF a = "error" \/ FoundLaunches(t) = {}
           THEN job' = [job EXCEPT ![j].pc = "import", ![j].team = t, ![j].teams = @ \ {t}]
           ELSE \E l \in FoundLaunches(t) :
                  job' = [job EXCEPT ![j].pc = "get", ![j].team = t, ![j].teams = @ \ {t},
                            ![j].l = l, ![j].seen = {}, ![j].kept = {}, ![j].result = "PASSED",
                            ![j].todo = {c \in Case : job[j].file[c] # None /\ TeamOf[c] = t}]
  BY DEF LogResult
<1>3. faults = 0 /\ a = "ok"
  BY <1>2, NoFaultRead
<1>4. CASE LaunchesOf(t) = {}
  <2>1. job' = [job EXCEPT ![j].pc = "import", ![j].team = t, ![j].teams = @ \ {t}]
    BY <1>2, <1>4 DEF FoundLaunches
  <2>2. /\ job'[j].pc = "import" /\ job'[j].team = t /\ job'[j].teams = job[j].teams \ {t}
        /\ job'[j].file = job[j].file
    BY <1>1, <2>1 DEF Client
  <2> QED
    BY <1>1, <1>3, <1>4, <2>2
<1>5. CASE LaunchesOf(t) # {}
  <2> DEFINE T == {c \in Case : job[j].file[c] # None /\ TeamOf[c] = t}
  <2>1. PICK l \in LaunchesOf(t) :
          job' = [job EXCEPT ![j].pc = "get", ![j].team = t, ![j].teams = @ \ {t},
                    ![j].l = l, ![j].seen = {}, ![j].kept = {}, ![j].result = "PASSED",
                    ![j].todo = T]
    BY <1>2, <1>3, <1>5 DEF FoundLaunches
  <2> HIDE DEF T
  <2>2. /\ job'[j].pc = "get" /\ job'[j].team = t /\ job'[j].teams = job[j].teams \ {t}
        /\ job'[j].l = l /\ job'[j].kept = {} /\ job'[j].todo = T /\ job'[j].file = job[j].file
    BY <1>1, <2>1 DEF Client
  <2> QED
    BY <1>1, <1>3, <2>2 DEF T
<1> QED
  BY <1>4, <1>5

(* A build ends when no team is left to report.                            *)
LEMMA EndBuildEffect ==
  ASSUME Inv, NEW j \in Job, EndBuild(j)
  PROVE  /\ job[j].pc = "report" /\ job[j].teams = {} /\ job'[j] = Idle /\ faults' = faults
         /\ UNCHANGED <<server, left, built, latest>>
  BY Facts DEF EndBuild, At

(* The rest of what a client holds.                                        *)
KeptWork(j) ==
  job'[j].l = job[j].l /\ job'[j].todo = job[j].todo /\ job'[j].cur = job[j].cur
  /\ job'[j].ids = job[j].ids

(* Without a fault, an import makes one new launch, with one item of each  *)
(* case in the file.                                                       *)
LEMMA ImportEffect ==
  ASSUME Inv, NEW j \in Job, Import(j), faults' = 0
  PROVE  /\ job[j].pc = "import" /\ job'[j].pc = "getid" /\ faults = 0
         /\ UNCHANGED <<left, built, latest>> /\ KeptReport(j)
         /\ job'[j].l = Len(launch) + 1 /\ Len(launch') = Len(launch) + 1
         /\ \A m \in Launch : launch'[m] = launch[m]
         /\ ~launch'[Len(launch) + 1].golang /\ launch'[Len(launch) + 1].nums = {}
         /\ item \subseteq item'
         /\ \A x \in item' \ item : x.case \in FileCases(j) /\ x.launch = Len(launch) + 1
         /\ \A c \in FileCases(j) : \E i \in item' \ item :
              /\ {x \in item' \ item : x.case = c} = {i}
              /\ i.launch = Len(launch) + 1 /\ i.status = job[j].file[c]
<1>1. /\ job \in [Job -> Client] /\ launch \in Seq(LaunchRec) /\ Len(launch) \in Nat
      /\ \A x \in item : x.launch \in 1 .. Len(launch)
  BY Facts
<1>2. job[j].pc = "import" /\ UNCHANGED <<left, built, latest>>
  BY DEF Import, At
<1> DEFINE file == job[j].file
           Id(c) == items + Cardinality({d \in FileCases(j) : d <= c})
           status == IF \E c \in FileCases(j) : file[c] = "FAILED" THEN "FAILED" ELSE "PASSED"
           r == [golang |-> FALSE, team |-> None, nums |-> {}, status |-> status]
           new(c) == [id |-> Id(c), launch |-> Len(launch) + 1, case |-> c, status |-> file[c]]
           N == {new(c) : c \in FileCases(j)}
<1>3. PICK a \in Answer :
        /\ Count(a)
        /\ IF a = "error" THEN UNCHANGED server
           ELSE /\ launch' = Append(launch, r)
                /\ item' = item \cup N
                /\ items' = items + Cardinality(FileCases(j))
        /\ job' = IF a = "ok" THEN [job EXCEPT ![j].pc = "getid", ![j].l = Len(launch) + 1]
                  ELSE [job EXCEPT ![j].pc = "report"]
  BY DEF Import
<1>4. faults = 0 /\ a = "ok"
  BY <1>3, NoFault
<1>5. r \in LaunchRec /\ ~r.golang /\ r.nums = {}
  BY DEF LaunchRec
<1>6. launch' = Append(launch, r) /\ item' = item \cup N
  BY <1>3, <1>4
<1>7. job' = [job EXCEPT ![j].pc = "getid", ![j].l = Len(launch) + 1]
  BY <1>3, <1>4
<1>8. /\ job'[j].pc = "getid" /\ job'[j].l = Len(launch) + 1 /\ KeptReport(j)
  BY <1>1, <1>7 DEF Client, KeptReport
<1>9. \A c \in FileCases(j) : new(c).case = c /\ new(c).launch = Len(launch) + 1
                              /\ new(c).status = file[c]
  OBVIOUS
<1> HIDE DEF r, new
<1>10. /\ Len(launch') = Len(launch) + 1 /\ \A m \in Launch : launch'[m] = launch[m]
       /\ launch'[Len(launch) + 1] = r
  BY <1>1, <1>5, <1>6, LaunchAdded DEF Launch
<1>11. \A c \in FileCases(j) : new(c) \notin item
  <2> SUFFICES ASSUME NEW c \in FileCases(j), new(c) \in item
               PROVE  FALSE
    OBVIOUS
  <2> QED
    BY <1>1, <1>9
<1>12. \A x \in item' \ item : \E c \in FileCases(j) : x = new(c)
  BY <1>6
<1>13. \A c \in FileCases(j) : {x \in item' \ item : x.case = c} = {new(c)}
  BY <1>6, <1>9, <1>11, <1>12
<1>14. \A c \in FileCases(j) : \E i \in item' \ item :
         /\ {x \in item' \ item : x.case = c} = {i}
         /\ i.launch = Len(launch) + 1 /\ i.status = job[j].file[c]
  BY <1>6, <1>9, <1>11, <1>13
<1>15. \A x \in item' \ item : x.case \in FileCases(j) /\ x.launch = Len(launch) + 1
  BY <1>9, <1>12
<1> QED
  BY <1>2, <1>4, <1>5, <1>6, <1>8, <1>10, <1>14, <1>15

(* Without a fault, the id of the imported launch is found and nothing else*)
(* changes.                                                                *)
LEMMA GetLaunchIdEffect ==
  ASSUME Inv, NEW j \in Job, GetLaunchId(j), faults' = 0
  PROVE  /\ job[j].pc = "getid" /\ job'[j].pc = "attrs" /\ faults = 0
         /\ UNCHANGED <<server, left, built, latest>> /\ KeptReport(j) /\ KeptWork(j)
<1>1. job \in [Job -> Client]
  BY Facts
<1>2. PICK a \in ReadAnswer :
        /\ Count(a)
        /\ job' = [job EXCEPT ![j].pc = IF a = "ok" THEN "attrs" ELSE "report"]
  BY DEF GetLaunchId
<1>3. faults = 0 /\ a = "ok"
  BY <1>2, NoFaultRead
<1>4. job' = [job EXCEPT ![j].pc = "attrs"]
  BY <1>2, <1>3
<1>5. job'[j].pc = "attrs" /\ KeptReport(j) /\ KeptWork(j)
  BY <1>1, <1>4 DEF Client, KeptReport, KeptWork
<1> QED
  BY <1>3, <1>5 DEF GetLaunchId, At

(* Without a fault, the imported launch becomes one of the team, for this  *)
(* job alone.                                                              *)
LEMMA AddAttributesEffect ==
  ASSUME Inv, NEW j \in Job, AddAttributes(j), faults' = 0
  PROVE  /\ job[j].pc = "attrs" /\ job'[j].pc = "report" /\ faults = 0
         /\ UNCHANGED <<item, left, built, latest>> /\ KeptReport(j)
         /\ job[j].l \in Launch /\ Len(launch') = Len(launch)
         /\ \A m \in Launch : m # job[j].l => launch'[m] = launch[m]
         /\ launch'[job[j].l].golang /\ launch'[job[j].l].nums = {j}
         /\ launch'[job[j].l].team = job[j].team
<1>1. job[j].pc = "attrs" /\ UNCHANGED <<item, left, built, latest>>
  BY DEF AddAttributes, At
<1>2. /\ job \in [Job -> Client] /\ launch \in Seq(LaunchRec) /\ Len(launch) \in Nat
      /\ job[j].l \in 1 .. Len(launch)
  BY <1>1, Facts DEF ClientOK, Holding, Rerunning
<1>3. PICK a \in Answer :
        /\ Count(a)
        /\ launch' = IF a = "error" THEN launch
                     ELSE [launch EXCEPT ![Here(j)].golang = TRUE, ![Here(j)].nums = {j},
                                         ![Here(j)].team = job[j].team]
  BY DEF AddAttributes
<1>4. faults = 0 /\ a = "ok"
  BY <1>3, NoFault
<1> DEFINE l == job[j].l
           r == [launch[l] EXCEPT !.golang = TRUE, !.nums = {j}, !.team = job[j].team]
<1>5. launch[l] \in LaunchRec /\ job[j].team \in Team \cup {None}
  BY <1>2, ElementOfSeq DEF Client
<1>6. r \in LaunchRec /\ r.golang /\ r.nums = {j} /\ r.team = job[j].team
  BY <1>5 DEF LaunchRec
<1>7. launch' = [launch EXCEPT ![l] = r]
  BY <1>2, <1>3, <1>4, <1>5 DEF Here, LaunchRec
<1> HIDE DEF r
<1>8. /\ Len(launch') = Len(launch) /\ launch'[l] = r
      /\ \A m \in Launch : m # l => launch'[m] = launch[m]
  BY <1>2, <1>6, <1>7, LaunchChange DEF Launch
<1>9. job' = [job EXCEPT ![j].pc = "report"]
  BY DEF AddAttributes
<1>10. job'[j].pc = "report" /\ KeptReport(j)
  BY <1>2, <1>9 DEF Client, KeptReport
<1> QED
  BY <1>1, <1>2, <1>4, <1>6, <1>8, <1>10 DEF Launch

(* Without a fault, the items of one more case are noted for deletion.     *)
LEMMA GetChildEffect ==
  ASSUME Inv, NEW j \in Job, GetChild(j), faults' = 0
  PROVE  /\ job[j].pc = "get" /\ faults = 0
         /\ UNCHANGED <<server, left, built, latest>> /\ KeptReport(j)
         /\ job'[j].l = job[j].l
         /\ job'[j].cur \in job[j].todo /\ job'[j].todo = job[j].todo \ {job'[j].cur}
         /\ job'[j].ids = {i.id : i \in ItemsOf(job[j].l, job'[j].cur)}
         /\ job'[j].pc = IF job'[j].ids = {} THEN "get" ELSE "delete"
<1>1. job \in [Job -> Client] /\ job[j].pc = "get" /\ job[j].todo # {}
  BY Facts DEF GetChild, At
<1> DEFINE c == Min(job[j].todo)
           S == {i.id : i \in ItemsOf(job[j].l, c)}
<1>2. PICK a \in ReadAnswer :
        LET found == IF a = "ok" THEN {i.id : i \in ItemsOf(Here(j), c)} ELSE {}
        IN /\ Count(a)
           /\ job' = [job EXCEPT ![j].pc = IF found = {} THEN "get" ELSE "delete",
                        ![j].cur = c, ![j].ids = found, ![j].todo = @ \ {c},
                        ![j].seen = @ \cup found]
  BY DEF GetChild
<1>3. faults = 0 /\ a = "ok"
  BY <1>2, NoFaultRead
<1>4. c \in job[j].todo
  <2>1. job[j].todo \subseteq Nat
    BY <1>1, Constants DEF Client
  <2> QED
    BY <1>1, <2>1, MinIn
<1>5. PICK p : p = IF S = {} THEN "get" ELSE "delete"
  OBVIOUS
<1>6. job' = [job EXCEPT ![j].pc = p, ![j].cur = c, ![j].ids = S, ![j].todo = @ \ {c},
                         ![j].seen = @ \cup S]
  BY <1>2, <1>3, <1>5 DEF Here
<1> HIDE DEF c, S
<1>7. /\ job'[j].pc = p /\ job'[j].cur = c /\ job'[j].ids = S /\ job'[j].l = job[j].l
      /\ job'[j].todo = job[j].todo \ {c} /\ KeptReport(j)
  BY <1>1, <1>6 DEF Client, KeptReport
<1>8. UNCHANGED <<server, left, built, latest>>
  BY DEF GetChild
<1> QED
  BY <1>1, <1>3, <1>4, <1>5, <1>7, <1>8 DEF S

(* Without a fault, one of the items noted is deleted, and no other.       *)
LEMMA DeleteChildEffect ==
  ASSUME Inv, NEW j \in Job, DeleteChild(j), faults' = 0,
         \A n \in job[j].ids : \E x \in item : x.id = n
  PROVE  /\ job[j].pc = "delete" /\ faults = 0
         /\ UNCHANGED <<launch, left, built, latest>> /\ KeptReport(j)
         /\ job'[j].l = job[j].l /\ job'[j].cur = job[j].cur /\ job'[j].todo = job[j].todo
         /\ \E n \in job[j].ids :
              /\ item' = {x \in item : x.id # n}
              /\ job'[j].ids = job[j].ids \ {n}
              /\ job'[j].pc = IF job'[j].ids = {} THEN "get" ELSE "delete"
<1>1. job \in [Job -> Client] /\ job[j].pc = "delete" /\ job[j].ids # {}
  BY Facts DEF DeleteChild, At, ClientOK
<1> DEFINE id == Min(job[j].ids)
           there == \E i \in item : i.id = id
<1>2. PICK a \in Answer :
        /\ Count(a)
        /\ item' = IF a = "error" THEN item ELSE {i \in item : i.id # id}
        /\ job' = [job EXCEPT ![j].ids = @ \ {id},
                     ![j].pc = IF job[j].ids = {id} THEN "get" ELSE "delete",
                     ![j].kept = IF a = "ok" /\ there THEN @ ELSE @ \cup {job[j].cur}]
  BY DEF DeleteChild
<1>3. faults = 0 /\ a = "ok"
  BY <1>2, NoFault
<1>4. id \in job[j].ids
  <2>1. job[j].ids \subseteq Nat
    BY <1>1 DEF Client
  <2> QED
    BY <1>1, <2>1, MinIn
<1>5. there
  BY <1>4
<1> HIDE DEF id
<1>6. PICK p : p = IF job[j].ids = {id} THEN "get" ELSE "delete"
  OBVIOUS
<1>7. job' = [job EXCEPT ![j].ids = @ \ {id}, ![j].pc = p, ![j].kept = job[j].kept]
  BY <1>1, <1>2, <1>3, <1>5, <1>6 DEF Client
<1>8. /\ job'[j].pc = p /\ job'[j].ids = job[j].ids \ {id} /\ KeptReport(j)
      /\ job'[j].l = job[j].l /\ job'[j].cur = job[j].cur /\ job'[j].todo = job[j].todo
  BY <1>1, <1>7 DEF Client, KeptReport
<1>9. item' = {x \in item : x.id # id} /\ UNCHANGED <<launch, left, built, latest>>
  BY <1>2, <1>3 DEF DeleteChild
<1>10. p = IF job'[j].ids = {} THEN "get" ELSE "delete"
  BY <1>4, <1>6, <1>8
<1> QED
  BY <1>1, <1>3, <1>4, <1>8, <1>9, <1>10

(* Without a fault, the launch is left as it is, or the job still has to be*)
(* added to it.                                                            *)
LEMMA ReadBuildNumsEffect ==
  ASSUME Inv, NEW j \in Job, ReadBuildNums(j), faults' = 0
  PROVE  /\ job[j].pc = "get" /\ job[j].todo = {} /\ faults = 0
         /\ UNCHANGED <<server, left, built, latest>> /\ KeptReport(j) /\ KeptWork(j)
         /\ \/ job'[j].pc = "nums"
            \/ job'[j].pc = "launch" /\ (launch[job[j].l].nums = {} \/ j \in launch[job[j].l].nums)
<1>1. job \in [Job -> Client] /\ job[j].pc = "get" /\ job[j].todo = {}
  BY Facts DEF ReadBuildNums, At
<1> DEFINE nums == launch[job[j].l].nums
<1>2. PICK a \in ReadAnswer :
        /\ Count(a)
        /\ job' = [job EXCEPT ![j].nums = nums,
              ![j].pc = IF a = "error" \/ nums = {} \/ j \in nums THEN "launch" ELSE "nums"]
  BY DEF ReadBuildNums, Here
<1>3. faults = 0 /\ a = "ok"
  BY <1>2, NoFaultRead
<1>4. PICK p : p = IF nums = {} \/ j \in nums THEN "launch" ELSE "nums"
  OBVIOUS
<1>5. job' = [job EXCEPT ![j].nums = nums, ![j].pc = p]
  BY <1>2, <1>3, <1>4
<1>6. UNCHANGED <<server, left, built, latest>>
  BY DEF ReadBuildNums
<1> HIDE DEF nums
<1>7. job'[j].pc = p /\ KeptReport(j) /\ KeptWork(j)
  BY <1>1, <1>5 DEF Client, KeptReport, KeptWork
<1> QED
  BY <1>1, <1>3, <1>4, <1>6, <1>7 DEF nums

(* Without a fault, at most this job is added to the launch.               *)
LEMMA AddBuildNumEffect ==
  ASSUME Inv, NEW j \in Job, AddBuildNum(j), faults' = 0
  PROVE  /\ job[j].pc = "nums" /\ job'[j].pc = "launch" /\ faults = 0
         /\ UNCHANGED <<item, left, built, latest>> /\ KeptReport(j) /\ KeptWork(j)
         /\ job[j].l \in Launch /\ Len(launch') = Len(launch)
         /\ \A m \in Launch : m # job[j].l => launch'[m] = launch[m]
         /\ launch'[job[j].l].golang = launch[job[j].l].golang
         /\ launch'[job[j].l].team = launch[job[j].l].team
         /\ \/ launch'[job[j].l].nums = launch[job[j].l].nums
            \/ launch'[job[j].l].nums = launch[job[j].l].nums \cup {j}
<1>1. job[j].pc = "nums" /\ UNCHANGED <<item, left, built, latest>>
  BY DEF AddBuildNum, At
<1>2. /\ job \in [Job -> Client] /\ launch \in Seq(LaunchRec) /\ Len(launch) \in Nat
      /\ job[j].l \in 1 .. Len(launch)
  BY <1>1, Facts DEF ClientOK, Holding, Rerunning
<1>3. PICK a \in Answer :
        /\ Count(a)
        /\ launch' = IF a # "error" /\ launch[Here(j)].nums = job[j].nums
                     THEN [launch EXCEPT ![Here(j)].nums = @ \cup {j}] ELSE launch
  BY DEF AddBuildNum
<1>4. faults = 0 /\ a = "ok"
  BY <1>3, NoFault
<1> DEFINE l == job[j].l
           r == [launch[l] EXCEPT !.nums = launch[l].nums \cup {j}]
<1>5. launch[l] \in LaunchRec
  BY <1>2, ElementOfSeq
<1>6. /\ r \in LaunchRec /\ r.golang = launch[l].golang /\ r.team = launch[l].team
      /\ r.nums = launch[l].nums \cup {j}
  BY <1>5 DEF LaunchRec
<1>7. launch' = launch \/ launch' = [launch EXCEPT ![l] = r]
  BY <1>2, <1>3, <1>5 DEF Here, LaunchRec
<1> HIDE DEF r
<1>8. /\ Len(launch') = Len(launch) /\ (launch'[l] = r \/ launch'[l] = launch[l])
      /\ \A m \in Launch : m # l => launch'[m] = launch[m]
  BY <1>2, <1>6, <1>7, LaunchChange DEF Launch
<1>9. job' = [job EXCEPT ![j].pc = "launch"]
  BY DEF AddBuildNum
<1>10. job'[j].pc = "launch" /\ KeptReport(j) /\ KeptWork(j)
  BY <1>2, <1>9 DEF Client, KeptReport, KeptWork
<1> QED
  BY <1>1, <1>2, <1>4, <1>6, <1>8, <1>10 DEF Launch

(* Without a fault, starting the launch again keeps what it is for.        *)
LEMMA StartLaunchEffect ==
  ASSUME Inv, NEW j \in Job, StartLaunch(j), faults' = 0
  PROVE  /\ job[j].pc = "launch" /\ job'[j].pc = "suite" /\ faults = 0
         /\ UNCHANGED <<item, left, built, latest>> /\ KeptReport(j) /\ KeptWork(j)
         /\ Len(launch') = Len(launch)
         /\ \A m \in Launch : /\ launch'[m].golang = launch[m].golang
                              /\ launch'[m].team = launch[m].team
                              /\ launch'[m].nums = launch[m].nums
<1>1. job[j].pc = "launch" /\ UNCHANGED <<item, left, built, latest>>
  BY DEF StartLaunch, At
<1>2. /\ job \in [Job -> Client] /\ launch \in Seq(LaunchRec) /\ Len(launch) \in Nat
      /\ job[j].l \in 1 .. Len(launch)
  BY <1>1, Facts DEF ClientOK, Holding, Rerunning
<1>3. PICK a \in Answer :
        /\ Count(a)
        /\ launch' = IF a = "error" THEN launch ELSE [launch EXCEPT ![Here(j)].status = "RUNNING"]
        /\ job' = [job EXCEPT ![j].pc = IF a = "ok" THEN "suite" ELSE "report"]
  BY DEF StartLaunch
<1>4. faults = 0 /\ a = "ok"
  BY <1>3, NoFault
<1> DEFINE l == job[j].l
           r == [launch[l] EXCEPT !.status = "RUNNING"]
<1>5. launch[l] \in LaunchRec
  BY <1>2, ElementOfSeq
<1>6. /\ r \in LaunchRec /\ r.golang = launch[l].golang /\ r.team = launch[l].team
      /\ r.nums = launch[l].nums
  BY <1>5 DEF LaunchRec
<1>7. launch' = [launch EXCEPT ![l] = r]
  BY <1>2, <1>3, <1>4, <1>5 DEF Here, LaunchRec
<1> HIDE DEF r
<1>8. /\ Len(launch') = Len(launch) /\ launch'[l] = r
      /\ \A m \in Launch : m # l => launch'[m] = launch[m]
  BY <1>2, <1>6, <1>7, LaunchChange DEF Launch
<1>9. job' = [job EXCEPT ![j].pc = "suite"]
  BY <1>3, <1>4
<1>10. job'[j].pc = "suite" /\ KeptReport(j) /\ KeptWork(j)
  BY <1>2, <1>9 DEF Client, KeptReport, KeptWork
<1> QED
  BY <1>1, <1>4, <1>6, <1>8, <1>10

(* Without a fault, every case of the file is to be added.                 *)
LEMMA StartSuiteEffect ==
  ASSUME Inv, NEW j \in Job, StartSuite(j), faults' = 0
  PROVE  /\ job[j].pc = "suite" /\ job'[j].pc = "cases" /\ faults = 0
         /\ UNCHANGED <<server, left, built, latest>> /\ KeptReport(j)
         /\ job'[j].l = job[j].l /\ job'[j].todo = FileCases(j)
<1>1. job \in [Job -> Client] /\ job[j].pc = "suite"
  BY Facts DEF StartSuite, At
<1>2. PICK a \in Answer :
        /\ Count(a)
        /\ job' = IF a = "ok" THEN [job EXCEPT ![j].pc = "cases", ![j].todo = FileCases(j)]
                  ELSE [job EXCEPT ![j].pc = "finish"]
  BY DEF StartSuite
<1>3. faults = 0 /\ a = "ok"
  BY <1>2, NoFault
<1> DEFINE S == FileCases(j)
<1>4. job' = [job EXCEPT ![j].pc = "cases", ![j].todo = S]
  BY <1>2, <1>3
<1>5. UNCHANGED <<server, left, built, latest>>
  BY DEF StartSuite
<1> HIDE DEF S
<1>6. /\ job'[j].pc = "cases" /\ job'[j].l = job[j].l /\ job'[j].todo = S /\ KeptReport(j)
  BY <1>1, <1>4 DEF Client, KeptReport
<1> QED
  BY <1>1, <1>3, <1>5, <1>6 DEF S

(* Without a fault, one item of one more case is added to the launch.      *)
LEMMA StartChildEffect ==
  ASSUME Inv, NEW j \in Job, StartChild(j), faults' = 0, job[j].kept = {}
  PROVE  /\ job[j].pc = "cases" /\ job'[j].pc = "child" /\ faults = 0
         /\ UNCHANGED <<launch, left, built, latest>> /\ KeptReport(j)
         /\ job'[j].l = job[j].l
         /\ job'[j].cur \in job[j].todo /\ job'[j].todo = job[j].todo \ {job'[j].cur}
         /\ job'[j].ids = {items + 1}
         /\ item' = item \cup {[id |-> items + 1, launch |-> job[j].l, case |-> job'[j].cur,
                                status |-> "OPEN"]}
<1>1. /\ job \in [Job -> Client] /\ job[j].pc = "cases" /\ job[j].todo # {}
      /\ UNCHANGED <<launch, left, built, latest>>
  BY Facts DEF StartChild, At
<1> DEFINE c == Min(job[j].todo)
           result == IF job[j].file[c] = "FAILED" THEN "FAILED" ELSE job[j].result
           i == [id |-> items + 1, launch |-> job[j].l, case |-> c, status |-> "OPEN"]
<1>2. ~LeftAlone(j, c)
  BY DEF LeftAlone
<1>3. PICK a \in Answer :
        IF LeftAlone(j, c)
        THEN /\ a = "ok"
             /\ job' = [job EXCEPT ![j].todo = @ \ {c}, ![j].result = result]
             /\ UNCHANGED <<item, items, faults>>
        ELSE /\ Count(a)
             /\ IF a = "error" THEN UNCHANGED <<item, items>>
                ELSE /\ item' = item \cup {i}
                     /\ items' = items + 1
             /\ job' = [job EXCEPT ![j].pc = IF a = "ok" THEN "child" ELSE "cases", ![j].cur = c,
                          ![j].ids = IF a = "ok" THEN {items + 1} ELSE {},
                          ![j].todo = @ \ {c}, ![j].result = result]
  BY DEF StartChild, Here
<1>4. Count(a)
  BY <1>2, <1>3
<1>5. faults = 0 /\ a = "ok"
  BY <1>4, NoFault
<1>6. c \in job[j].todo
  <2>1. job[j].todo \subseteq Nat
    BY <1>1, Constants DEF Client
  <2> QED
    BY <1>1, <2>1, MinIn
<1>7. item' = item \cup {i}
  BY <1>2, <1>3, <1>5
<1>8. job' = [job EXCEPT ![j].pc = "child", ![j].cur = c, ![j].ids = {items + 1},
                          ![j].todo = @ \ {c}, ![j].result = result]
  BY <1>2, <1>3, <1>5
<1>9. item' = item \cup {[id |-> items + 1, launch |-> job[j].l, case |-> c, status |-> "OPEN"]}
  BY <1>7
<1> HIDE DEF c, result, i
<1>10. /\ job'[j].pc = "child" /\ job'[j].cur = c /\ job'[j].ids = {items + 1}
       /\ job'[j].todo = job[j].todo \ {c} /\ job'[j].l = job[j].l /\ KeptReport(j)
  BY <1>1, <1>8 DEF Client, KeptReport
<1> QED
  BY <1>1, <1>5, <1>6, <1>9, <1>10

(* Without a fault, the item just added gets the result in the file.       *)
LEMMA FinishChildEffect ==
  ASSUME Inv, NEW j \in Job, FinishChild(j), faults' = 0
  PROVE  /\ job[j].pc = "child" /\ job'[j].pc = "cases" /\ faults = 0
         /\ UNCHANGED <<launch, left, built, latest>> /\ KeptReport(j)
         /\ job'[j].l = job[j].l /\ job'[j].cur = job[j].cur /\ job'[j].todo = job[j].todo
         /\ item' = {IF i.id \in job[j].ids THEN [i EXCEPT !.status = job[j].file[i.case]] ELSE i
                     : i \in item}
<1>1. job \in [Job -> Client] /\ job[j].pc = "child" /\ UNCHANGED <<launch, left, built, latest>>
  BY Facts DEF FinishChild, At
<1>2. PICK a \in Answer :
        /\ Count(a)
        /\ item' = IF a = "error" THEN item
                   ELSE {IF i.id \in job[j].ids THEN [i EXCEPT !.status = StatusOf(j, i.case)] ELSE i
                         : i \in item}
  BY DEF FinishChild
<1>3. faults = 0 /\ a = "ok"
  BY <1>2, NoFault
<1>4. job' = [job EXCEPT ![j].pc = "cases", ![j].ids = {}]
  BY DEF FinishChild
<1>5. /\ job'[j].pc = "cases" /\ job'[j].l = job[j].l /\ job'[j].cur = job[j].cur
      /\ job'[j].todo = job[j].todo /\ KeptReport(j)
  BY <1>1, <1>4 DEF Client, KeptReport
<1> QED
  BY <1>1, <1>2, <1>3, <1>5 DEF StatusOf

(* Without a fault, the suite ends when no case is left to add.            *)
LEMMA FinishSuiteEffect ==
  ASSUME Inv, NEW j \in Job, FinishSuite(j), faults' = 0
  PROVE  /\ job[j].pc = "cases" /\ job[j].todo = {} /\ job'[j].pc = "finish" /\ faults = 0
         /\ UNCHANGED <<server, left, built, latest>> /\ KeptReport(j) /\ KeptWork(j)
<1>1. job \in [Job -> Client] /\ job[j].pc = "cases" /\ job[j].todo = {}
  BY Facts DEF FinishSuite, At
<1>2. PICK a \in Answer : Count(a)
  BY DEF FinishSuite
<1>3. faults = 0
  BY <1>2, NoFault
<1>4. job' = [job EXCEPT ![j].pc = "finish"] /\ UNCHANGED <<server, left, built, latest>>
  BY DEF FinishSuite
<1>5. job'[j].pc = "finish" /\ KeptReport(j) /\ KeptWork(j)
  BY <1>1, <1>4 DEF Client, KeptReport, KeptWork
<1> QED
  BY <1>1, <1>3, <1>4, <1>5

(* Without a fault, finishing the launch keeps what it is for and what is  *)
(* in it.                                                                  *)
LEMMA FinishLaunchEffect ==
  ASSUME Inv, NEW j \in Job, FinishLaunch(j), faults' = 0
  PROVE  /\ job[j].pc = "finish" /\ job'[j].pc = "report" /\ faults = 0
         /\ UNCHANGED <<item, left, built, latest>> /\ KeptReport(j)
         /\ Len(launch') = Len(launch)
         /\ \A m \in Launch : /\ launch'[m].golang = launch[m].golang
                              /\ launch'[m].team = launch[m].team
                              /\ launch'[m].nums = launch[m].nums
<1>1. job[j].pc = "finish" /\ UNCHANGED <<item, left, built, latest>>
  BY DEF FinishLaunch, At
<1>2. /\ job \in [Job -> Client] /\ launch \in Seq(LaunchRec) /\ Len(launch) \in Nat
      /\ job[j].l \in 1 .. Len(launch)
  BY <1>1, Facts DEF ClientOK, Holding, Rerunning
<1>3. PICK a \in Answer :
        /\ Count(a)
        /\ launch' = IF a = "error" THEN launch
                     ELSE [launch EXCEPT ![Here(j)].status = job[j].result]
  BY DEF FinishLaunch
<1>4. faults = 0 /\ a = "ok"
  BY <1>3, NoFault
<1> DEFINE l == job[j].l
           r == [launch[l] EXCEPT !.status = job[j].result]
<1>5. launch[l] \in LaunchRec /\ job[j].result \in {"PASSED", "FAILED"}
  BY <1>2, ElementOfSeq DEF Client
<1>6. /\ r \in LaunchRec /\ r.golang = launch[l].golang /\ r.team = launch[l].team
      /\ r.nums = launch[l].nums
  BY <1>5 DEF LaunchRec
<1>7. launch' = [launch EXCEPT ![l] = r]
  BY <1>2, <1>3, <1>4, <1>5 DEF Here, LaunchRec
<1> HIDE DEF r
<1>8. /\ Len(launch') = Len(launch) /\ launch'[l] = r
      /\ \A m \in Launch : m # l => launch'[m] = launch[m]
  BY <1>2, <1>6, <1>7, LaunchChange DEF Launch
<1>9. job' = [job EXCEPT ![j].pc = "report"]
  BY DEF FinishLaunch
<1>10. job'[j].pc = "report" /\ KeptReport(j)
  BY <1>2, <1>9 DEF Client, KeptReport
<1> QED
  BY <1>1, <1>4, <1>6, <1>8, <1>10

-----------------------------------------------------------------------------
(* Which jobs are built, and that they share no case.                      *)
Active(j) == left[j] > 0 \/ j \in built
ActiveInv ==
  /\ left \in [Job -> Nat] /\ built \subseteq Job /\ IsFiniteSet(built)
  /\ \A j \in Job : job[j].pc # "idle" => j \in built
ApartInv ==
  \A j, k \in Job : j # k /\ Active(j) /\ Active(k) => CasesOf[j] \cap CasesOf[k] = {}

(* A client has results only after it ran, each in a file of a case of its *)
(* own, and knows the launch it works on.                                  *)
FileOK(j) ==
  /\ job[j].pc \in Choosing => job[j].teams = {} /\ \A c \in Case : job[j].file[c] = None
  /\ \A c \in Case : job[j].file[c] # None => c \in CasesOf[j] /\ latest[c] = job[j].file[c]
PlaceOK(j) ==
  /\ job[j].pc \in Reporting => job[j].team \in Team /\ job[j].team \notin job[j].teams
  /\ job[j].pc \in Rerunning => job[j].l \in LaunchesOf(job[j].team) /\ job[j].kept = {}
  /\ job[j].pc = "delete" => \A n \in job[j].ids : \E x \in item : x.id = n
  /\ job[j].pc \in Importing => job[j].l \in Launch /\ ~launch[job[j].l].golang
  /\ job[j].pc \in {"delete", "child"} => job[j].cur \notin job[j].todo
ImportsApart ==
  \A j, k \in Job : j # k /\ job[j].pc \in Importing /\ job[k].pc \in Importing => job[j].l # job[k].l
Placed(x) ==
  \/ x.launch \in LaunchesOf(TeamOf[x.case])
  \/ \E j \in Job : job[j].pc \in Importing /\ job[j].l = x.launch /\ x.case \in FileCases(j)
PlaceInv ==
  faults = 0 => /\ \A j \in Job : FileOK(j) /\ PlaceOK(j)
                /\ ImportsApart /\ \A x \in item : Placed(x)

(* What a step of one job leaves alone.                                    *)
LaunchFrame(j) ==
  /\ Len(launch) <= Len(launch')
  /\ \A m \in Launch : ~(job[j].pc = "attrs" /\ m = job[j].l) =>
       /\ launch'[m].golang = launch[m].golang /\ launch'[m].team = launch[m].team
       /\ launch'[m].nums = launch[m].nums \/ launch'[m].nums = launch[m].nums \cup {j}
  /\ \A m \in 1 .. Len(launch') : m > Len(launch) => ~launch'[m].golang /\ launch'[m].nums = {}
ItemsKept(j) ==
  /\ \A x \in item : x.case \notin FileCases(j) => x \in item'
  /\ \A x \in item' : x.case \notin FileCases(j) => x \in item
Frame(j) ==
  /\ Active(j) /\ faults = 0
  /\ LaunchFrame(j) /\ ItemsKept(j)
  /\ \A c \in Case : c \notin CasesOf[j] => latest'[c] = latest[c]
  /\ \A k \in Job : k # j => job'[k] = job[k]
Acts(j) == StartBuild(j) \/ Step(j) \/ Kill(j)

(* A job is built before it does anything.                                 *)
LEMMA BuildStep ==
  ASSUME NEW j \in Job, Acts(j)
  PROVE  \/ StartBuild(j)
         \/ job[j].pc # "idle" /\ UNCHANGED <<left, built>>
  BY DEF Acts, Step, CheckLaunches, AskFailed, Choose, Execute, LogResult, EndBuild, Import,
         GetLaunchId, AddAttributes, GetChild, DeleteChild, ReadBuildNums, AddBuildNum, StartLaunch,
         StartSuite, StartChild, FinishChild, FinishSuite, FinishLaunch, Kill, At

(* Only a job that may be built takes a step, and none becomes one that    *)
(* may.                                                                    *)
LEMMA ActiveStep ==
  ASSUME Inv, ActiveInv, NEW j \in Job, Acts(j)
  PROVE  Active(j) /\ ActiveInv' /\ \A k \in Job : Active(k)' => Active(k)
<1>1. \A k \in Job : k # j => job'[k] = job[k]
  BY NextStepOK DEF Acts, StepOK
<1>2. CASE StartBuild(j)
  <2>1. left' = [left EXCEPT ![j] = @ - 1] /\ built' = built \cup {j} /\ left[j] > 0
    BY <1>2 DEF StartBuild
  <2>2. IsFiniteSet(built')
    BY <2>1, FS_AddElement DEF ActiveInv
  <2>3. left' \in [Job -> Nat] /\ \A k \in Job : left'[k] > 0 => left[k] > 0
    BY <2>1 DEF ActiveInv
  <2> QED
    BY <1>1, <2>1, <2>2, <2>3 DEF ActiveInv, Active
<1>3. CASE job[j].pc # "idle" /\ UNCHANGED <<left, built>>
  BY <1>1, <1>3 DEF ActiveInv, Active
<1> QED
  BY <1>2, <1>3, BuildStep

(* The jobs that may be built go on sharing no case.                       *)
LEMMA ApartStep ==
  ASSUME Inv, ActiveInv, ApartInv, NEW j \in Job, Acts(j)
  PROVE  ApartInv'
<1>1. \A k \in Job : Active(k)' => Active(k)
  BY ActiveStep
<1> QED
  BY <1>1 DEF ApartInv

(* A step that leaves the server alone.                                    *)
LEMMA QuietFrame ==
  ASSUME Inv, NEW j \in Job, UNCHANGED server
  PROVE  LaunchFrame(j) /\ ItemsKept(j)
<1>1. launch' = launch /\ item' = item /\ Len(launch) \in Nat
  BY Facts DEF server
<1> QED
  BY <1>1 DEF LaunchFrame, ItemsKept

(* A step that keeps what every launch is for is quiet about launches.     *)
LEMMA LaunchQuiet ==
  ASSUME Inv, NEW j \in Job, Len(launch') = Len(launch),
         \A m \in Launch : /\ launch'[m].golang = launch[m].golang
                           /\ launch'[m].team = launch[m].team
                           /\ launch'[m].nums = launch[m].nums
  PROVE  LaunchFrame(j)
  BY Facts DEF LaunchFrame

(* A step that changes no item keeps the items of every other case.        *)
LEMMA ItemQuiet ==
  ASSUME NEW j \in Job, item' = item
  PROVE  ItemsKept(j)
  BY DEF ItemsKept

(* What any step of one job leaves alone: the other clients, the items of  *)
(* the other jobs' cases, and what the launches are for.                   *)
LEMMA StepFrame ==
  ASSUME Inv, ActiveInv, NEW j \in Job, Acts(j), PlaceOK(j), faults' = 0
  PROVE  Frame(j)
<1>1. Active(j) /\ \A k \in Job : k # j => job'[k] = job[k]
  BY ActiveStep, NextStepOK DEF Acts, StepOK
<1>2. faults \in 0 .. MaxFaults /\ Len(launch) \in Nat /\ job \in [Job -> Client]
  BY Facts
<1>4. CASE StartBuild(j)
  BY <1>1, <1>4, StartBuildEffect, QuietFrame DEF Frame
<1>5. CASE CheckLaunches(j)
  BY <1>1, <1>5, CheckLaunchesEffect, QuietFrame DEF Frame
<1>6. CASE AskFailed(j)
  BY <1>1, <1>6, AskFailedEffect, QuietFrame DEF Frame
<1>7. CASE Choose(j)
  BY <1>1, <1>7, ChooseEffect, QuietFrame DEF Frame
<1>8. CASE Execute(j)
  <2>1. UNCHANGED server /\ faults' = faults
    BY <1>8, ExecuteEffect
  <2>2. \A c \in Case : c \notin CasesOf[j] => latest'[c] = latest[c]
    BY <1>8, ExecuteEffect
  <2> QED
    BY <1>1, <2>1, <2>2, QuietFrame DEF Frame
<1>9. CASE LogResult(j)
  BY <1>1, <1>9, LogResultEffect, QuietFrame DEF Frame
<1>10. CASE EndBuild(j)
  BY <1>1, <1>10, EndBuildEffect, QuietFrame DEF Frame
<1>11. CASE Import(j)
  <2>1. /\ faults = 0 /\ latest' = latest /\ Len(launch') = Len(launch) + 1
        /\ \A m \in Launch : launch'[m] = launch[m]
        /\ ~launch'[Len(launch) + 1].golang /\ launch'[Len(launch) + 1].nums = {}
        /\ item \subseteq item' /\ \A x \in item' \ item : x.case \in FileCases(j)
    BY <1>11, ImportEffect
  <2>2. LaunchFrame(j)
    BY <1>2, <2>1 DEF LaunchFrame, Launch
  <2>3. ItemsKept(j)
    BY <2>1 DEF ItemsKept
  <2> QED
    BY <1>1, <2>1, <2>2, <2>3 DEF Frame
<1>12. CASE GetLaunchId(j)
  BY <1>1, <1>12, GetLaunchIdEffect, QuietFrame DEF Frame
<1>13. CASE AddAttributes(j)
  <2>1. /\ job[j].pc = "attrs" /\ faults = 0 /\ latest' = latest /\ Len(launch') = Len(launch)
        /\ \A m \in Launch : m # job[j].l => launch'[m] = launch[m]
        /\ item' = item
    BY <1>13, AddAttributesEffect
  <2>2. LaunchFrame(j)
    BY <1>2, <2>1 DEF LaunchFrame, Launch
  <2> QED
    BY <1>1, <2>1, <2>2, ItemQuiet DEF Frame
<1>14. CASE GetChild(j)
  BY <1>1, <1>14, GetChildEffect, QuietFrame DEF Frame
<1>15. CASE DeleteChild(j)
  <2>1. job[j].pc = "delete"
    BY <1>15 DEF DeleteChild, At
  <2>2. \A n \in job[j].ids : \E x \in item : x.id = n
    BY <2>1 DEF PlaceOK
  <2>3. /\ faults = 0 /\ UNCHANGED <<launch, latest>>
        /\ \E n \in job[j].ids : item' = {x \in item : x.id # n}
    BY <1>15, <2>2, DeleteChildEffect
  <2>4. /\ job[j].cur \in FileCases(j)
        /\ \A x \in item : x.id \in job[j].ids => x.case = job[j].cur
    BY <2>1, Facts DEF ClientOK, ReplaceOK
  <2>5. ItemsKept(j)
    BY <2>3, <2>4 DEF ItemsKept
  <2>6. LaunchFrame(j)
    BY <2>3, LaunchQuiet
  <2> QED
    BY <1>1, <2>3, <2>5, <2>6 DEF Frame
<1>16. CASE ReadBuildNums(j)
  BY <1>1, <1>16, ReadBuildNumsEffect, QuietFrame DEF Frame
<1>17. CASE AddBuildNum(j)
  <2>1. /\ faults = 0 /\ latest' = latest /\ item' = item /\ Len(launch') = Len(launch)
        /\ \A m \in Launch : m # job[j].l => launch'[m] = launch[m]
        /\ launch'[job[j].l].golang = launch[job[j].l].golang
        /\ launch'[job[j].l].team = launch[job[j].l].team
        /\ \/ launch'[job[j].l].nums = launch[job[j].l].nums
           \/ launch'[job[j].l].nums = launch[job[j].l].nums \cup {j}
    BY <1>17, AddBuildNumEffect
  <2>2. LaunchFrame(j)
    BY <1>2, <2>1 DEF LaunchFrame, Launch
  <2> QED
    BY <1>1, <2>1, <2>2, ItemQuiet DEF Frame
<1>18. CASE StartLaunch(j)
  <2>1. LaunchFrame(j)
    BY <1>18, StartLaunchEffect, LaunchQuiet
  <2> QED
    BY <1>1, <1>18, <2>1, StartLaunchEffect, ItemQuiet DEF Frame
<1>19. CASE StartSuite(j)
  BY <1>1, <1>19, StartSuiteEffect, QuietFrame DEF Frame
<1>20. CASE StartChild(j)
  <2>1. job[j].pc = "cases"
    BY <1>20 DEF StartChild, At
  <2>2. job[j].kept = {} /\ job[j].todo \subseteq FileCases(j)
    BY <2>1, Facts DEF PlaceOK, Rerunning, ClientOK
  <2>3. /\ faults = 0 /\ UNCHANGED <<launch, latest>> /\ job'[j].cur \in job[j].todo
        /\ item' = item \cup {[id |-> items + 1, launch |-> job[j].l, case |-> job'[j].cur,
                               status |-> "OPEN"]}
    BY <1>20, <2>2, StartChildEffect
  <2>4. ItemsKept(j)
    BY <2>2, <2>3 DEF ItemsKept
  <2>5. LaunchFrame(j)
    BY <2>3, LaunchQuiet
  <2> QED
    BY <1>1, <2>3, <2>4, <2>5 DEF Frame
<1>21. CASE FinishChild(j)
  <2>1. job[j].pc = "child"
    BY <1>21 DEF FinishChild, At
  <2>2. /\ faults = 0 /\ UNCHANGED <<launch, latest>>
        /\ item' = {IF i.id \in job[j].ids THEN [i EXCEPT !.status = job[j].file[i.case]] ELSE i
                    : i \in item}
    BY <1>21, FinishChildEffect
  <2>3. /\ job[j].cur \in FileCases(j)
        /\ \A x \in item : x.id \in job[j].ids => x.case = job[j].cur
    BY <2>1, Facts DEF ClientOK, ReplaceOK
  <2>4. \A i \in item : [i EXCEPT !.status = job[j].file[i.case]].case = i.case
    BY Facts DEF ItemRec
  <2>5. ItemsKept(j)
    BY <2>2, <2>3, <2>4 DEF ItemsKept
  <2>6. LaunchFrame(j)
    BY <2>2, LaunchQuiet
  <2> QED
    BY <1>1, <2>2, <2>5, <2>6 DEF Frame
<1>22. CASE FinishSuite(j)
  BY <1>1, <1>22, FinishSuiteEffect, QuietFrame DEF Frame
<1>23. CASE FinishLaunch(j)
  <2>1. LaunchFrame(j)
    BY <1>23, FinishLaunchEffect, LaunchQuiet
  <2> QED
    BY <1>1, <1>23, <2>1, FinishLaunchEffect, ItemQuiet DEF Frame
<1>24. CASE Kill(j)
  BY <1>2, <1>24, Constants DEF Kill, Die
<1> QED
  BY <1>4, <1>5, <1>6, <1>7, <1>8, <1>9, <1>10, <1>11, <1>12, <1>13, <1>14, <1>15, <1>16, <1>17,
     <1>18, <1>19, <1>20, <1>21, <1>22, <1>23, <1>24 DEF Acts, Step

-----------------------------------------------------------------------------
(* The launch of a team is found from then on.                             *)
LEMMA LaunchesStay ==
  ASSUME Inv, NEW j \in Job, PlaceOK(j), Frame(j), NEW t \in Team
  PROVE  /\ \A l \in LaunchesOf(t) : l \in LaunchesOf(t)'
         /\ \A l \in LaunchesOf(t)' : l \in LaunchesOf(t) \/ (job[j].pc = "attrs" /\ l = job[j].l)
         /\ job[j].pc # "attrs" => LaunchesOf(t)' = LaunchesOf(t)
<1>1. Len(launch) \in Nat /\ Len(launch) <= Len(launch') /\ Len(launch') \in Nat
  BY Facts DEF Frame, LaunchFrame
<1>2. job[j].pc = "attrs" => ~launch[job[j].l].golang
  BY DEF PlaceOK, Importing
<1>3. \A m \in Launch : ~(job[j].pc = "attrs" /\ m = job[j].l) =>
        launch'[m].golang = launch[m].golang /\ launch'[m].team = launch[m].team
  BY DEF Frame, LaunchFrame
<1>4. \A m \in 1 .. Len(launch') : m > Len(launch) => ~launch'[m].golang
  BY DEF Frame, LaunchFrame
<1>5. \A l \in LaunchesOf(t) : l \in LaunchesOf(t)'
  BY <1>1, <1>2, <1>3 DEF LaunchesOf, GolangLaunches, Launch
<1>6. \A l \in LaunchesOf(t)' : l \in LaunchesOf(t) \/ (job[j].pc = "attrs" /\ l = job[j].l)
  BY <1>1, <1>3, <1>4 DEF LaunchesOf, GolangLaunches, Launch
<1> QED
  BY <1>5, <1>6

(* A step of one job leaves the file and the place of every other job in   *)
(* order.                                                                  *)
LEMMA OthersPlace ==
  ASSUME Inv, ActiveInv, ApartInv, PlaceInv, NEW j \in Job, Frame(j), NEW k \in Job, k # j
  PROVE  FileOK(k)' /\ PlaceOK(k)'
<1>1. /\ faults = 0 /\ FileOK(k) /\ PlaceOK(k) /\ PlaceOK(j) /\ ImportsApart
      /\ job'[k] = job[k] /\ Active(j)
  BY DEF PlaceInv, Frame
<1>2. ClientOK(k) /\ ReplaceOK(k) /\ job[k] \in Client
  BY Facts
<1>3. Active(k) => CasesOf[j] \cap CasesOf[k] = {}
  BY <1>1 DEF ApartInv
<1>4. job[k].pc # "idle" => Active(k)
  BY DEF ActiveInv, Active
<1>5. FileOK(k)'
  <2>1. \A c \in Case : job[k].file[c] # None => latest'[c] = latest[c]
    <3> SUFFICES ASSUME NEW c \in Case, job[k].file[c] # None
                 PROVE  latest'[c] = latest[c]
      OBVIOUS
    <3>1. job[k].pc # "idle" /\ c \in CasesOf[k]
      BY <1>1 DEF FileOK, Choosing
    <3> QED
      BY <1>3, <1>4, <3>1 DEF Frame
  <2> QED
    BY <1>1, <2>1 DEF FileOK
<1>6. job'[k].pc \in Rerunning => job'[k].l \in LaunchesOf(job[k].team)'
  <2> SUFFICES ASSUME job[k].pc \in Rerunning
               PROVE  job'[k].l \in LaunchesOf(job[k].team)'
    BY <1>1
  <2>1. PICK t \in Team : t = job[k].team
    BY <1>1 DEF PlaceOK, Reporting, Holding
  <2>2. job[k].l \in LaunchesOf(t)'
    BY <1>1, <2>1, LaunchesStay DEF PlaceOK
  <2> QED
    BY <1>1, <2>1, <2>2
<1>7. job[k].pc = "delete" => \A n \in job[k].ids : \E x \in item' : x.id = n
  <2> SUFFICES ASSUME job[k].pc = "delete", NEW n \in job[k].ids
               PROVE  \E x \in item' : x.id = n
    OBVIOUS
  <2>1. PICK x \in item : x.id = n
    BY <1>1 DEF PlaceOK
  <2>2. x.case = job[k].cur /\ job[k].cur \in FileCases(k)
    BY <1>2, <2>1 DEF ReplaceOK, ClientOK
  <2>3. job[k].cur \in CasesOf[k] /\ job[k].cur \in Case
    BY <1>1, <2>2 DEF FileOK, FileCases
  <2>4. job[k].cur \notin CasesOf[j]
    BY <1>3, <1>4, <2>3
  <2>5. job[k].cur \notin FileCases(j)
    BY <2>4 DEF FileCases, PlaceInv, FileOK, Frame
  <2> QED
    BY <2>1, <2>2, <2>5 DEF Frame, ItemsKept
<1>8. job[k].pc \in Importing => job[k].l \in Launch' /\ ~launch'[job[k].l].golang
  <2> SUFFICES ASSUME job[k].pc \in Importing
               PROVE  job[k].l \in Launch' /\ ~launch'[job[k].l].golang
    OBVIOUS
  <2>1. job[k].l \in Launch /\ ~launch[job[k].l].golang
    BY <1>1 DEF PlaceOK
  <2>2. ~(job[j].pc = "attrs" /\ job[k].l = job[j].l)
    BY <1>1 DEF ImportsApart, Importing
  <2> QED
    BY <2>1, <2>2, Facts DEF Frame, LaunchFrame, Launch
<1>9. PlaceOK(k)'
  BY <1>1, <1>6, <1>7, <1>8 DEF PlaceOK
<1> QED
  BY <1>5, <1>9

(* A job that is not reporting has no launch to be wrong about.            *)
LEMMA AwayPlace ==
  ASSUME NEW j \in Job, job'[j].pc \notin Reporting
  PROVE  PlaceOK(j)'
  BY DEF PlaceOK, Reporting, Holding, Rerunning, Importing

(* A job that goes on with its rerun in the same launch keeps its place.   *)
LEMMA RerunPlace ==
  ASSUME Inv, NEW j \in Job, PlaceOK(j), Frame(j), job[j].pc \in Rerunning, job'[j].pc \in Rerunning,
         KeptReport(j), job'[j].l = job[j].l,
         job'[j].pc = "delete" => \A n \in job'[j].ids : \E x \in item' : x.id = n,
         job'[j].pc \in {"delete", "child"} => job'[j].cur \notin job'[j].todo
  PROVE  PlaceOK(j)'
<1>1. PICK t \in Team : t = job[j].team
  BY DEF PlaceOK, Reporting, Holding
<1>2. job'[j].team \in Team /\ job'[j].team \notin job'[j].teams /\ job'[j].kept = {}
  BY DEF PlaceOK, KeptReport, Reporting, Holding
<1>3. job'[j].l \in LaunchesOf(t)' /\ job'[j].team = t
  BY <1>1, LaunchesStay DEF PlaceOK, KeptReport
<1>4. job'[j].pc \notin Importing
  BY DEF Rerunning, Importing
<1> QED
  BY <1>2, <1>3, <1>4 DEF PlaceOK

(* A step of a job keeps its own place in order.                           *)
LEMMA OwnPlace ==
  ASSUME Inv, PlaceInv, NEW j \in Job, Acts(j), Frame(j), faults' = 0
  PROVE  PlaceOK(j)'
<1>1. PlaceOK(j) /\ job \in [Job -> Client] /\ ClientOK(j) /\ ReplaceOK(j)
  BY Facts DEF PlaceInv, Frame
<1>2. CASE StartBuild(j)
  BY <1>2, StartBuildEffect, AwayPlace DEF Reporting, Holding, Rerunning
<1>3. CASE CheckLaunches(j)
  BY <1>3, CheckLaunchesEffect, AwayPlace DEF Reporting, Holding, Rerunning
<1>4. CASE AskFailed(j)
  BY <1>4, AskFailedEffect, AwayPlace DEF Reporting, Holding, Rerunning
<1>5. CASE Choose(j)
  <2>1. job'[j] = Idle \/ job'[j].pc = "execute"
    BY <1>5, ChooseEffect
  <2> QED
    BY <2>1, AwayPlace DEF Reporting, Holding, Rerunning, Idle
<1>6. CASE Execute(j)
  BY <1>6, ExecuteEffect, AwayPlace DEF Reporting, Holding, Rerunning
<1>7. CASE LogResult(j)
  <2>1. job[j].teams \subseteq Team
    BY <1>1 DEF Client
  <2>2. PICK t \in Team : t = job'[j].team
    BY <1>7, <2>1, LogResultEffect
  <2>3. /\ t \in job[j].teams /\ job'[j].teams = job[j].teams \ {t}
        /\ \/ job'[j].pc = "import"
           \/ job'[j].pc = "get" /\ job'[j].l \in LaunchesOf(t) /\ job'[j].kept = {}
    BY <1>7, <2>2, LogResultEffect
  <2>4. \A l \in LaunchesOf(t) : l \in LaunchesOf(t)'
    BY <1>1, LaunchesStay
  <2> QED
    BY <2>2, <2>3, <2>4 DEF PlaceOK, Importing, Rerunning
<1>8. CASE EndBuild(j)
  BY <1>8, EndBuildEffect, AwayPlace DEF Reporting, Holding, Rerunning, Idle
<1>9. CASE Import(j)
  <2>1. /\ job[j].pc = "import" /\ job'[j].pc = "getid" /\ KeptReport(j)
        /\ job'[j].l = Len(launch) + 1 /\ Len(launch') = Len(launch) + 1
        /\ ~launch'[Len(launch) + 1].golang
    BY <1>9, ImportEffect
  <2>2. job'[j].l \in Launch'
    BY <2>1, Facts DEF Launch
  <2> QED
    BY <1>1, <2>1, <2>2 DEF PlaceOK, Importing, Rerunning, Reporting, KeptReport
<1>10. CASE GetLaunchId(j)
  <2>1. /\ job[j].pc = "getid" /\ job'[j].pc = "attrs" /\ KeptReport(j) /\ launch' = launch
        /\ job'[j].l = job[j].l
    BY <1>10, GetLaunchIdEffect DEF KeptWork, server
  <2>2. job'[j].team \in Team /\ job'[j].team \notin job'[j].teams
    BY <1>1, <2>1 DEF PlaceOK, Reporting, Holding, KeptReport
  <2>3. job'[j].l \in Launch' /\ ~launch'[job'[j].l].golang
    BY <1>1, <2>1 DEF PlaceOK, Importing, Launch
  <2> QED
    BY <2>1, <2>2, <2>3 DEF PlaceOK, Importing, Rerunning
<1>11. CASE AddAttributes(j)
  BY <1>11, AddAttributesEffect, AwayPlace DEF Reporting, Holding, Rerunning
<1>12. CASE GetChild(j)
  <2>1. /\ job[j].pc = "get" /\ KeptReport(j) /\ job'[j].l = job[j].l /\ item' = item
        /\ job'[j].todo = job[j].todo \ {job'[j].cur}
        /\ job'[j].ids = {i.id : i \in ItemsOf(job[j].l, job'[j].cur)}
        /\ job'[j].pc = IF job'[j].ids = {} THEN "get" ELSE "delete"
    BY <1>12, GetChildEffect DEF server
  <2>2. \A n \in job'[j].ids : \E x \in item' : x.id = n
    BY <2>1 DEF ItemsOf
  <2>3. job[j].pc \in Rerunning /\ job'[j].pc \in Rerunning
    BY <2>1 DEF Rerunning
  <2> QED
    BY <1>1, <2>1, <2>2, <2>3, RerunPlace
<1>13. CASE DeleteChild(j)
  <2>1. job[j].pc = "delete"
    BY <1>13 DEF DeleteChild, At
  <2>2. (\A n \in job[j].ids : \E x \in item : x.id = n) /\ job[j].cur \notin job[j].todo
    BY <1>1, <2>1 DEF PlaceOK
  <2>3. /\ KeptReport(j) /\ job'[j].l = job[j].l /\ job'[j].cur = job[j].cur
        /\ job'[j].todo = job[j].todo
        /\ \E n \in job[j].ids :
             /\ item' = {x \in item : x.id # n}
             /\ job'[j].ids = job[j].ids \ {n}
             /\ job'[j].pc = IF job'[j].ids = {} THEN "get" ELSE "delete"
    BY <1>13, <2>2, DeleteChildEffect
  <2>4. \A n \in job'[j].ids : \E x \in item' : x.id = n
    BY <2>2, <2>3
  <2>5. job[j].pc \in Rerunning /\ job'[j].pc \in Rerunning
    BY <2>1, <2>3 DEF Rerunning
  <2> QED
    BY <1>1, <2>2, <2>3, <2>4, <2>5, RerunPlace
<1>14. CASE ReadBuildNums(j)
  <2>1. /\ job[j].pc = "get" /\ job'[j].pc \in {"nums", "launch"} /\ KeptReport(j)
        /\ job'[j].l = job[j].l
    BY <1>14, ReadBuildNumsEffect DEF KeptWork
  <2> QED
    BY <1>1, <2>1, RerunPlace DEF Rerunning
<1>15. CASE AddBuildNum(j)
  <2>1. /\ job[j].pc = "nums" /\ job'[j].pc = "launch" /\ KeptReport(j) /\ job'[j].l = job[j].l
    BY <1>15, AddBuildNumEffect DEF KeptWork
  <2> QED
    BY <1>1, <2>1, RerunPlace DEF Rerunning
<1>16. CASE StartLaunch(j)
  <2>1. /\ job[j].pc = "launch" /\ job'[j].pc = "suite" /\ KeptReport(j) /\ job'[j].l = job[j].l
    BY <1>16, StartLaunchEffect DEF KeptWork
  <2> QED
    BY <1>1, <2>1, RerunPlace DEF Rerunning
<1>17. CASE StartSuite(j)
  <2>1. /\ job[j].pc = "suite" /\ job'[j].pc = "cases" /\ KeptReport(j) /\ job'[j].l = job[j].l
    BY <1>17, StartSuiteEffect
  <2> QED
    BY <1>1, <2>1, RerunPlace DEF Rerunning
<1>18. CASE StartChild(j)
  <2>1. job[j].pc = "cases"
    BY <1>18 DEF StartChild, At
  <2>2. job[j].kept = {}
    BY <1>1, <2>1 DEF PlaceOK, Rerunning
  <2>3. /\ job'[j].pc = "child" /\ KeptReport(j) /\ job'[j].l = job[j].l
        /\ job'[j].todo = job[j].todo \ {job'[j].cur}
    BY <1>18, <2>2, StartChildEffect
  <2> QED
    BY <1>1, <2>1, <2>3, RerunPlace DEF Rerunning
<1>19. CASE FinishChild(j)
  <2>1. /\ job[j].pc = "child" /\ job'[j].pc = "cases" /\ KeptReport(j) /\ job'[j].l = job[j].l
    BY <1>19, FinishChildEffect
  <2> QED
    BY <1>1, <2>1, RerunPlace DEF Rerunning
<1>20. CASE FinishSuite(j)
  <2>1. /\ job[j].pc = "cases" /\ job'[j].pc = "finish" /\ KeptReport(j) /\ job'[j].l = job[j].l
    BY <1>20, FinishSuiteEffect DEF KeptWork
  <2> QED
    BY <1>1, <2>1, RerunPlace DEF Rerunning
<1>21. CASE FinishLaunch(j)
  BY <1>21, FinishLaunchEffect, AwayPlace DEF Reporting, Holding, Rerunning
<1>22. CASE Kill(j)
  BY <1>22, Facts, Constants DEF Kill, Die
<1> QED
  BY <1>2, <1>3, <1>4, <1>5, <1>6, <1>7, <1>8, <1>9, <1>10, <1>11, <1>12, <1>13, <1>14, <1>15,
     <1>16, <1>17, <1>18, <1>19, <1>20, <1>21, <1>22 DEF Acts, Step

(* What a client was left with by an earlier step.                         *)
LEMMA FileStays ==
  ASSUME NEW j \in Job, FileOK(j), latest' = latest, job'[j].file = job[j].file,
         job'[j].pc \in Choosing => job[j].pc \in Choosing /\ job'[j].teams = job[j].teams
  PROVE  FileOK(j)'
  BY DEF FileOK

(* A client that is done has no file.                                      *)
LEMMA FileNone ==
  ASSUME NEW j \in Job, job'[j] = Idle
  PROVE  FileOK(j)'
  BY DEF FileOK, Idle

(* A step of a job keeps its own file in order.                            *)
LEMMA OwnFile ==
  ASSUME Inv, PlaceInv, NEW j \in Job, Acts(j), Frame(j), faults' = 0
  PROVE  FileOK(j)'
<1>1. FileOK(j) /\ PlaceOK(j) /\ job \in [Job -> Client]
  BY Facts DEF PlaceInv, Frame
<1>2. CASE StartBuild(j)
  <2>1. /\ job[j].pc = "idle" /\ latest' = latest /\ KeptReport(j)
    BY <1>2, StartBuildEffect
  <2> QED
    BY <1>1, <2>1, FileStays DEF KeptReport, Choosing
<1>3. CASE CheckLaunches(j)
  <2>1. /\ job[j].pc = "check" /\ latest' = latest /\ KeptReport(j)
    BY <1>3, CheckLaunchesEffect
  <2> QED
    BY <1>1, <2>1, FileStays DEF KeptReport, Choosing
<1>4. CASE AskFailed(j)
  <2>1. /\ job[j].pc = "ask" /\ latest' = latest /\ KeptReport(j)
    BY <1>4, AskFailedEffect
  <2> QED
    BY <1>1, <2>1, FileStays DEF KeptReport, Choosing
<1>5. CASE Choose(j)
  <2>1. /\ job[j].pc = "ask" /\ latest' = latest /\ (job'[j] = Idle \/ KeptReport(j))
    BY <1>5, ChooseEffect
  <2> QED
    BY <1>1, <2>1, FileStays, FileNone DEF KeptReport, Choosing
<1>6. CASE Execute(j)
  <2>1. /\ job'[j].pc = "report"
        /\ \A c \in Case :
              IF c \in job[j].run \cap CasesOf[j]
              THEN latest'[c] \in Outcome /\ job'[j].file[c] = latest'[c]
              ELSE latest'[c] = latest[c] /\ job'[j].file[c] = None
    BY <1>6, ExecuteEffect
  <2> QED
    BY <2>1 DEF FileOK, Choosing
<1>7. CASE LogResult(j)
  <2>1. latest' = latest /\ job'[j].file = job[j].file /\ job'[j].pc \in {"import", "get"}
    BY <1>7, LogResultEffect
  <2> QED
    BY <1>1, <2>1, FileStays DEF Choosing
<1>8. CASE EndBuild(j)
  BY <1>8, EndBuildEffect, FileNone
<1>9. CASE Import(j)
  <2>1. latest' = latest /\ KeptReport(j) /\ job'[j].pc = "getid"
    BY <1>9, ImportEffect
  <2> QED
    BY <1>1, <2>1, FileStays DEF KeptReport, Choosing
<1>10. CASE GetLaunchId(j)
  <2>1. latest' = latest /\ KeptReport(j) /\ job'[j].pc = "attrs"
    BY <1>10, GetLaunchIdEffect
  <2> QED
    BY <1>1, <2>1, FileStays DEF KeptReport, Choosing
<1>11. CASE AddAttributes(j)
  <2>1. latest' = latest /\ KeptReport(j) /\ job'[j].pc = "report"
    BY <1>11, AddAttributesEffect
  <2> QED
    BY <1>1, <2>1, FileStays DEF KeptReport, Choosing
<1>12. CASE GetChild(j)
  <2>1. latest' = latest /\ KeptReport(j) /\ job'[j].pc \in {"get", "delete"}
    BY <1>12, GetChildEffect
  <2> QED
    BY <1>1, <2>1, FileStays DEF KeptReport, Choosing
<1>13. CASE DeleteChild(j)
  <2>1. job[j].pc = "delete"
    BY <1>13 DEF DeleteChild, At
  <2>2. \A n \in job[j].ids : \E x \in item : x.id = n
    BY <1>1, <2>1 DEF PlaceOK
  <2>3. latest' = latest /\ KeptReport(j) /\ job'[j].pc \in {"get", "delete"}
    BY <1>13, <2>2, DeleteChildEffect
  <2> QED
    BY <1>1, <2>3, FileStays DEF KeptReport, Choosing
<1>14. CASE ReadBuildNums(j)
  <2>1. latest' = latest /\ KeptReport(j) /\ job'[j].pc \in {"nums", "launch"}
    BY <1>14, ReadBuildNumsEffect
  <2> QED
    BY <1>1, <2>1, FileStays DEF KeptReport, Choosing
<1>15. CASE AddBuildNum(j)
  <2>1. latest' = latest /\ KeptReport(j) /\ job'[j].pc = "launch"
    BY <1>15, AddBuildNumEffect
  <2> QED
    BY <1>1, <2>1, FileStays DEF KeptReport, Choosing
<1>16. CASE StartLaunch(j)
  <2>1. latest' = latest /\ KeptReport(j) /\ job'[j].pc = "suite"
    BY <1>16, StartLaunchEffect
  <2> QED
    BY <1>1, <2>1, FileStays DEF KeptReport, Choosing
<1>17. CASE StartSuite(j)
  <2>1. latest' = latest /\ KeptReport(j) /\ job'[j].pc = "cases"
    BY <1>17, StartSuiteEffect
  <2> QED
    BY <1>1, <2>1, FileStays DEF KeptReport, Choosing
<1>18. CASE StartChild(j)
  <2>1. job[j].pc = "cases"
    BY <1>18 DEF StartChild, At
  <2>2. job[j].kept = {}
    BY <1>1, <2>1 DEF PlaceOK, Rerunning
  <2>3. latest' = latest /\ KeptReport(j) /\ job'[j].pc = "child"
    BY <1>18, <2>2, StartChildEffect
  <2> QED
    BY <1>1, <2>3, FileStays DEF KeptReport, Choosing
<1>19. CASE FinishChild(j)
  <2>1. latest' = latest /\ KeptReport(j) /\ job'[j].pc = "cases"
    BY <1>19, FinishChildEffect
  <2> QED
    BY <1>1, <2>1, FileStays DEF KeptReport, Choosing
<1>20. CASE FinishSuite(j)
  <2>1. latest' = latest /\ KeptReport(j) /\ job'[j].pc = "finish"
    BY <1>20, FinishSuiteEffect
  <2> QED
    BY <1>1, <2>1, FileStays DEF KeptReport, Choosing
<1>21. CASE FinishLaunch(j)
  <2>1. latest' = latest /\ KeptReport(j) /\ job'[j].pc = "report"
    BY <1>21, FinishLaunchEffect
  <2> QED
    BY <1>1, <2>1, FileStays DEF KeptReport, Choosing
<1>22. CASE Kill(j)
  BY <1>22, Facts, Constants DEF Kill, Die, Frame
<1> QED
  BY <1>2, <1>3, <1>4, <1>5, <1>6, <1>7, <1>8, <1>9, <1>10, <1>11, <1>12, <1>13, <1>14, <1>15,
     <1>16, <1>17, <1>18, <1>19, <1>20, <1>21, <1>22 DEF Acts, Step

(* The phases of a client: it chooses what to run, runs it, and reports    *)
(* each file by an import or by a rerun of the launch.                     *)
LEMMA Phases ==
  ASSUME Inv, NEW j \in Job, Acts(j), PlaceOK(j), faults = 0, faults' = 0
  PROVE  \/ /\ job[j].pc \in Choosing /\ job'[j].pc \in Choosing
            /\ UNCHANGED <<server, latest>>
         \/ Execute(j) \/ LogResult(j) \/ EndBuild(j)
         \/ Import(j) \/ GetLaunchId(j) \/ AddAttributes(j)
         \/ /\ job[j].pc \in Rerunning /\ job'[j].pc \in Rerunning \cup {"report"}
            /\ KeptReport(j) /\ UNCHANGED latest
            /\ job'[j].pc \in Rerunning => job'[j].l = job[j].l
            /\ job'[j].pc \notin Rerunning => FinishLaunch(j)
<1>1. CASE StartBuild(j)
  <2>1. /\ job[j].pc = "idle" /\ UNCHANGED <<server, latest>>
        /\ job'[j].pc = "check" \/ job'[j].pc = "execute"
    BY <1>1, StartBuildEffect
  <2> QED
    BY <2>1 DEF Choosing
<1>2. CASE CheckLaunches(j)
  <2>1. /\ job[j].pc = "check" /\ UNCHANGED <<server, latest>>
        /\ job'[j].pc = "ask" \/ job'[j].pc = "execute"
    BY <1>2, CheckLaunchesEffect
  <2> QED
    BY <2>1 DEF Choosing
<1>3. CASE AskFailed(j)
  <2>1. /\ job[j].pc = "ask" /\ UNCHANGED <<server, latest>> /\ job'[j].pc = "ask"
    BY <1>3, AskFailedEffect
  <2> QED
    BY <2>1 DEF Choosing
<1>4. CASE Choose(j)
  <2>1. /\ job[j].pc = "ask" /\ UNCHANGED <<server, latest>>
        /\ job'[j] = Idle \/ job'[j].pc = "execute"
    BY <1>4, ChooseEffect
  <2>2. Idle.pc = "idle"
    BY DEF Idle
  <2> QED
    BY <2>1, <2>2 DEF Choosing
<1>5. CASE GetChild(j)
  <2>1. /\ job[j].pc = "get" /\ KeptReport(j) /\ UNCHANGED latest /\ job'[j].l = job[j].l
        /\ job'[j].pc = "get" \/ job'[j].pc = "delete"
    BY <1>5, GetChildEffect
  <2> QED
    BY <2>1 DEF Rerunning
<1>6. CASE DeleteChild(j)
  <2>1. job[j].pc = "delete"
    BY <1>6 DEF DeleteChild, At
  <2>2. \A n \in job[j].ids : \E x \in item : x.id = n
    BY <2>1 DEF PlaceOK
  <2>3. /\ KeptReport(j) /\ UNCHANGED latest /\ job'[j].l = job[j].l
        /\ job'[j].pc = "get" \/ job'[j].pc = "delete"
    BY <1>6, <2>2, DeleteChildEffect
  <2> QED
    BY <2>1, <2>3 DEF Rerunning
<1>7. CASE ReadBuildNums(j)
  <2>1. /\ job[j].pc = "get" /\ KeptReport(j) /\ UNCHANGED latest /\ job'[j].l = job[j].l
        /\ job'[j].pc = "nums" \/ job'[j].pc = "launch"
    BY <1>7, ReadBuildNumsEffect DEF KeptWork
  <2> QED
    BY <2>1 DEF Rerunning
<1>8. CASE AddBuildNum(j)
  <2>1. /\ job[j].pc = "nums" /\ KeptReport(j) /\ UNCHANGED latest /\ job'[j].l = job[j].l
        /\ job'[j].pc = "launch"
    BY <1>8, AddBuildNumEffect DEF KeptWork
  <2> QED
    BY <2>1 DEF Rerunning
<1>9. CASE StartLaunch(j)
  <2>1. /\ job[j].pc = "launch" /\ KeptReport(j) /\ UNCHANGED latest /\ job'[j].l = job[j].l
        /\ job'[j].pc = "suite"
    BY <1>9, StartLaunchEffect DEF KeptWork
  <2> QED
    BY <2>1 DEF Rerunning
<1>10. CASE StartSuite(j)
  <2>1. /\ job[j].pc = "suite" /\ KeptReport(j) /\ UNCHANGED latest /\ job'[j].l = job[j].l
        /\ job'[j].pc = "cases"
    BY <1>10, StartSuiteEffect
  <2> QED
    BY <2>1 DEF Rerunning
<1>11. CASE StartChild(j)
  <2>1. job[j].pc = "cases"
    BY <1>11 DEF StartChild, At
  <2>2. job[j].kept = {}
    BY <2>1 DEF PlaceOK, Rerunning
  <2>3. KeptReport(j) /\ UNCHANGED latest /\ job'[j].l = job[j].l /\ job'[j].pc = "child"
    BY <1>11, <2>2, StartChildEffect
  <2> QED
    BY <2>1, <2>3 DEF Rerunning
<1>12. CASE FinishChild(j)
  <2>1. /\ job[j].pc = "child" /\ KeptReport(j) /\ UNCHANGED latest /\ job'[j].l = job[j].l
        /\ job'[j].pc = "cases"
    BY <1>12, FinishChildEffect
  <2> QED
    BY <2>1 DEF Rerunning
<1>13. CASE FinishSuite(j)
  <2>1. /\ job[j].pc = "cases" /\ KeptReport(j) /\ UNCHANGED latest /\ job'[j].l = job[j].l
        /\ job'[j].pc = "finish"
    BY <1>13, FinishSuiteEffect DEF KeptWork
  <2> QED
    BY <2>1 DEF Rerunning
<1>14. CASE FinishLaunch(j)
  <2>1. /\ job[j].pc = "finish" /\ KeptReport(j) /\ UNCHANGED latest /\ job'[j].pc = "report"
    BY <1>14, FinishLaunchEffect
  <2> QED
    BY <1>14, <2>1 DEF Rerunning
<1>15. CASE Kill(j)
  BY <1>15, Facts, Constants DEF Kill, Die
<1> QED
  BY <1>1, <1>2, <1>3, <1>4, <1>5, <1>6, <1>7, <1>8, <1>9, <1>10, <1>11, <1>12, <1>13, <1>14, <1>15
     DEF Acts, Step

(* Whose launch has no attributes yet.                                     *)
LEMMA ImportPhase ==
  ASSUME Inv, NEW j \in Job, Acts(j), PlaceOK(j), faults = 0, faults' = 0
  PROVE  job'[j].pc \in Importing =>
           \/ job'[j].l = Len(launch) + 1
           \/ job[j].pc \in Importing /\ job'[j].l = job[j].l
<1>1. CASE job[j].pc \in Choosing /\ job'[j].pc \in Choosing
  BY <1>1 DEF Choosing, Importing
<1>2. CASE Execute(j)
  BY <1>2, ExecuteEffect DEF Importing
<1>3. CASE LogResult(j)
  BY <1>3, LogResultEffect DEF Importing
<1>4. CASE EndBuild(j)
  BY <1>4, EndBuildEffect DEF Importing, Idle
<1>5. CASE Import(j)
  BY <1>5, ImportEffect
<1>6. CASE GetLaunchId(j)
  BY <1>6, GetLaunchIdEffect DEF Importing, KeptWork
<1>7. CASE AddAttributes(j)
  BY <1>7, AddAttributesEffect DEF Importing
<1>8. CASE job[j].pc \in Rerunning /\ job'[j].pc \in Rerunning \cup {"report"}
  BY <1>8 DEF Rerunning, Importing
<1> QED
  BY <1>1, <1>2, <1>3, <1>4, <1>5, <1>6, <1>7, <1>8, Phases

(* Two jobs never import into the same launch.                             *)
LEMMA ImportsStep ==
  ASSUME Inv, PlaceInv, NEW j \in Job, Acts(j), Frame(j), faults' = 0
  PROVE  ImportsApart'
<1>1. /\ faults = 0 /\ PlaceOK(j) /\ ImportsApart
      /\ \A k \in Job : k # j => job'[k] = job[k]
  BY DEF PlaceInv, Frame
<1>2. \A k \in Job : job[k].l \in 0 .. Len(launch) /\ Len(launch) \in Nat
  BY Facts DEF ClientOK
<1>3. \A k \in Job : k # j /\ job'[j].pc \in Importing /\ job'[k].pc \in Importing
                     => job'[j].l # job'[k].l
  BY <1>1, <1>2, ImportPhase DEF ImportsApart
<1> QED
  BY <1>1, <1>3 DEF ImportsApart

(* An item stays in its launch.                                            *)
LEMMA ItemStep ==
  ASSUME Inv, PlaceInv, NEW j \in Job, Acts(j), Frame(j), faults' = 0, NEW x \in item'
  PROVE  \/ \E y \in item : y.launch = x.launch /\ y.case = x.case
         \/ /\ job'[j].pc = "getid" /\ job'[j].l = x.launch
            /\ x.case \in FileCases(j) /\ KeptReport(j)
         \/ x.launch \in LaunchesOf(TeamOf[x.case]) /\ x.case \in FileCases(j)
<1>1. /\ faults = 0 /\ PlaceOK(j) /\ item \subseteq ItemRec /\ ClientOK(j)
  BY Facts DEF PlaceInv, Frame
<1>2. CASE item' \subseteq item
  BY <1>2
<1>3. CASE Import(j)
  <2>1. /\ job'[j].pc = "getid" /\ job'[j].l = Len(launch) + 1 /\ KeptReport(j)
        /\ \A y \in item' \ item : y.case \in FileCases(j) /\ y.launch = Len(launch) + 1
    BY <1>3, ImportEffect
  <2> QED
    BY <2>1
<1>4. CASE StartChild(j)
  <2>1. job[j].pc = "cases"
    BY <1>4 DEF StartChild, At
  <2>2. /\ job[j].kept = {} /\ job[j].l \in LaunchesOf(job[j].team)
        /\ job[j].todo \subseteq FileCases(j)
    BY <1>1, <2>1 DEF PlaceOK, Rerunning, ClientOK
  <2>3. /\ job'[j].cur \in job[j].todo
        /\ item' = item \cup {[id |-> items + 1, launch |-> job[j].l, case |-> job'[j].cur,
                                status |-> "OPEN"]}
    BY <1>4, <2>2, StartChildEffect
  <2>4. CASE x \in item
    BY <2>4
  <2>5. CASE x \notin item
    <3>1. x.launch = job[j].l /\ x.case = job'[j].cur
      BY <2>3, <2>5
    <3>2. x.case \in FileCases(j) /\ TeamOf[x.case] = job[j].team
      BY <2>2, <2>3, <3>1 DEF FileCases
    <3> QED
      BY <2>2, <3>1, <3>2
  <2> QED
    BY <2>4, <2>5
<1>5. CASE FinishChild(j)
  <2>1. item' = {IF i.id \in job[j].ids THEN [i EXCEPT !.status = job[j].file[i.case]] ELSE i
                 : i \in item}
    BY <1>5, FinishChildEffect
  <2>2. \A i \in item : /\ [i EXCEPT !.status = job[j].file[i.case]].case = i.case
                        /\ [i EXCEPT !.status = job[j].file[i.case]].launch = i.launch
    BY <1>1 DEF ItemRec
  <2> QED
    BY <2>1, <2>2
<1>6. CASE DeleteChild(j)
  <2>1. item' \subseteq item
    BY <1>6 DEF DeleteChild
  <2> QED
    BY <1>2, <2>1
<1>7. \/ item' = item
      \/ Import(j) \/ DeleteChild(j) \/ StartChild(j) \/ FinishChild(j)
  BY DEF Acts, Step, StartBuild, CheckLaunches, AskFailed, Choose, Execute, LogResult, EndBuild,
         GetLaunchId, AddAttributes, GetChild, ReadBuildNums, AddBuildNum, StartLaunch,
         StartSuite, FinishSuite, FinishLaunch, Kill, server
<1> QED
  BY <1>2, <1>3, <1>4, <1>5, <1>6, <1>7

(* A client that has imported a file gives the launch its attributes.      *)
LEMMA ImportingStep ==
  ASSUME Inv, NEW j \in Job, Acts(j), PlaceOK(j), faults = 0, faults' = 0, job[j].pc \in Importing
  PROVE  GetLaunchId(j) \/ AddAttributes(j)
<1>1. job[j].pc \notin Choosing /\ job[j].pc \notin Rerunning
  BY DEF Importing, Choosing, Rerunning
<1>2. ~Execute(j) /\ ~LogResult(j) /\ ~EndBuild(j) /\ ~Import(j)
  BY DEF Importing, Execute, LogResult, EndBuild, Import, At
<1> QED
  BY <1>1, <1>2, Phases

(* Every item is in a launch of its team, or in one whose importer is still*)
(* to give it the attributes.                                              *)
LEMMA PlacedStep ==
  ASSUME Inv, PlaceInv, NEW j \in Job, Acts(j), Frame(j), faults' = 0, NEW x \in item'
  PROVE  Placed(x)'
<1>1. /\ faults = 0 /\ PlaceOK(j) /\ item \subseteq ItemRec /\ (\A y \in item : Placed(y))
      /\ \A k \in Job : k # j => job'[k] = job[k]
  BY Facts DEF PlaceInv, Frame
<1>2. CASE \E y \in item : y.launch = x.launch /\ y.case = x.case
  <2>1. PICK y \in item : y.launch = x.launch /\ y.case = x.case
    BY <1>2
  <2>2. x.case \in Case
    BY <1>1, <2>1 DEF ItemRec
  <2>3. PICK t \in Team : t = TeamOf[x.case]
    BY <2>2, Constants
  <2>4. CASE x.launch \in LaunchesOf(t)
    <3>1. x.launch \in LaunchesOf(t)'
      BY <1>1, <2>4, LaunchesStay
    <3> QED
      BY <2>3, <3>1 DEF Placed
  <2>5. CASE \E k \in Job : job[k].pc \in Importing /\ job[k].l = x.launch /\ x.case \in FileCases(k)
    <3>1. PICK k \in Job : job[k].pc \in Importing /\ job[k].l = x.launch /\ x.case \in FileCases(k)
      BY <2>5
    <3>2. CASE k # j
      BY <1>1, <3>1, <3>2 DEF Placed, FileCases
    <3>3. CASE k = j /\ GetLaunchId(j)
      <4>1. job'[j].pc = "attrs" /\ KeptReport(j) /\ KeptWork(j)
        BY <3>3, GetLaunchIdEffect
      <4> QED
        BY <3>1, <3>3, <4>1 DEF Placed, FileCases, KeptReport, KeptWork, Importing
    <3>4. CASE k = j /\ AddAttributes(j)
      <4>1. /\ job[j].l \in Launch /\ Len(launch') = Len(launch) /\ launch'[job[j].l].golang
            /\ launch'[job[j].l].team = job[j].team
        BY <3>4, AddAttributesEffect
      <4>2. TeamOf[x.case] = job[j].team
        BY <3>1, <3>4 DEF FileCases
      <4>3. x.launch \in LaunchesOf(t)'
        BY <2>3, <3>1, <3>4, <4>1, <4>2 DEF LaunchesOf, GolangLaunches, Launch
      <4> QED
        BY <2>3, <4>3 DEF Placed
    <3> QED
      BY <1>1, <3>1, <3>2, <3>3, <3>4, ImportingStep
  <2> QED
    BY <1>1, <2>1, <2>3, <2>4, <2>5 DEF Placed
<1>3. CASE /\ job'[j].pc = "getid" /\ job'[j].l = x.launch
           /\ x.case \in FileCases(j) /\ KeptReport(j)
  BY <1>3 DEF Placed, FileCases, KeptReport, Importing
<1>4. CASE x.launch \in LaunchesOf(TeamOf[x.case]) /\ x.case \in FileCases(j)
  <2>1. PICK t \in Team : t = TeamOf[x.case]
    BY <1>4, Constants DEF FileCases
  <2>2. x.launch \in LaunchesOf(t)'
    BY <1>1, <1>4, <2>1, LaunchesStay
  <2> QED
    BY <2>1, <2>2 DEF Placed
<1> QED
  BY <1>2, <1>3, <1>4, ItemStep

(* A fault once counted stays counted.                                     *)
LEMMA FaultsGrow ==
  ASSUME Inv, NEW j \in Job, Acts(j), faults' = 0
  PROVE  faults = 0
<1>1. faults \in 0 .. MaxFaults /\ MaxFaults \in Nat
  BY Facts, Constants
<1>2. CASE StartBuild(j) \/ Choose(j) \/ Execute(j) \/ EndBuild(j)
  BY <1>2 DEF StartBuild, Choose, Execute, EndBuild
<1>3. CASE Kill(j)
  BY <1>1, <1>3 DEF Kill, Die
<1>4. CASE StartChild(j)
  <2>1. faults' = faults \/ \E a \in Answer : Count(a)
    BY <1>4 DEF StartChild
  <2> QED
    BY <1>1, <2>1, NoFault
<1>5. CASE CheckLaunches(j) \/ AskFailed(j) \/ LogResult(j) \/ GetLaunchId(j) \/ GetChild(j)
           \/ ReadBuildNums(j)
  <2>1. \E a \in ReadAnswer : Count(a)
    BY <1>5 DEF CheckLaunches, AskFailed, LogResult, GetLaunchId, GetChild, ReadBuildNums
  <2> QED
    BY <2>1, NoFaultRead
<1>6. CASE Import(j) \/ AddAttributes(j) \/ DeleteChild(j) \/ AddBuildNum(j) \/ StartLaunch(j)
           \/ StartSuite(j) \/ FinishChild(j) \/ FinishSuite(j) \/ FinishLaunch(j)
  <2>1. \E a \in Answer : Count(a)
    BY <1>6 DEF Import, AddAttributes, DeleteChild, AddBuildNum, StartLaunch, StartSuite,
       FinishChild, FinishSuite, FinishLaunch
  <2> QED
    BY <2>1, NoFault
<1> QED
  BY <1>2, <1>3, <1>4, <1>5, <1>6 DEF Acts, Step

(* Every step keeps files, places and items in order.                      *)
LEMMA PlaceStep ==
  ASSUME Inv, ActiveInv, ApartInv, PlaceInv, NEW j \in Job, Acts(j)
  PROVE  PlaceInv'
<1> SUFFICES ASSUME faults' = 0
             PROVE  PlaceInv'
  BY DEF PlaceInv
<1>1. faults = 0 /\ PlaceOK(j)
  BY FaultsGrow DEF PlaceInv
<1>2. Frame(j)
  BY <1>1, StepFrame
<1>3. \A k \in Job : FileOK(k)' /\ PlaceOK(k)'
  BY <1>2, OthersPlace, OwnFile, OwnPlace
<1>4. ImportsApart' /\ \A x \in item' : Placed(x)'
  BY <1>2, ImportsStep, PlacedStep
<1> QED
  BY <1>3, <1>4 DEF PlaceInv

-----------------------------------------------------------------------------
(* One job alone never imports the file of a team that has a launch.       *)
Solo == faults = 0 /\ \A j, k \in built : j = k
OneEach == \A t \in Team : \A l, m \in LaunchesOf(t) : l = m
SoloInv ==
  Solo => /\ OneEach
          /\ \A j \in Job : job[j].pc = "import" \/ job[j].pc \in Importing =>
               \A l \in Launch : l \notin LaunchesOf(job[j].team)

(* A job that is alone never makes a second launch of a team.              *)
LEMMA SoloStep ==
  ASSUME Inv, ActiveInv, PlaceInv, SoloInv, NEW j \in Job, Acts(j), ActiveInv'
  PROVE  SoloInv'
<1> SUFFICES ASSUME Solo'
             PROVE  SoloInv'
  BY DEF SoloInv
<1>1. faults' = 0 /\ faults = 0 /\ PlaceOK(j)
  BY FaultsGrow DEF PlaceInv, Solo
<1>2. Frame(j)
  BY <1>1, StepFrame
<1>3. built \subseteq built' /\ j \in built'
  <2>1. CASE StartBuild(j)
    BY <2>1 DEF StartBuild
  <2>2. CASE job[j].pc # "idle" /\ UNCHANGED <<left, built>>
    BY <2>2 DEF ActiveInv
  <2> QED
    BY <2>1, <2>2, BuildStep
<1>4. Solo
  BY <1>1, <1>3 DEF Solo
<1>5. /\ OneEach
      /\ \A k \in Job : job[k].pc = "import" \/ job[k].pc \in Importing =>
           \A l \in Launch : l \notin LaunchesOf(job[k].team)
  BY <1>4 DEF SoloInv
<1>6. \A k \in Job : k # j => job'[k].pc = "idle"
  BY <1>3 DEF Solo, ActiveInv
<1>7. /\ Len(launch) \in Nat /\ Len(launch) <= Len(launch') /\ ClientOK(j) /\ job[j] \in Client
  BY <1>2, Facts DEF Frame, LaunchFrame
<1>8. CASE AddAttributes(j)
  <2>1. /\ job[j].pc = "attrs" /\ job'[j].pc = "report" /\ Len(launch') = Len(launch)
        /\ launch'[job[j].l].team = job[j].team
    BY <1>8, AddAttributesEffect, <1>1
  <2>2. \A t \in Team : \A l \in LaunchesOf(t)' : t # job[j].team => l \in LaunchesOf(t)
    <3> SUFFICES ASSUME NEW t \in Team, NEW l \in LaunchesOf(t)', t # job[j].team
                 PROVE  l \in LaunchesOf(t)
      OBVIOUS
    <3>1. launch'[l].team = t
      BY DEF LaunchesOf
    <3>2. l # job[j].l
      BY <2>1, <3>1
    <3> QED
      BY <1>1, <1>2, <3>2, LaunchesStay
  <2>3. \A l \in Launch : l \notin LaunchesOf(job[j].team)
    BY <1>5, <2>1 DEF Importing
  <2>4. LaunchesOf(job[j].team) = {}
    BY <2>3 DEF LaunchesOf, GolangLaunches
  <2>5. \A t \in Team : \A l \in LaunchesOf(t)' : t = job[j].team => l = job[j].l
    BY <1>1, <1>2, <2>4, LaunchesStay
  <2>6. OneEach'
    <3> SUFFICES ASSUME NEW t \in Team, NEW l \in LaunchesOf(t)', NEW m \in LaunchesOf(t)'
                 PROVE  l = m
      BY DEF OneEach
    <3>1. CASE t = job[j].team
      BY <2>5, <3>1
    <3>2. CASE t # job[j].team
      BY <1>5, <2>2, <3>2 DEF OneEach
    <3> QED
      BY <3>1, <3>2
  <2>7. \A k \in Job : job'[k].pc = "idle" \/ job'[k].pc = "report"
    BY <1>6, <2>1
  <2> QED
    BY <2>6, <2>7 DEF SoloInv, Importing
<1>9. CASE ~AddAttributes(j)
  <2>1. job[j].pc # "attrs"
    BY <1>1, <1>9, ImportingStep DEF Importing, GetLaunchId, At
  <2>2. \A t \in Team : LaunchesOf(t)' = LaunchesOf(t)
    BY <1>1, <1>2, <2>1, LaunchesStay
  <2>3. OneEach'
    BY <1>5, <2>2 DEF OneEach
  <2>4. job'[j].pc = "import" \/ job'[j].pc \in Importing =>
          LaunchesOf(job'[j].team) = {} /\ job'[j].team \in Team
    <3> USE <1>1
    <3>1. CASE job[j].pc \in Choosing /\ job'[j].pc \in Choosing
      BY <3>1 DEF Choosing, Importing
    <3>2. CASE Execute(j)
      BY <3>2, ExecuteEffect DEF Importing
    <3>3. CASE LogResult(j)
      <4>1. /\ job'[j].team \in job[j].teams
            /\ \/ job'[j].pc = "import" /\ LaunchesOf(job'[j].team) = {}
               \/ job'[j].pc = "get"
        BY <3>3, LogResultEffect
      <4> QED
        BY <1>7, <4>1 DEF Importing, Client
    <3>4. CASE EndBuild(j)
      BY <3>4, EndBuildEffect DEF Importing, Idle
    <3>5. CASE Import(j) \/ GetLaunchId(j)
      <4>1. (job[j].pc = "import" \/ job[j].pc = "getid") /\ KeptReport(j)
        BY <3>5, ImportEffect, GetLaunchIdEffect
      <4>2. \A l \in Launch : l \notin LaunchesOf(job[j].team)
        BY <1>5, <4>1 DEF Importing
      <4>3. LaunchesOf(job[j].team) = {} /\ job[j].team \in Team
        BY <4>1, <4>2 DEF LaunchesOf, GolangLaunches, PlaceOK, Reporting, Holding
      <4> QED
        BY <4>1, <4>3 DEF KeptReport
    <3>6. CASE job[j].pc \in Rerunning /\ job'[j].pc \in Rerunning \cup {"report"}
      BY <3>6 DEF Rerunning, Importing
    <3> QED
      BY <1>9, <3>1, <3>2, <3>3, <3>4, <3>5, <3>6, Phases
  <2>5. job'[j].pc = "import" \/ job'[j].pc \in Importing =>
          \A l \in Launch' : l \notin LaunchesOf(job[j].team)'
    <3> SUFFICES ASSUME job'[j].pc = "import" \/ job'[j].pc \in Importing
                 PROVE  \A l \in Launch' : l \notin LaunchesOf(job[j].team)'
      OBVIOUS
    <3>1. PICK t \in Team : t = job'[j].team
      BY <2>4
    <3>2. LaunchesOf(t)' = {}
      BY <2>2, <2>4, <3>1
    <3> QED
      BY <3>1, <3>2
  <2>6. \A k \in Job : job'[k].pc = "idle" \/ k = j
    BY <1>6
  <2> QED
    BY <2>3, <2>5, <2>6 DEF SoloInv, Importing
<1> QED
  BY <1>8, <1>9

-----------------------------------------------------------------------------
(* What becomes of the items of a case while its file is reported.         *)
Gone(c) == \A x \in item : x.case # c
Settled(c, l, s) ==
  \E i \in item : /\ i.case = c /\ i.launch = l /\ i.status = s
                  /\ \A x \in item : x.case = c => x = i
\* It has its new item, without a status yet.
Added(c, l, S) ==
  \E i \in item : /\ i.case = c /\ i.launch = l /\ i.id \in S
                  /\ \A x \in item : x.case = c => x = i
CaseOK(j, c) ==
  /\ job[j].pc \in {"import", "nums", "launch", "suite"} => Gone(c)
  /\ job[j].pc \in Importing \cup {"finish"} => Settled(c, job[j].l, job[j].file[c])
  /\ job[j].pc \in {"get", "delete"} /\ c \in job[j].todo =>
       \A x \in item : x.case = c => x.launch = job[j].l
  /\ job[j].pc = "get" /\ c \notin job[j].todo => Gone(c)
  /\ job[j].pc = "delete" /\ c \notin job[j].todo =>
       \A x \in item : x.case = c => c = job[j].cur /\ x.id \in job[j].ids
  /\ job[j].pc \in {"cases", "child"} /\ c \in job[j].todo => Gone(c)
  /\ job[j].pc = "cases" /\ c \notin job[j].todo => Settled(c, job[j].l, job[j].file[c])
  /\ job[j].pc = "child" /\ c \notin job[j].todo =>
       IF c = job[j].cur THEN Added(c, job[j].l, job[j].ids)
       ELSE Settled(c, job[j].l, job[j].file[c])
Pending(j, c) ==
  /\ job[j].file[c] # None
  /\ TeamOf[c] \in job[j].teams \/ (job[j].pc \in Reporting /\ TeamOf[c] = job[j].team)
ShownInv ==
  faults = 0 /\ OneEach =>
    /\ \A j \in Job : \A c \in FileCases(j) : CaseOK(j, c)
    /\ \A c \in Case : latest[c] # None =>
         \/ \E j \in Job : Pending(j, c)
         \/ \E l \in LaunchesOf(TeamOf[c]) : Settled(c, l, latest[c])

(* A case that the acting job does not report.                             *)
LEMMA OtherCase ==
  ASSUME NEW j \in Job, ItemsKept(j), NEW c \in Case, c \notin FileCases(j)
  PROVE  /\ Gone(c) => Gone(c)'
         /\ \A l, s : Settled(c, l, s) => Settled(c, l, s)'
         /\ \A l, S : Added(c, l, S) => Added(c, l, S)'
         /\ \A x \in item' : x.case = c => x \in item
<1>1. /\ \A x \in item : x.case = c => x \in item'
      /\ \A x \in item' : x.case = c => x \in item
  BY DEF ItemsKept
<1> QED
  BY <1>1 DEF Gone, Settled, Added

(* A step of one job keeps what is known of the cases another one reports. *)
LEMMA OthersCase ==
  ASSUME NEW j \in Job, ItemsKept(j), NEW k \in Job, job'[k] = job[k],
         NEW c \in Case, c \notin FileCases(j), CaseOK(k, c)
  PROVE  CaseOK(k, c)'
<1>1. /\ Gone(c) => Gone(c)'
      /\ \A l, s : Settled(c, l, s) => Settled(c, l, s)'
      /\ \A l, S : Added(c, l, S) => Added(c, l, S)'
      /\ \A x \in item' : x.case = c => x \in item
  BY OtherCase
<1>2. Settled(c, job[k].l, job[k].file[c]) => Settled(c, job[k].l, job[k].file[c])'
  BY <1>1 DEF Settled
<1>3. Added(c, job[k].l, job[k].ids) => Added(c, job[k].l, job[k].ids)'
  BY <1>1 DEF Added
<1> QED
  BY <1>1, <1>2, <1>3 DEF CaseOK

(* When a file is about to be reported, the launch is new to its cases, or *)
(* the only one of the team.                                               *)
LEMMA LogResultCase ==
  ASSUME Inv, ActiveInv, ApartInv, PlaceInv, OneEach, NEW j \in Job, LogResult(j), Frame(j), faults' = 0,
         NEW c \in FileCases(j)'
  PROVE  CaseOK(j, c)'
<1>1. /\ job[j].pc = "report" /\ item' = item /\ job'[j].file = job[j].file
      /\ job'[j].team \in job[j].teams /\ job[j].teams \subseteq Team
      /\ \/ job'[j].pc = "import" /\ LaunchesOf(job'[j].team) = {}
         \/ /\ job'[j].pc = "get" /\ job'[j].l \in LaunchesOf(job'[j].team)
            /\ job'[j].todo = {d \in Case : job[j].file[d] # None /\ TeamOf[d] = job'[j].team}
  BY LogResultEffect, Facts DEF server, Client
<1>2. c \in Case /\ job[j].file[c] # None /\ TeamOf[c] = job'[j].team /\ job'[j].team \in Team
  BY <1>1 DEF FileCases
<1>3. \A x \in item : x.case = c => x.launch \in LaunchesOf(TeamOf[c])
  <2> SUFFICES ASSUME NEW x \in item, x.case = c, x.launch \notin LaunchesOf(TeamOf[c])
               PROVE  FALSE
    OBVIOUS
  <2>1. /\ \A k \in Job : FileOK(k)
        /\ Placed(x)
    BY DEF PlaceInv, Frame
  <2>2. PICK k \in Job : job[k].pc \in Importing /\ c \in FileCases(k)
    BY <2>1 DEF Placed
  <2>3. k # j /\ Active(k) /\ Active(j)
    BY <1>1, <2>2 DEF Importing, ActiveInv, Active
  <2>4. c \in CasesOf[j] /\ c \in CasesOf[k]
    BY <1>2, <2>1, <2>2 DEF FileOK, FileCases
  <2> QED
    BY <2>3, <2>4 DEF ApartInv
<1>4. CASE job'[j].pc = "import"
  <2>1. Gone(c)'
    BY <1>1, <1>2, <1>3, <1>4 DEF Gone
  <2> QED
    BY <1>4, <2>1 DEF CaseOK, Importing
<1>5. CASE job'[j].pc = "get"
  <2>1. \A x \in item' : x.case = c => x.launch = job'[j].l
    BY <1>1, <1>2, <1>3, <1>5 DEF OneEach
  <2>2. c \in job'[j].todo
    BY <1>1, <1>2, <1>5
  <2> QED
    BY <1>5, <2>1, <2>2 DEF CaseOK, Importing
<1> QED
  BY <1>1, <1>4, <1>5

(* The import makes one item of each case of the file.                     *)
LEMMA ImportCase ==
  ASSUME Inv, NEW j \in Job, Import(j), faults' = 0, NEW c \in FileCases(j), CaseOK(j, c)
  PROVE  CaseOK(j, c)'
<1>1. /\ job[j].pc = "import" /\ job'[j].pc = "getid" /\ KeptReport(j)
      /\ job'[j].l = Len(launch) + 1 /\ item \subseteq item'
  BY ImportEffect
<1>2. PICK i \in item' \ item :
        /\ {x \in item' \ item : x.case = c} = {i}
        /\ i.launch = Len(launch) + 1 /\ i.status = job[j].file[c]
  BY ImportEffect
<1>3. Gone(c)
  BY <1>1 DEF CaseOK
<1>4. i.case = c /\ \A x \in item' : x.case = c => x = i
  BY <1>2, <1>3 DEF Gone
<1>5. job'[j].file[c] = job[j].file[c]
  BY <1>1 DEF KeptReport
<1>6. Settled(c, job[j].l, job[j].file[c])'
  BY <1>1, <1>2, <1>4, <1>5 DEF Settled
<1> QED
  BY <1>1, <1>6 DEF CaseOK, Importing

(* Finding the launch's id keeps what is known of a case.                  *)
LEMMA GetLaunchIdCase ==
  ASSUME Inv, NEW j \in Job, GetLaunchId(j), faults' = 0, NEW c \in FileCases(j), CaseOK(j, c)
  PROVE  CaseOK(j, c)'
<1>1. /\ job[j].pc = "getid" /\ job'[j].pc = "attrs" /\ item' = item
      /\ job'[j].l = job[j].l /\ job'[j].file = job[j].file
  BY GetLaunchIdEffect DEF KeptReport, KeptWork, server
<1>2. Settled(c, job[j].l, job[j].file[c])
  BY <1>1 DEF CaseOK, Importing
<1>3. Settled(c, job[j].l, job[j].file[c])'
  BY <1>1, <1>2 DEF Settled
<1> QED
  BY <1>1, <1>3 DEF CaseOK, Importing

(* The items of the case are found, and are to be deleted.                 *)
LEMMA GetChildCase ==
  ASSUME Inv, NEW j \in Job, GetChild(j), faults' = 0, NEW c \in FileCases(j), CaseOK(j, c)
  PROVE  CaseOK(j, c)'
<1>1. /\ job[j].pc = "get" /\ item' = item /\ job'[j].l = job[j].l
      /\ job'[j].cur \in job[j].todo /\ job'[j].todo = job[j].todo \ {job'[j].cur}
      /\ job'[j].ids = {i.id : i \in ItemsOf(job[j].l, job'[j].cur)}
      /\ job'[j].pc = IF job'[j].ids = {} THEN "get" ELSE "delete"
  BY GetChildEffect DEF server
<1>2. /\ c \in job[j].todo => \A x \in item : x.case = c => x.launch = job[j].l
      /\ c \notin job[j].todo => Gone(c)
  BY <1>1 DEF CaseOK
<1>3. CASE c \in job'[j].todo
  <2>1. \A x \in item' : x.case = c => x.launch = job'[j].l
    BY <1>1, <1>2, <1>3
  <2> QED
    BY <1>1, <1>3, <2>1 DEF CaseOK, Importing
<1>4. CASE c = job'[j].cur
  <2>1. \A x \in item' : x.case = c => x.id \in job'[j].ids
    BY <1>1, <1>2, <1>4 DEF ItemsOf
  <2>2. job'[j].ids = {} => Gone(c)'
    BY <2>1 DEF Gone
  <2> QED
    BY <1>1, <1>4, <2>1, <2>2 DEF CaseOK, Importing
<1>5. CASE c \notin job[j].todo
  <2>1. Gone(c)' /\ \A x \in item' : x.case # c
    BY <1>1, <1>2, <1>5 DEF Gone
  <2> QED
    BY <1>1, <1>5, <2>1 DEF CaseOK, Importing
<1> QED
  BY <1>1, <1>3, <1>4, <1>5

(* Deleting an item brings its case nearer to having none.                 *)
LEMMA DeleteChildCase ==
  ASSUME Inv, NEW j \in Job, PlaceOK(j), DeleteChild(j), faults' = 0, NEW c \in FileCases(j), CaseOK(j, c)
  PROVE  CaseOK(j, c)'
<1>1. job[j].pc = "delete"
  BY DEF DeleteChild, At
<1>2. \A n \in job[j].ids : \E x \in item : x.id = n
  BY <1>1 DEF PlaceOK
<1>3. /\ job'[j].l = job[j].l /\ job'[j].cur = job[j].cur /\ job'[j].todo = job[j].todo
      /\ \E n \in job[j].ids :
           /\ item' = {x \in item : x.id # n}
           /\ job'[j].ids = job[j].ids \ {n}
           /\ job'[j].pc = IF job'[j].ids = {} THEN "get" ELSE "delete"
  BY <1>2, DeleteChildEffect
<1>4. /\ c \in job[j].todo => \A x \in item' : x.case = c => x.launch = job'[j].l
      /\ c \notin job[j].todo =>
           \A x \in item' : x.case = c => c = job'[j].cur /\ x.id \in job'[j].ids
  BY <1>1, <1>3 DEF CaseOK
<1>5. c \notin job[j].todo /\ job'[j].pc = "get" => Gone(c)'
  BY <1>3, <1>4 DEF Gone
<1> QED
  BY <1>3, <1>4, <1>5 DEF CaseOK, Importing

(* All old items are gone when the launch is started again.                *)
LEMMA BetweenCase ==
  ASSUME Inv, NEW j \in Job, ReadBuildNums(j) \/ AddBuildNum(j) \/ StartLaunch(j), faults' = 0,
         NEW c \in FileCases(j), CaseOK(j, c)
  PROVE  CaseOK(j, c)'
<1>1. CASE ReadBuildNums(j)
  <2>1. /\ job[j].pc = "get" /\ job[j].todo = {} /\ item' = item
        /\ job'[j].pc = "nums" \/ job'[j].pc = "launch"
    BY <1>1, ReadBuildNumsEffect DEF server
  <2>2. Gone(c)'
    BY <2>1 DEF CaseOK, Gone
  <2> QED
    BY <2>1, <2>2 DEF CaseOK, Importing
<1>2. CASE AddBuildNum(j)
  <2>1. job[j].pc = "nums" /\ item' = item /\ job'[j].pc = "launch"
    BY <1>2, AddBuildNumEffect
  <2>2. Gone(c)'
    BY <2>1 DEF CaseOK, Gone
  <2> QED
    BY <2>1, <2>2 DEF CaseOK, Importing
<1>3. CASE StartLaunch(j)
  <2>1. job[j].pc = "launch" /\ item' = item /\ job'[j].pc = "suite"
    BY <1>3, StartLaunchEffect
  <2>2. Gone(c)'
    BY <2>1 DEF CaseOK, Gone
  <2> QED
    BY <2>1, <2>2 DEF CaseOK, Importing
<1> QED
  BY <1>1, <1>2, <1>3

(* When the suite is started every case of the file is without an item.    *)
LEMMA StartSuiteCase ==
  ASSUME Inv, NEW j \in Job, StartSuite(j), faults' = 0, NEW c \in FileCases(j), CaseOK(j, c)
  PROVE  CaseOK(j, c)'
<1>1. job[j].pc = "suite" /\ item' = item /\ job'[j].pc = "cases" /\ job'[j].todo = FileCases(j)
  BY StartSuiteEffect DEF server
<1>2. Gone(c)'
  BY <1>1 DEF CaseOK, Gone
<1> QED
  BY <1>1, <1>2 DEF CaseOK, Importing

(* A case gets its new item.                                               *)
LEMMA StartChildCase ==
  ASSUME Inv, NEW j \in Job, PlaceOK(j), StartChild(j), faults' = 0, NEW c \in FileCases(j), CaseOK(j, c)
  PROVE  CaseOK(j, c)'
<1>1. job[j].pc = "cases"
  BY DEF StartChild, At
<1>2. job[j].kept = {}
  BY <1>1 DEF PlaceOK, Rerunning
<1> DEFINE i == [id |-> items + 1, launch |-> job[j].l, case |-> job'[j].cur, status |-> "OPEN"]
<1>3. /\ job'[j].pc = "child" /\ job'[j].l = job[j].l /\ job'[j].file = job[j].file
      /\ job'[j].cur \in job[j].todo /\ job'[j].todo = job[j].todo \ {job'[j].cur}
      /\ job'[j].ids = {items + 1} /\ item' = item \cup {i}
  BY <1>2, StartChildEffect DEF KeptReport
<1>4. i.case = job'[j].cur /\ i.launch = job[j].l /\ i.id = items + 1
  OBVIOUS
<1> HIDE DEF i
<1>5. /\ c \in job[j].todo => Gone(c)
      /\ c \notin job[j].todo => Settled(c, job[j].l, job[j].file[c])
  BY <1>1 DEF CaseOK
<1>6. CASE c \in job'[j].todo
  <2>1. Gone(c)'
    BY <1>3, <1>4, <1>5, <1>6 DEF Gone
  <2> QED
    BY <1>3, <1>6, <2>1 DEF CaseOK, Importing
<1>7. CASE c = job'[j].cur
  <2>1. Added(c, job[j].l, job[j].ids)'
    BY <1>3, <1>4, <1>5, <1>7 DEF Gone, Added
  <2> QED
    BY <1>3, <1>7, <2>1 DEF CaseOK, Importing
<1>8. CASE c \notin job[j].todo
  <2>1. c # job'[j].cur
    BY <1>3, <1>8
  <2>2. Settled(c, job[j].l, job[j].file[c])'
    BY <1>3, <1>4, <1>5, <1>8, <2>1 DEF Settled
  <2> QED
    BY <1>3, <1>8, <2>1, <2>2 DEF CaseOK, Importing
<1> QED
  BY <1>3, <1>6, <1>7, <1>8

(* The item gets the status of the file.                                   *)
LEMMA FinishChildCase ==
  ASSUME Inv, NEW j \in Job, FinishChild(j), faults' = 0, NEW c \in FileCases(j), CaseOK(j, c)
  PROVE  CaseOK(j, c)'
<1> DEFINE S == job[j].ids
           done(i) == [i EXCEPT !.status = job[j].file[i.case]]
<1>1. /\ job[j].pc = "child" /\ job'[j].pc = "cases" /\ job'[j].l = job[j].l
      /\ job'[j].todo = job[j].todo /\ job'[j].file = job[j].file
      /\ item' = {IF i.id \in S THEN done(i) ELSE i : i \in item}
  BY FinishChildEffect DEF KeptReport
<1>2. \A i \in item : /\ done(i).case = i.case /\ done(i).launch = i.launch
                      /\ done(i).status = job[j].file[i.case]
  BY Facts DEF ItemRec
<1>3. \A x \in item : x.id \in S => x.case = job[j].cur
  BY <1>1, Facts DEF ReplaceOK
<1> HIDE DEF done, S
<1>4. \A x \in item' : \E y \in item : x = IF y.id \in S THEN done(y) ELSE y
  BY <1>1
<1>5. \A y \in item : (IF y.id \in S THEN done(y) ELSE y) \in item'
  BY <1>1
<1>6. CASE c \in job[j].todo
  <2>1. Gone(c)
    BY <1>1, <1>6 DEF CaseOK
  <2>2. Gone(c)'
    BY <1>2, <1>4, <2>1 DEF Gone
  <2> QED
    BY <1>1, <1>6, <2>2 DEF CaseOK, Importing
<1>7. CASE c \notin job[j].todo /\ c = job[j].cur
  <2>1. PICK i \in item : /\ i.case = c /\ i.launch = job[j].l /\ i.id \in S
                          /\ \A x \in item : x.case = c => x = i
    BY <1>1, <1>7 DEF CaseOK, Added, S
  <2>2. done(i) \in item' /\ \A x \in item' : x.case = c => x = done(i)
    BY <1>2, <1>4, <1>5, <2>1
  <2>3. Settled(c, job[j].l, job[j].file[c])'
    BY <1>1, <1>2, <2>1, <2>2 DEF Settled
  <2> QED
    BY <1>1, <1>7, <2>3 DEF CaseOK, Importing
<1>8. CASE c \notin job[j].todo /\ c # job[j].cur
  <2>1. PICK i \in item : /\ i.case = c /\ i.launch = job[j].l /\ i.status = job[j].file[c]
                          /\ \A x \in item : x.case = c => x = i
    BY <1>1, <1>8 DEF CaseOK, Settled
  <2>2. i \in item' /\ \A x \in item' : x.case = c => x = i
    BY <1>2, <1>3, <1>4, <1>5, <1>8, <2>1
  <2>3. Settled(c, job[j].l, job[j].file[c])'
    BY <1>1, <2>1, <2>2 DEF Settled
  <2> QED
    BY <1>1, <1>8, <2>3 DEF CaseOK, Importing
<1> QED
  BY <1>6, <1>7, <1>8

(* When the suite is finished every case of the file is settled.           *)
LEMMA FinishSuiteCase ==
  ASSUME Inv, NEW j \in Job, FinishSuite(j), faults' = 0, NEW c \in FileCases(j), CaseOK(j, c)
  PROVE  CaseOK(j, c)'
<1>1. /\ job[j].pc = "cases" /\ job[j].todo = {} /\ job'[j].pc = "finish" /\ item' = item
      /\ job'[j].l = job[j].l /\ job'[j].file = job[j].file
  BY FinishSuiteEffect DEF KeptReport, KeptWork, server
<1>2. Settled(c, job[j].l, job[j].file[c])'
  BY <1>1 DEF CaseOK, Settled
<1> QED
  BY <1>1, <1>2 DEF CaseOK, Importing

(* A job that is not in the middle of a launch says nothing of a case.     *)
LEMMA RestCase ==
  ASSUME NEW j \in Job, NEW c \in Case, job'[j].pc \in Choosing \cup {"report"}
  PROVE  CaseOK(j, c)'
  BY DEF CaseOK, Choosing, Importing

(* A step of a job keeps what is known of each case it reports.            *)
LEMMA OwnCase ==
  ASSUME Inv, ActiveInv, ApartInv, PlaceInv, OneEach, NEW j \in Job, Acts(j), Frame(j), faults' = 0,
         \A c \in FileCases(j) : CaseOK(j, c), NEW c \in FileCases(j)'
  PROVE  CaseOK(j, c)'
<1>1. faults = 0 /\ PlaceOK(j) /\ c \in Case
  BY DEF PlaceInv, Frame, FileCases
<1>2. KeptReport(j) => c \in FileCases(j) /\ CaseOK(j, c)
  BY DEF FileCases, KeptReport
<1>3. CASE job[j].pc \in Choosing /\ job'[j].pc \in Choosing
  BY <1>1, <1>3, RestCase
<1>4. CASE Execute(j) \/ EndBuild(j) \/ AddAttributes(j)
  <2>1. Execute(j) => job'[j].pc = "report"
    BY ExecuteEffect
  <2>2. EndBuild(j) => job'[j].pc = "idle"
    BY EndBuildEffect DEF Idle
  <2>3. AddAttributes(j) => job'[j].pc = "report"
    BY AddAttributesEffect
  <2> QED
    BY <1>1, <1>4, <2>1, <2>2, <2>3, RestCase DEF Choosing
<1>5. CASE LogResult(j)
  BY <1>5, LogResultCase
<1>6. CASE Import(j)
  <2>1. KeptReport(j)
    BY <1>6, ImportEffect
  <2> QED
    BY <1>2, <1>6, <2>1, ImportCase
<1>7. CASE GetLaunchId(j)
  <2>1. KeptReport(j)
    BY <1>7, GetLaunchIdEffect
  <2> QED
    BY <1>2, <1>7, <2>1, GetLaunchIdCase
<1>8. CASE job[j].pc \in Rerunning /\ KeptReport(j)
  <2>1. c \in FileCases(j) /\ CaseOK(j, c)
    BY <1>2, <1>8
  <2>2. CASE FinishLaunch(j)
    BY <1>1, <2>2, RestCase, FinishLaunchEffect
  <2>3. /\ job[j].pc # "idle" /\ job[j].pc # "check" /\ job[j].pc # "ask" /\ job[j].pc # "execute"
        /\ job[j].pc # "report" /\ job[j].pc # "import" /\ job[j].pc # "getid"
        /\ job[j].pc # "attrs"
    BY <1>8 DEF Rerunning
  <2>4. \/ GetChild(j) \/ DeleteChild(j) \/ ReadBuildNums(j) \/ AddBuildNum(j) \/ StartLaunch(j)
        \/ StartSuite(j) \/ StartChild(j) \/ FinishChild(j) \/ FinishSuite(j) \/ FinishLaunch(j)
        \/ Kill(j)
    BY <2>3 DEF Acts, Step, StartBuild, CheckLaunches, AskFailed, Choose, Execute, LogResult,
       EndBuild, Import, GetLaunchId, AddAttributes, At
  <2>5. ~Kill(j)
    BY <1>1, Facts, Constants DEF Kill, Die
  <2> QED
    BY <1>1, <2>1, <2>2, <2>4, <2>5, GetChildCase, DeleteChildCase, BetweenCase, StartSuiteCase,
       StartChildCase, FinishChildCase, FinishSuiteCase
<1> QED
  BY <1>1, <1>3, <1>4, <1>5, <1>6, <1>7, <1>8, Phases

(* A file that waits for its report, or is being reported, still is, or    *)
(* what it says is shown.                                                  *)
LEMMA PendingStep ==
  ASSUME Inv, PlaceInv, NEW j \in Job, Acts(j), Frame(j), faults' = 0,
         \A c \in FileCases(j) : CaseOK(j, c), NEW c \in Case, Pending(j, c)
  PROVE  \/ Pending(j, c)'
         \/ \E l \in LaunchesOf(TeamOf[c])' : Settled(c, l, latest[c])'
<1>1. faults = 0 /\ FileOK(j) /\ PlaceOK(j) /\ job[j].file[c] # None
  BY DEF PlaceInv, Frame, Pending
<1>2. job[j].pc \notin Choosing
  BY <1>1 DEF FileOK
<1>3. ~Execute(j)
  BY <1>2 DEF Execute, Choosing, At
<1>4. CASE LogResult(j)
  <2>1. /\ job[j].pc = "report" /\ job'[j].file = job[j].file
        /\ job'[j].teams = job[j].teams \ {job'[j].team}
        /\ job'[j].pc = "import" \/ job'[j].pc = "get"
    BY <1>4, LogResultEffect
  <2>2. TeamOf[c] \in job[j].teams
    BY <2>1 DEF Pending, Reporting, Holding, Rerunning
  <2> QED
    BY <1>1, <2>1, <2>2 DEF Pending, Reporting, Holding, Rerunning
<1>5. ~EndBuild(j)
  <2> SUFFICES ASSUME EndBuild(j)
               PROVE  FALSE
    OBVIOUS
  <2>1. job[j].pc = "report" /\ job[j].teams = {}
    BY EndBuildEffect
  <2> QED
    BY <2>1 DEF Pending, Reporting, Holding, Rerunning
<1>6. CASE KeptReport(j) /\ job'[j].pc \in Reporting
  BY <1>6 DEF Pending, KeptReport
<1>7. CASE TeamOf[c] \in job[j].teams /\ KeptReport(j)
  BY <1>7 DEF Pending, KeptReport
<1>8. PICK t \in Team : t = TeamOf[c]
  BY Constants
<1>9. CASE /\ TeamOf[c] \notin job[j].teams /\ AddAttributes(j)
  <2>1. /\ job[j].pc = "attrs" /\ item' = item /\ latest' = latest
        /\ job[j].l \in Launch /\ Len(launch') = Len(launch) /\ launch'[job[j].l].golang
        /\ launch'[job[j].l].team = job[j].team
    BY <1>9, AddAttributesEffect
  <2>2. TeamOf[c] = job[j].team /\ c \in FileCases(j)
    BY <1>9 DEF Pending, FileCases
  <2>3. Settled(c, job[j].l, job[j].file[c])
    BY <2>1, <2>2 DEF CaseOK, Importing
  <2>4. job[j].file[c] = latest[c]
    BY <1>1 DEF FileOK
  <2>5. job[j].l \in LaunchesOf(t)'
    BY <1>8, <2>1, <2>2 DEF LaunchesOf, GolangLaunches, Launch
  <2>6. \A l : Settled(c, l, latest[c]) => Settled(c, l, latest[c])'
    BY <2>1 DEF Settled
  <2> QED
    BY <1>8, <2>3, <2>4, <2>5, <2>6
<1>10. CASE TeamOf[c] \notin job[j].teams /\ FinishLaunch(j)
  <2>1. job[j].pc = "finish" /\ item' = item /\ latest' = latest
    BY <1>10, FinishLaunchEffect
  <2>2. TeamOf[c] = job[j].team /\ c \in FileCases(j) /\ job[j].l \in LaunchesOf(t)
    BY <1>1, <1>8, <1>10, <2>1 DEF Pending, FileCases, PlaceOK, Rerunning
  <2>3. Settled(c, job[j].l, job[j].file[c])
    BY <2>1, <2>2 DEF CaseOK, Importing
  <2>4. job[j].file[c] = latest[c]
    BY <1>1 DEF FileOK
  <2>5. job[j].l \in LaunchesOf(t)'
    BY <1>1, <2>2, LaunchesStay
  <2>6. \A l : Settled(c, l, latest[c]) => Settled(c, l, latest[c])'
    BY <2>1 DEF Settled
  <2> QED
    BY <1>8, <2>3, <2>4, <2>5, <2>6
<1>11. CASE Import(j) \/ GetLaunchId(j) \/ AddAttributes(j)
  <2>1. KeptReport(j) /\ (job'[j].pc \in Reporting \/ AddAttributes(j))
    BY <1>11, ImportEffect, GetLaunchIdEffect, AddAttributesEffect DEF Reporting, Holding
  <2> QED
    BY <1>6, <1>7, <1>9, <2>1
<1>12. CASE /\ job[j].pc \in Rerunning /\ KeptReport(j)
            /\ job'[j].pc \in Rerunning \/ FinishLaunch(j)
  BY <1>6, <1>7, <1>10, <1>12 DEF Reporting, Holding
<1> QED
  BY <1>1, <1>2, <1>3, <1>4, <1>5, <1>11, <1>12, Phases

(* What is shown of a case that is not being reported stays shown.         *)
LEMMA SettledStep ==
  ASSUME Inv, PlaceInv, NEW j \in Job, Acts(j), Frame(j), faults' = 0, NEW c \in Case,
         ~Pending(j, c), latest[c] # None => \E l \in LaunchesOf(TeamOf[c]) : Settled(c, l, latest[c]),
         latest'[c] # None
  PROVE  \/ Pending(j, c)'
         \/ \E l \in LaunchesOf(TeamOf[c])' : Settled(c, l, latest[c])'
<1>1. faults = 0 /\ PlaceOK(j) /\ FileOK(j) /\ ItemsKept(j)
  BY DEF PlaceInv, Frame
<1>2. CASE Execute(j) /\ c \in job[j].run \cap CasesOf[j]
  <2>1. /\ latest'[c] \in Outcome /\ job'[j].file[c] = latest'[c]
        /\ job'[j].teams = TeamsOf(job[j].run \cap CasesOf[j])
    BY <1>2, ExecuteEffect
  <2>2. TeamOf[c] \in job'[j].teams
    BY <1>2, <2>1 DEF TeamsOf
  <2> QED
    BY <2>1, <2>2 DEF Pending
<1>3. CASE latest'[c] = latest[c]
  <2>1. PICK l \in LaunchesOf(TeamOf[c]) : Settled(c, l, latest[c])
    BY <1>3
  <2>2. PICK t \in Team : t = TeamOf[c]
    BY Constants
  <2>3. l \in LaunchesOf(t)'
    BY <1>1, <2>1, <2>2, LaunchesStay
  <2>4. c \notin FileCases(j) \/ item' = item
    <3>1. job[j].pc \in Reporting => c \notin FileCases(j)
      BY DEF Pending, FileCases
    <3>2. job[j].pc \notin Reporting => item' = item
      <4> SUFFICES ASSUME job[j].pc \notin Reporting
                   PROVE  item' = item
        OBVIOUS
      <4>1. ~Import(j) /\ ~GetLaunchId(j) /\ ~AddAttributes(j) /\ job[j].pc \notin Rerunning
        BY DEF Import, GetLaunchId, AddAttributes, At, Reporting, Holding
      <4>2. Execute(j) \/ LogResult(j) \/ EndBuild(j) => item' = item
        BY DEF Execute, LogResult, EndBuild, server
      <4> QED
        BY <1>1, <4>1, <4>2, Phases DEF server
    <3> QED
      BY <3>1, <3>2
  <2>5. \A x \in item' \cup item : x.case = c => (x \in item <=> x \in item')
    BY <1>1, <2>4 DEF ItemsKept
  <2>6. Settled(c, l, latest[c])'
    BY <1>3, <2>1, <2>5 DEF Settled
  <2> QED
    BY <2>2, <2>3, <2>6
<1>4. Execute(j) => c \in job[j].run \cap CasesOf[j] \/ latest'[c] = latest[c]
  BY ExecuteEffect
<1>5. ~Execute(j) => latest' = latest
  BY <1>1, Phases DEF LogResult, EndBuild, Import, GetLaunchId, AddAttributes
<1> QED
  BY <1>2, <1>3, <1>4, <1>5

(* Every step keeps the cases shown: a result is pending or settled.       *)
LEMMA ShownStep ==
  ASSUME Inv, ActiveInv, ApartInv, PlaceInv, ShownInv, NEW j \in Job, Acts(j)
  PROVE  ShownInv'
<1> SUFFICES ASSUME faults' = 0, OneEach'
             PROVE  ShownInv'
  BY DEF ShownInv
<1>1. faults = 0 /\ PlaceOK(j) /\ \A k \in Job : FileOK(k)
  BY FaultsGrow DEF PlaceInv
<1>2. Frame(j)
  BY <1>1, StepFrame
<1>3. OneEach
  BY <1>1, <1>2, LaunchesStay DEF OneEach
<1>4. /\ \A k \in Job : \A c \in FileCases(k) : CaseOK(k, c)
      /\ \A c \in Case : latest[c] # None =>
           \/ \E k \in Job : Pending(k, c)
           \/ \E l \in LaunchesOf(TeamOf[c]) : Settled(c, l, latest[c])
  BY <1>1, <1>3 DEF ShownInv
<1>5. \A k \in Job : k # j => job'[k] = job[k]
  BY <1>2 DEF Frame
<1>6. \A k \in Job : \A c \in FileCases(k)' : CaseOK(k, c)'
  <2> SUFFICES ASSUME NEW k \in Job, NEW c \in FileCases(k)'
               PROVE  CaseOK(k, c)'
    OBVIOUS
  <2>1. CASE k = j
    BY <1>2, <1>3, <1>4, <2>1, OwnCase
  <2>2. CASE k # j
    <3>1. c \in FileCases(k) /\ c \in Case
      BY <1>5, <2>2 DEF FileCases
    <3>2. c \in CasesOf[k] /\ job[k].pc # "idle"
      BY <1>1, <3>1 DEF FileOK, FileCases, Choosing
    <3>3. c \notin CasesOf[j]
      BY <1>2, <2>2, <3>2 DEF ApartInv, ActiveInv, Active, Frame
    <3>4. c \notin FileCases(j)
      BY <1>1, <3>3 DEF FileOK, FileCases
    <3> QED
      BY <1>2, <1>4, <1>5, <2>2, <3>1, <3>4, OthersCase DEF Frame
  <2> QED
    BY <2>1, <2>2
<1>7. ASSUME NEW c \in Case, latest'[c] # None
      PROVE  \/ \E k \in Job : Pending(k, c)'
             \/ \E l \in LaunchesOf(TeamOf[c])' : Settled(c, l, latest[c])'
  <2>1. CASE \E k \in Job : k # j /\ Pending(k, c)
    BY <1>5, <2>1 DEF Pending
  <2>2. CASE Pending(j, c)
    BY <1>2, <1>4, <2>2, PendingStep
  <2>3. CASE \A k \in Job : ~Pending(k, c)
    BY <1>2, <1>4, <1>7, <2>3, SettledStep
  <2> QED
    BY <2>1, <2>2, <2>3
<1> QED
  BY <1>6, <1>7 DEF ShownInv

-----------------------------------------------------------------------------
ShowInv == Inv /\ ActiveInv /\ ApartInv /\ PlaceInv /\ SoloInv /\ ShownInv

(* The invariant of LatestShown holds at first.                            *)
LEMMA ShowInit ==
  ASSUME JobsApart, Init
  PROVE  ShowInv
<1>1. Inv
  BY InitInv
<1>2. /\ launch = <<>> /\ item = {} /\ built = {} /\ faults = 0 /\ left \in Budgets
      /\ job = [j \in Job |-> Idle] /\ latest = [c \in Case |-> None]
  BY DEF Init
<1>3. /\ Idle.pc = "idle" /\ Idle.teams = {} /\ Idle.file = [c \in Case |-> None]
  BY DEF Idle
<1>4. Launch = {}
  BY <1>2 DEF Launch
<1>5. ActiveInv
  BY <1>2, <1>3, Constants, FS_EmptySet DEF ActiveInv
<1>6. ApartInv
  BY <1>2, Constants DEF ApartInv, Active, JobsApart
<1>7. \A j \in Job : FileOK(j) /\ PlaceOK(j)
  <2>1. \A j \in Job : FileOK(j)
    BY <1>2, <1>3 DEF FileOK
  <2>2. \A j \in Job : job[j].pc = "idle"
    BY <1>2, <1>3
  <2> QED
    BY <2>1, <2>2 DEF PlaceOK, Reporting, Holding, Rerunning, Importing
<1>8. PlaceInv
  BY <1>2, <1>3, <1>7 DEF PlaceInv, ImportsApart, Importing
<1>9. SoloInv
  BY <1>2, <1>3, <1>4 DEF SoloInv, OneEach, LaunchesOf, GolangLaunches, Importing
<1>10. ShownInv
  BY <1>2, <1>3 DEF ShownInv, FileCases
<1> QED
  BY <1>1, <1>5, <1>6, <1>8, <1>9, <1>10 DEF ShowInv

(* Every step keeps the invariant of LatestShown.                          *)
LEMMA ShowStep == ShowInv /\ [Next]_vars => ShowInv'
<1> SUFFICES ASSUME ShowInv, [Next]_vars
             PROVE  ShowInv'
  OBVIOUS
<1>1. Inv /\ ActiveInv /\ ApartInv /\ PlaceInv /\ SoloInv /\ ShownInv
  BY DEF ShowInv
<1>2. CASE Next
  <2>1. PICK j \in Job : Acts(j)
    BY <1>2 DEF Next, Acts
  <2>2. Inv'
    BY <1>1, <2>1, NextStepOK, StepKeeps DEF Acts
  <2>3. ActiveInv' /\ ApartInv'
    BY <1>1, <2>1, ActiveStep, ApartStep
  <2> QED
    BY <1>1, <2>1, <2>2, <2>3, PlaceStep, SoloStep, ShownStep DEF ShowInv
<1>3. CASE UNCHANGED vars
  <2>1. Inv'
    BY <1>1, <1>3, StutterInv
  <2>2. /\ launch' = launch /\ item' = item /\ job' = job /\ left' = left /\ built' = built
        /\ faults' = faults /\ latest' = latest
    BY <1>3 DEF vars
  <2>3. ActiveInv' /\ ApartInv'
    BY <1>1, <2>2 DEF ActiveInv, ApartInv, Active
  <2>4. PlaceInv'
    BY <1>1, <2>2 DEF PlaceInv, FileOK, PlaceOK, ImportsApart, Placed, LaunchesOf, GolangLaunches,
       Launch, FileCases
  <2>5. SoloInv'
    BY <1>1, <2>2 DEF SoloInv, Solo, OneEach, LaunchesOf, GolangLaunches, Launch
  <2>6. ShownInv'
    BY <1>1, <2>2 DEF ShownInv, OneEach, LaunchesOf, GolangLaunches, Launch, FileCases, CaseOK,
       Pending, Settled, Gone, Added
  <2> QED
    BY <2>1, <2>3, <2>4, <2>5, <2>6 DEF ShowInv
<1> QED
  BY <1>2, <1>3

(* A set of at most one element.                                           *)
LEMMA AtMostOne ==
  ASSUME NEW S, IsFiniteSet(S)
  PROVE  Cardinality(S) <= 1 <=> \A x, y \in S : x = y
<1>1. CASE S = {}
  BY <1>1, FS_EmptySet
<1>2. ASSUME NEW x \in S
      PROVE  Cardinality(S) <= 1 <=> \A y, z \in S : y = z
  <2>1. /\ IsFiniteSet(S \ {x}) /\ Cardinality(S \ {x}) = Cardinality(S) - 1
        /\ Cardinality(S \ {x}) \in Nat /\ Cardinality(S) \in Nat
    BY <1>2, FS_RemoveElement, FS_CardinalityType
  <2>2. Cardinality(S \ {x}) = 0 <=> S \ {x} = {}
    BY <2>1, FS_EmptySet
  <2>3. Cardinality(S) <= 1 <=> S \ {x} = {}
    BY <2>1, <2>2
  <2>4. S \ {x} = {} <=> \A y, z \in S : y = z
    BY <1>2
  <2> QED
    BY <2>3, <2>4
<1> QED
  BY <1>1, <1>2

(* The invariant of LatestShown says that results are shown once.          *)
LEMMA ShowImplies ==
  ASSUME ShowInv
  PROVE  ShownOnce
<1>1. Inv /\ ActiveInv /\ PlaceInv /\ SoloInv /\ ShownInv
  BY DEF ShowInv
<1>2. Len(launch) \in Nat /\ \A t : IsFiniteSet(LaunchesOf(t))
  <2>1. Len(launch) \in Nat
    BY <1>1 DEF Inv, TypeInv, ServerTypes
  <2>2. IsFiniteSet(1 .. Len(launch))
    BY <2>1, FS_Interval
  <2>3. \A t : LaunchesOf(t) \subseteq 1 .. Len(launch)
    BY DEF LaunchesOf, GolangLaunches, Launch
  <2> QED
    BY <2>1, <2>2, <2>3, FS_Subset
<1>3. \A t : Cardinality(LaunchesOf(t)) <= 1 <=> \A l, m \in LaunchesOf(t) : l = m
  BY <1>2, AtMostOne
<1>4. ShownIsLatest
  <2> SUFFICES ASSUME faults = 0, \A j \in Job : At(j, "idle"),
                      \A t \in Team : Cardinality(LaunchesOf(t)) <= 1,
                      NEW c \in Case, latest[c] # None
               PROVE  \E i \in item : /\ {x \in item : x.case = c} = {i}
                                      /\ i.status = latest[c] /\ i.launch \in LaunchesOf(TeamOf[c])
    BY DEF ShownIsLatest
  <2>1. OneEach
    BY <1>3 DEF OneEach
  <2>2. \A j \in Job : ~Pending(j, c)
    BY <1>1 DEF Pending, PlaceInv, FileOK, At, Choosing
  <2>3. PICK l \in LaunchesOf(TeamOf[c]) : Settled(c, l, latest[c])
    BY <1>1, <2>1, <2>2 DEF ShownInv
  <2>4. PICK i \in item : /\ i.case = c /\ i.launch = l /\ i.status = latest[c]
                          /\ \A x \in item : x.case = c => x = i
    BY <2>3 DEF Settled
  <2>5. {x \in item : x.case = c} = {i}
    BY <2>4
  <2> QED
    BY <2>3, <2>4, <2>5
<1>5. OneLaunchPerTeam
  <2> SUFFICES ASSUME faults = 0, Cardinality(built) <= 1
               PROVE  \A t \in Team : Cardinality(LaunchesOf(t)) <= 1
    BY DEF OneLaunchPerTeam
  <2>1. \A j, k \in built : j = k
    BY <1>1, AtMostOne DEF ActiveInv
  <2>2. OneEach
    BY <1>1, <2>1 DEF SoloInv, Solo
  <2> QED
    BY <1>3, <2>2 DEF OneEach
<1> QED
  BY <1>4, <1>5 DEF ShownOnce

(* What ReportPortal shows is what ran last, and in one place: for any     *)
(* number of jobs that share no case, of cases, teams and rebuilds, as     *)
(* long as no call fails (the hypotheses that ShownOnce itself names).     *)
THEOREM LatestShown ==
  ASSUME JobsApart
  PROVE  Spec => []ShownOnce
<1>1. Init => ShowInv
  BY ShowInit
<1>2. ShowInv /\ [Next]_vars => ShowInv'
  BY ShowStep
<1>3. ShowInv => ShownOnce
  BY ShowImplies
<1> QED
  BY <1>1, <1>2, <1>3, PTL DEF Spec

-----------------------------------------------------------------------------
(* What a rebuild finds out.  The launches of the case's team that hold    *)
(* results of the job; as long as it has one, a failure of the case is in  *)
(* one of them, or the job's client still has the file that says so.       *)
Matched(j, c) == {l \in LaunchesOf(TeamOf[c]) : j \in launch[l].nums}
FailedAt(l, c) == \E x \in item : x.launch = l /\ x.case = c /\ x.status = "FAILED"
Known(j, c) == Matched(j, c) = {} \/ \E m \in Matched(j, c) : FailedAt(m, c)
AtWork(j, c) == job[j].pc \in Reporting /\ job[j].team = TeamOf[c]
Reported(j, c) ==
  \/ job[j].pc = "cases" /\ c \notin job[j].todo
  \/ job[j].pc = "child" /\ c \notin job[j].todo /\ c # job[j].cur
  \/ job[j].pc \in Importing \cup {"finish"}
NewOK(j, c) ==
  /\ job[j].pc = "ask" => (c \in job[j].new <=> Matched(j, c) = {})
  /\ job[j].pc = "execute" /\ Matched(j, c) = {} => c \in job[j].run
  /\ TeamOf[c] \in job[j].teams /\ Matched(j, c) = {} => job[j].file[c] # None
  /\ AtWork(j, c) /\ job[j].pc \in {"import", "getid", "attrs", "get", "delete", "nums"}
       /\ Matched(j, c) = {} => job[j].file[c] # None
KnownOK(j, c) ==
  /\ job[j].pc \in {"ask", "execute"} /\ c \in job[j].run => Known(j, c)
  /\ job[j].file[c] = None /\ latest[c] = "FAILED" => Known(j, c)
  /\ job[j].file[c] # None /\ TeamOf[c] \in job[j].teams => Known(j, c)
  /\ job[j].file[c] = "FAILED" /\ ~AtWork(j, c) => Known(j, c)
  /\ AtWork(j, c) /\ job[j].pc \in Importing \cup {"import"} => Matched(j, c) = {}
  /\ AtWork(j, c) /\ job[j].pc \in Rerunning /\ job[j].file[c] # None =>
       \/ Matched(j, c) = {} \/ job[j].l \in Matched(j, c)
       \/ \E m \in Matched(j, c) : m # job[j].l /\ FailedAt(m, c)
  /\ AtWork(j, c) /\ Reported(j, c) /\ job[j].file[c] = "FAILED" => FailedAt(job[j].l, c)
  /\ job[j].pc = "ask" /\ latest[c] = "FAILED" =>
       \/ c \in job[j].new \/ c \in job[j].run
       \/ \E m \in job[j].ask : FailedAt(m, c)
RanOK(j) ==
  /\ (\E l \in Launch : j \in launch[l].nums) => j \in built
  /\ j \in built => \/ \A c \in CasesOf[j] : latest[c] # None
                    \/ job[j].pc = "execute" /\ job[j].run = CasesOf[j]
  /\ job[j].pc = "ask" => \A l \in job[j].ask : l \in GolangLaunches /\ j \in launch[l].nums
  /\ job[j].pc \in {"idle", "check"} => job[j].run = {}
  /\ job[j].pc = "child" =>
       \E x \in item : x.id \in job[j].ids /\ x.launch = job[j].l /\ x.case = job[j].cur
KnownInv ==
  faults = 0 => \A j \in Job :
    RanOK(j) /\ \A c \in CasesOf[j] : Active(j) => NewOK(j, c) /\ KnownOK(j, c)

(* A job's build number is only added by the job itself.                   *)
LEMMA MatchedOthers ==
  ASSUME Inv, NEW j \in Job, Acts(j), PlaceOK(j), Frame(j), faults' = 0,
         NEW k \in Job, k # j, NEW c \in Case
  PROVE  Matched(k, c)' = Matched(k, c)
<1>1. PICK t \in Team : t = TeamOf[c]
  BY Constants
<1>2. /\ \A l \in LaunchesOf(t) : l \in LaunchesOf(t)'
      /\ \A l \in LaunchesOf(t)' : l \in LaunchesOf(t) \/ (job[j].pc = "attrs" /\ l = job[j].l)
  BY LaunchesStay
<1>3. job[j].pc = "attrs" => launch'[job[j].l].nums = {j} /\ ~launch[job[j].l].golang
  <2> SUFFICES ASSUME job[j].pc = "attrs"
               PROVE  launch'[job[j].l].nums = {j} /\ ~launch[job[j].l].golang
    OBVIOUS
  <2>1. AddAttributes(j)
    BY ImportingStep DEF Frame, Importing, GetLaunchId, At
  <2> QED
    BY <2>1, AddAttributesEffect DEF PlaceOK, Importing
<1>4. \A l \in LaunchesOf(t) : l \in Launch /\ launch[l].golang
  BY DEF LaunchesOf, GolangLaunches
<1>5. \A l \in LaunchesOf(t) : launch'[l].nums = launch[l].nums \/ launch'[l].nums = launch[l].nums \cup {j}
  BY <1>3, <1>4 DEF Frame, LaunchFrame
<1>6. \A l \in LaunchesOf(t)' : k \in launch'[l].nums => l \in LaunchesOf(t)
  BY <1>2, <1>3
<1>7. {l \in LaunchesOf(t)' : k \in launch'[l].nums} = {l \in LaunchesOf(t) : k \in launch[l].nums}
  BY <1>2, <1>5, <1>6
<1> QED
  BY <1>1, <1>7 DEF Matched

(* The launches as CheckLaunches sees them change with two steps.          *)
LEMMA LaunchSame ==
  ASSUME Inv, NEW j \in Job, Acts(j), PlaceOK(j), Frame(j), faults' = 0,
         ~AddAttributes(j), ~AddBuildNum(j)
  PROVE  \A m \in Launch : launch'[m].golang = launch[m].golang /\ launch'[m].team = launch[m].team
                           /\ launch'[m].nums = launch[m].nums
<1>1. CASE Import(j)
  BY <1>1, ImportEffect
<1>2. CASE StartLaunch(j)
  BY <1>2, StartLaunchEffect
<1>3. CASE FinishLaunch(j)
  BY <1>3, FinishLaunchEffect
<1>4. launch' = launch \/ Import(j) \/ StartLaunch(j) \/ FinishLaunch(j)
  BY DEF Acts, Step, StartBuild, CheckLaunches, AskFailed, Choose, Execute, LogResult, EndBuild,
     GetLaunchId, GetChild, DeleteChild, ReadBuildNums, StartSuite, StartChild, FinishChild,
     FinishSuite, Kill, server
<1> QED
  BY <1>1, <1>2, <1>3, <1>4

(* Nor does any other step of the job change the launches that match its   *)
(* own cases.                                                              *)
LEMMA MatchedSame ==
  ASSUME Inv, NEW j \in Job, Acts(j), PlaceOK(j), Frame(j), faults' = 0,
         ~AddAttributes(j), ~AddBuildNum(j), NEW c \in Case
  PROVE  Matched(j, c)' = Matched(j, c)
<1>1. PICK t \in Team : t = TeamOf[c]
  BY Constants
<1>2. job[j].pc # "attrs"
  BY ImportingStep DEF Frame, Importing, GetLaunchId, At
<1>3. LaunchesOf(t)' = LaunchesOf(t)
  BY <1>2, LaunchesStay
<1>4. \A l \in LaunchesOf(t) : launch'[l].nums = launch[l].nums
  BY LaunchSame DEF LaunchesOf, GolangLaunches
<1>5. {l \in LaunchesOf(t)' : j \in launch'[l].nums} = {l \in LaunchesOf(t) : j \in launch[l].nums}
  BY <1>3, <1>4
<1> QED
  BY <1>1, <1>5 DEF Matched

(* A step of one job changes no failure of another one's case.             *)
LEMMA FailedSame ==
  ASSUME NEW j \in Job, ItemsKept(j), NEW c \in Case, c \notin FileCases(j)
  PROVE  \A l : FailedAt(l, c)' <=> FailedAt(l, c)
<1>1. /\ \A x \in item : x.case = c => x \in item'
      /\ \A x \in item' : x.case = c => x \in item
  BY DEF ItemsKept
<1> QED
  BY <1>1 DEF FailedAt

(* A step of one job keeps what every other job knows of its failures.     *)
LEMMA OthersKnown ==
  ASSUME Inv, ActiveInv, ApartInv, PlaceInv, KnownInv, NEW j \in Job, Acts(j), Frame(j), faults' = 0,
         NEW k \in Job, k # j, NEW c \in CasesOf[k], Active(k)
  PROVE  NewOK(k, c)' /\ KnownOK(k, c)'
<1>1. /\ faults = 0 /\ PlaceOK(j) /\ FileOK(j) /\ NewOK(k, c) /\ KnownOK(k, c)
      /\ job'[k] = job[k] /\ c \in Case /\ ItemsKept(j)
  BY Constants DEF PlaceInv, KnownInv, Frame
<1>2. c \notin CasesOf[j]
  BY DEF ApartInv, Frame
<1>3. c \notin FileCases(j) /\ latest'[c] = latest[c]
  BY <1>1, <1>2 DEF FileOK, FileCases, Frame
<1>4. \A l : FailedAt(l, c)' <=> FailedAt(l, c)
  BY <1>1, <1>3, FailedSame
<1>5. Matched(k, c)' = Matched(k, c)
  BY <1>1, MatchedOthers
<1>6. Known(k, c)' <=> Known(k, c)
  BY <1>4, <1>5 DEF Known
<1>7. NewOK(k, c)'
  BY <1>1, <1>5 DEF NewOK, AtWork
<1>8. FailedAt(job[k].l, c) => FailedAt(job[k].l, c)'
  BY <1>1, <1>4 DEF FailedAt
<1>9. KnownOK(k, c)'
  BY <1>1, <1>3, <1>4, <1>5, <1>6, <1>8 DEF KnownOK, AtWork, Reported
<1> QED
  BY <1>7, <1>9

(* A step of one job keeps what the other jobs have run.                   *)
LEMMA OthersRan ==
  ASSUME Inv, ActiveInv, ApartInv, PlaceInv, KnownInv, NEW j \in Job, Acts(j), Frame(j), faults' = 0,
         NEW k \in Job, k # j
  PROVE  RanOK(k)'
<1>1. /\ faults = 0 /\ PlaceOK(j) /\ FileOK(j) /\ RanOK(k) /\ FileOK(k) /\ job'[k] = job[k]
      /\ ItemsKept(j) /\ LaunchFrame(j) /\ Active(j)
  BY DEF PlaceInv, KnownInv, Frame
<1>2. /\ Len(launch) \in Nat /\ Len(launch) <= Len(launch') /\ Len(launch') \in Nat
  <2>1. ServerTypes'
    BY NextStepOK DEF Acts, StepOK
  <2> QED
    BY <1>1, <2>1, Facts DEF LaunchFrame, ServerTypes
<1>3. job[j].pc = "attrs" => launch'[job[j].l].nums = {j} /\ ~launch[job[j].l].golang
  <2> SUFFICES ASSUME job[j].pc = "attrs"
               PROVE  launch'[job[j].l].nums = {j} /\ ~launch[job[j].l].golang
    OBVIOUS
  <2>1. AddAttributes(j)
    BY <1>1, ImportingStep DEF Importing, GetLaunchId, At
  <2> QED
    BY <1>1, <2>1, AddAttributesEffect DEF PlaceOK, Importing
<1>4. built \subseteq built' /\ (k \in built' => k \in built)
  <2>1. StartBuild(j) => built' = built \cup {j}
    BY DEF StartBuild
  <2> QED
    BY <2>1, BuildStep
<1>5. (\E l \in Launch' : k \in launch'[l].nums) => k \in built
  <2> SUFFICES ASSUME NEW l \in Launch', k \in launch'[l].nums
               PROVE  k \in built
    OBVIOUS
  <2>1. l \in Launch /\ k \in launch[l].nums
    BY <1>1, <1>2, <1>3 DEF LaunchFrame, Launch
  <2> QED
    BY <1>1, <2>1 DEF RanOK
<1>6. k \in built => \A c \in CasesOf[k] : latest'[c] = latest[c]
  BY <1>1, Constants DEF ApartInv, Active, Frame
<1>7. job[k].pc = "ask" => \A l \in job[k].ask : l \in GolangLaunches' /\ k \in launch'[l].nums
  BY <1>1, <1>2, <1>3 DEF RanOK, GolangLaunches, Launch, LaunchFrame
<1>8. job[k].pc = "child" =>
        \E x \in item' : x.id \in job[k].ids /\ x.launch = job[k].l /\ x.case = job[k].cur
  <2> SUFFICES ASSUME job[k].pc = "child"
               PROVE  \E x \in item' : x.id \in job[k].ids /\ x.launch = job[k].l /\ x.case = job[k].cur
    OBVIOUS
  <2>1. PICK x \in item : x.id \in job[k].ids /\ x.launch = job[k].l /\ x.case = job[k].cur
    BY <1>1 DEF RanOK
  <2>2. job[k].cur \in FileCases(k)
    BY Facts DEF ClientOK
  <2>3. job[k].cur \in CasesOf[k] /\ Active(k)
    BY <1>1, <2>2 DEF FileOK, FileCases, ActiveInv, Active
  <2>4. job[k].cur \notin FileCases(j)
    BY <1>1, <2>3 DEF FileOK, FileCases, ApartInv
  <2> QED
    BY <1>1, <2>1, <2>4 DEF ItemsKept
<1>9. k \in built' => \/ \A c \in CasesOf[k] : latest'[c] # None
                      \/ job'[k].pc = "execute" /\ job'[k].run = CasesOf[k]
  BY <1>1, <1>4, <1>6 DEF RanOK
<1>10. job'[k].pc \in {"idle", "check"} => job'[k].run = {}
  BY <1>1 DEF RanOK
<1> QED
  BY <1>1, <1>4, <1>5, <1>7, <1>8, <1>9, <1>10 DEF RanOK

(* The parts of RanOK, for the job that acts.                              *)
LEMMA NumsStep ==
  ASSUME Inv, ActiveInv, PlaceInv, KnownInv, NEW j \in Job, Acts(j), Frame(j), faults' = 0
  PROVE  j \in built'
<1>1. CASE StartBuild(j)
  BY <1>1 DEF StartBuild
<1>2. CASE job[j].pc # "idle" /\ UNCHANGED <<left, built>>
  BY <1>2 DEF ActiveInv
<1> QED
  BY <1>1, <1>2, BuildStep

(* A job whose launches carry it has a result of every case, or runs them  *)
(* all.                                                                    *)
LEMMA RanStep ==
  ASSUME Inv, ActiveInv, PlaceInv, KnownInv, NEW j \in Job, Acts(j), Frame(j), faults' = 0
  PROVE  \/ \A c \in CasesOf[j] : latest'[c] # None
         \/ job'[j].pc = "execute" /\ job'[j].run = CasesOf[j]
<1>1. faults = 0 /\ PlaceOK(j) /\ RanOK(j)
  BY DEF PlaceInv, KnownInv, Frame
<1>2. CASE StartBuild(j)
  <2>1. /\ job[j].pc = "idle" /\ latest' = latest
        /\ j \in built \/ (job'[j].pc = "execute" /\ job'[j].run = CasesOf[j])
    BY <1>2, StartBuildEffect
  <2> QED
    BY <1>1, <2>1 DEF RanOK
<1>3. CASE Execute(j)
  <2>1. /\ job[j].pc = "execute"
        /\ \A c \in Case : IF c \in job[j].run \cap CasesOf[j] THEN latest'[c] \in Outcome
                           ELSE latest'[c] = latest[c]
    BY <1>3, ExecuteEffect
  <2>2. j \in built
    BY <2>1 DEF ActiveInv
  <2>3. CasesOf[j] \subseteq Case /\ None \notin Outcome
    BY Constants
  <2> QED
    BY <1>1, <2>1, <2>2, <2>3 DEF RanOK
<1>4. CASE ~StartBuild(j) /\ ~Execute(j)
  <2>1. job[j].pc # "idle" /\ j \in built
    BY <1>4, BuildStep DEF ActiveInv
  <2>2. latest' = latest
    BY <1>1, <1>4, Phases DEF LogResult, EndBuild, Import, GetLaunchId, AddAttributes
  <2>3. job[j].pc # "execute"
    <3>1. ~Kill(j)
      BY <1>1, Facts, Constants DEF Kill, Die
    <3> QED
      BY <1>4, <3>1 DEF Acts, Step, CheckLaunches, AskFailed, Choose, LogResult, EndBuild, Import,
         GetLaunchId, AddAttributes, GetChild, DeleteChild, ReadBuildNums, AddBuildNum, StartLaunch,
         StartSuite, StartChild, FinishChild, FinishSuite, FinishLaunch, At
  <2> QED
    BY <1>1, <2>1, <2>2, <2>3 DEF RanOK
<1> QED
  BY <1>2, <1>3, <1>4

(* The launches a job asks about are golang launches that carry it.        *)
LEMMA AskStep ==
  ASSUME Inv, PlaceInv, KnownInv, NEW j \in Job, Acts(j), Frame(j), faults' = 0, job'[j].pc = "ask"
  PROVE  \A l \in job'[j].ask : l \in GolangLaunches' /\ j \in launch'[l].nums
<1>1. faults = 0 /\ PlaceOK(j) /\ RanOK(j)
  BY DEF PlaceInv, KnownInv, Frame
<1>2. CASE job[j].pc \in Choosing /\ UNCHANGED server
  <2>1. CASE CheckLaunches(j)
    <3>1. job'[j].ask = {l \in GolangLaunches : j \in launch[l].nums}
      BY <2>1, CheckLaunchesEffect
    <3> QED
      BY <1>2, <3>1 DEF GolangLaunches, Launch, server
  <2>2. CASE AskFailed(j)
    <3>1. job[j].pc = "ask" /\ job'[j].ask \subseteq job[j].ask
      BY <2>2, AskFailedEffect
    <3> QED
      BY <1>1, <1>2, <3>1 DEF RanOK, GolangLaunches, Launch, server
  <2>3. ~StartBuild(j)
    <3>1. StartBuild(j) => job'[j].pc = "check" \/ job'[j].pc = "execute"
      BY StartBuildEffect
    <3> QED
      BY <3>1
  <2>4. ~Choose(j)
    <3>1. Choose(j) => job'[j] = Idle \/ job'[j].pc = "execute"
      BY ChooseEffect
    <3> QED
      BY <3>1 DEF Idle
  <2>5. ~Execute(j)
    BY ExecuteEffect
  <2>6. ~Kill(j)
    BY <1>1, Facts, Constants DEF Kill, Die
  <2> QED
    BY <1>2, <2>1, <2>2, <2>3, <2>4, <2>5, <2>6 DEF Acts, Step, Choosing, LogResult, EndBuild, Import,
       GetLaunchId, AddAttributes, GetChild, DeleteChild, ReadBuildNums, AddBuildNum, StartLaunch,
       StartSuite, StartChild, FinishChild, FinishSuite, FinishLaunch, At
<1>3. ~Execute(j)
  BY ExecuteEffect
<1>4. ~LogResult(j)
  BY LogResultEffect
<1>5. ~EndBuild(j)
  BY EndBuildEffect DEF Idle
<1>6. ~Import(j)
  BY ImportEffect
<1>7. ~GetLaunchId(j)
  BY GetLaunchIdEffect
<1>8. ~AddAttributes(j)
  BY AddAttributesEffect
<1>9. job'[j].pc \notin Rerunning \cup {"report"}
  BY DEF Rerunning
<1> QED
  BY <1>1, <1>2, <1>3, <1>4, <1>5, <1>6, <1>7, <1>8, <1>9, Phases

(* A job that starts to choose has chosen nothing yet.                     *)
LEMMA RunStep ==
  ASSUME Inv, PlaceInv, KnownInv, NEW j \in Job, Acts(j), Frame(j), faults' = 0,
         job'[j].pc \in {"idle", "check"}
  PROVE  job'[j].run = {}
<1>1. faults = 0 /\ PlaceOK(j) /\ RanOK(j)
  BY DEF PlaceInv, KnownInv, Frame
<1>2. CASE StartBuild(j)
  <2>1. job[j].pc = "idle" /\ (job'[j].pc = "execute" \/ KeptChoice(j))
    BY <1>2, StartBuildEffect
  <2> QED
    BY <1>1, <2>1 DEF RanOK, KeptChoice
<1>3. CASE Choose(j)
  <2>1. job'[j] = Idle \/ job'[j].pc = "execute"
    BY <1>3, ChooseEffect
  <2> QED
    BY <2>1 DEF Idle
<1>4. CASE EndBuild(j)
  BY <1>4, EndBuildEffect DEF Idle
<1>5. ~CheckLaunches(j)
  BY CheckLaunchesEffect
<1>6. ~AskFailed(j)
  BY AskFailedEffect
<1>7. ~Execute(j)
  BY ExecuteEffect
<1>8. ~LogResult(j)
  BY LogResultEffect
<1>9. ~Import(j) /\ ~GetLaunchId(j) /\ ~AddAttributes(j)
  BY ImportEffect, GetLaunchIdEffect, AddAttributesEffect
<1>10. job'[j].pc \notin Rerunning \cup {"report"}
  BY DEF Rerunning
<1>11. job[j].pc \in Choosing => StartBuild(j) \/ Choose(j)
  <2>1. ~Kill(j)
    BY <1>1, Facts, Constants DEF Kill, Die
  <2> QED
    BY <1>5, <1>6, <1>7, <2>1 DEF Acts, Step, Choosing, LogResult, EndBuild, Import, GetLaunchId,
       AddAttributes, GetChild, DeleteChild, ReadBuildNums, AddBuildNum, StartLaunch, StartSuite,
       StartChild, FinishChild, FinishSuite, FinishLaunch, At
<1> QED
  BY <1>1, <1>2, <1>3, <1>4, <1>7, <1>8, <1>9, <1>10, <1>11, Phases

(* The item a job has just started is there to be finished.                *)
LEMMA ChildStep ==
  ASSUME Inv, PlaceInv, KnownInv, NEW j \in Job, Acts(j), Frame(j), faults' = 0, job'[j].pc = "child"
  PROVE  \E x \in item' : x.id \in job'[j].ids /\ x.launch = job'[j].l /\ x.case = job'[j].cur
<1>1. faults = 0 /\ PlaceOK(j)
  BY DEF PlaceInv, Frame
<1>2. CASE StartChild(j)
  <2>1. job[j].pc = "cases"
    BY <1>2 DEF StartChild, At
  <2>2. job[j].kept = {}
    BY <1>1, <2>1 DEF PlaceOK, Rerunning
  <2> DEFINE i == [id |-> items + 1, launch |-> job[j].l, case |-> job'[j].cur, status |-> "OPEN"]
  <2>3. job'[j].l = job[j].l /\ job'[j].ids = {items + 1} /\ item' = item \cup {i}
    BY <1>2, <2>2, StartChildEffect
  <2>4. i.id = items + 1 /\ i.launch = job[j].l /\ i.case = job'[j].cur
    OBVIOUS
  <2> HIDE DEF i
  <2> QED
    BY <2>3, <2>4
<1>3. ~StartBuild(j) /\ ~CheckLaunches(j) /\ ~AskFailed(j)
  BY StartBuildEffect, CheckLaunchesEffect, AskFailedEffect
<1>4. ~Choose(j) /\ ~EndBuild(j)
  BY ChooseEffect, EndBuildEffect DEF Idle
<1>5. ~Execute(j)
  BY ExecuteEffect
<1>6. ~LogResult(j)
  BY LogResultEffect
<1>7. ~Import(j) /\ ~GetLaunchId(j) /\ ~AddAttributes(j)
  BY ImportEffect, GetLaunchIdEffect, AddAttributesEffect
<1>8. ~GetChild(j)
  BY GetChildEffect
<1>9. ~DeleteChild(j)
  <2> SUFFICES ASSUME DeleteChild(j)
               PROVE  FALSE
    OBVIOUS
  <2>1. job[j].pc = "delete"
    BY DEF DeleteChild, At
  <2>2. \A n \in job[j].ids : \E x \in item : x.id = n
    BY <1>1, <2>1 DEF PlaceOK
  <2> QED
    BY <2>2, DeleteChildEffect
<1>10. ~ReadBuildNums(j) /\ ~AddBuildNum(j) /\ ~StartLaunch(j) /\ ~StartSuite(j)
  BY ReadBuildNumsEffect, AddBuildNumEffect, StartLaunchEffect, StartSuiteEffect
<1>11. ~FinishChild(j) /\ ~FinishSuite(j) /\ ~FinishLaunch(j)
  BY FinishChildEffect, FinishSuiteEffect, FinishLaunchEffect
<1>12. ~Kill(j)
  BY <1>1, Facts, Constants DEF Kill, Die
<1> QED
  BY <1>2, <1>3, <1>4, <1>5, <1>6, <1>7, <1>8, <1>9, <1>10, <1>11, <1>12 DEF Acts, Step

(* A step of a job keeps what it has run in order.                         *)
LEMMA OwnRan ==
  ASSUME Inv, ActiveInv, PlaceInv, KnownInv, NEW j \in Job, Acts(j), Frame(j), faults' = 0
  PROVE  RanOK(j)'
  BY NumsStep, RanStep, AskStep, RunStep, ChildStep DEF RanOK

(* What an acting client knows of a case of its own, in each phase.        *)
LEMMA ChoosingKnown ==
  ASSUME Inv, ActiveInv, PlaceInv, NEW j \in Job, Frame(j), faults' = 0,
         StartBuild(j) \/ CheckLaunches(j) \/ AskFailed(j) \/ Choose(j),
         NEW c \in CasesOf[j], Matched(j, c)' = Matched(j, c),
         NewOK(j, c), KnownOK(j, c), RanOK(j)
  PROVE  NewOK(j, c)' /\ KnownOK(j, c)'
<1>1. /\ faults = 0 /\ FileOK(j) /\ c \in Case /\ (\A x \in item : Placed(x))
      /\ \A k \in Job : PlaceOK(k)
  BY Constants DEF PlaceInv, Frame
<1>2. /\ job[j].pc \in Choosing /\ UNCHANGED <<item, launch, latest>>
      /\ job[j].pc = "idle" \/ job[j].pc = "check" \/ job[j].pc = "ask"
      /\ job'[j].pc = "check" \/ job'[j].pc = "ask" \/ job'[j].pc = "execute" \/ job'[j] = Idle
      /\ KeptReport(j) \/ job'[j] = Idle
  <2>1. CASE StartBuild(j)
    BY <2>1, StartBuildEffect DEF Choosing, server
  <2>2. CASE CheckLaunches(j)
    BY <2>2, CheckLaunchesEffect DEF Choosing, server
  <2>3. CASE AskFailed(j)
    BY <2>3, AskFailedEffect DEF Choosing, server
  <2>4. CASE Choose(j)
    BY <2>4, ChooseEffect DEF Choosing, server
  <2> QED
    BY <2>1, <2>2, <2>3, <2>4
<1>3. job[j].file[c] = None /\ job[j].teams = {}
  BY <1>1, <1>2 DEF FileOK
<1>4. job'[j].file[c] = None /\ job'[j].teams = {} /\ (Idle.pc = "idle")
  BY <1>1, <1>2, <1>3 DEF KeptReport, Idle
<1>5. None # "FAILED" /\ ~AtWork(j, c)'
  BY <1>2, <1>4 DEF None, AtWork, Reporting, Holding, Rerunning
<1>6. /\ \A l : FailedAt(l, c)' <=> FailedAt(l, c)
      /\ Known(j, c)' <=> Known(j, c)
  <2>1. \A l : FailedAt(l, c)' <=> FailedAt(l, c)
    BY <1>2 DEF FailedAt
  <2> QED
    BY <2>1 DEF Known
<1>7. latest[c] = "FAILED" => Known(j, c)
  BY <1>3 DEF KnownOK
<1>8. CASE StartBuild(j)
  <2>1. CASE job'[j].pc = "check"
    BY <1>2, <1>3, <1>4, <1>5, <1>6, <1>7, <2>1 DEF NewOK, KnownOK
  <2>2. CASE j \notin built /\ job'[j].pc = "execute" /\ job'[j].run = CasesOf[j]
    <3>1. Matched(j, c) = {}
      BY <2>2 DEF RanOK, Matched, LaunchesOf, GolangLaunches
    <3>2. Known(j, c)
      BY <3>1 DEF Known
    <3> QED
      BY <1>2, <1>4, <1>5, <1>6, <2>2, <3>1, <3>2 DEF NewOK, KnownOK
  <2> QED
    BY <1>8, <2>1, <2>2, StartBuildEffect
<1>9. CASE CheckLaunches(j)
  <2>1. CASE /\ GolangLaunches = {} /\ job'[j].pc = "execute" /\ job'[j].run = CasesOf[j]
    <3>1. Matched(j, c) = {}
      BY <2>1 DEF Matched, LaunchesOf
    <3>2. Known(j, c)
      BY <3>1 DEF Known
    <3> QED
      BY <1>2, <1>4, <1>5, <1>6, <2>1, <3>1, <3>2 DEF NewOK, KnownOK
  <2>2. CASE /\ job'[j].pc = "ask" /\ job'[j].run = job[j].run
             /\ job'[j].ask = {l \in GolangLaunches : j \in launch[l].nums}
             /\ job'[j].new = {d \in CasesOf[j] : TeamOf[d] \notin {launch[l].team : l \in job'[j].ask}}
    <3>1. job[j].run = {}
      BY <1>9, CheckLaunchesEffect DEF RanOK
    <3>2. Matched(j, c) = {l \in job'[j].ask : launch[l].team = TeamOf[c]}
      BY <2>2 DEF Matched, LaunchesOf
    <3>3. c \in job'[j].new <=> Matched(j, c) = {}
      BY <2>2, <3>2
    <3>4. latest[c] = "FAILED" => c \in job'[j].new \/ \E m \in job'[j].ask : FailedAt(m, c)
      BY <1>7, <3>2, <3>3 DEF Known
    <3> QED
      BY <1>2, <1>4, <1>5, <1>6, <1>7, <2>2, <3>1, <3>3, <3>4 DEF NewOK, KnownOK
  <2> QED
    BY <1>9, <2>1, <2>2, CheckLaunchesEffect
<1>10. CASE AskFailed(j)
  <2>1. /\ job[j].pc = "ask" /\ job'[j].pc = "ask" /\ job'[j].new = job[j].new
    BY <1>10, AskFailedEffect
  <2>2. PICK m \in job[j].ask : /\ job'[j].ask = job[j].ask \ {m}
                                /\ job'[j].run = job[j].run \cup FailedIn(m)
    BY <1>10, AskFailedEffect
  <2>3. c \in FailedIn(m) <=> FailedAt(m, c)
    BY DEF FailedIn, FailedAt
  <2>4. m \in GolangLaunches /\ j \in launch[m].nums
    BY <2>1 DEF RanOK
  <2>5. FailedAt(m, c) => m \in Matched(j, c)
    <3> SUFFICES ASSUME NEW x \in item, x.launch = m, x.case = c
                 PROVE  m \in Matched(j, c)
      BY DEF FailedAt
    <3>1. ~\E k \in Job : job[k].pc \in Importing /\ job[k].l = x.launch
      BY <1>1, <2>4 DEF PlaceOK, GolangLaunches
    <3>2. x.launch \in LaunchesOf(TeamOf[x.case])
      BY <1>1, <3>1 DEF Placed
    <3> QED
      BY <2>4, <3>2 DEF Matched
  <2>6. c \in job'[j].run => Known(j, c)
    BY <2>1, <2>2, <2>3, <2>5 DEF KnownOK, Known
  <2>7. latest[c] = "FAILED" => c \in job'[j].new \/ c \in job'[j].run
                                \/ \E n \in job'[j].ask : FailedAt(n, c)
    BY <2>1, <2>2, <2>3 DEF KnownOK
  <2>8. c \in job'[j].new <=> Matched(j, c) = {}
    BY <2>1 DEF NewOK
  <2> QED
    BY <1>2, <1>4, <1>5, <1>6, <1>7, <2>1, <2>6, <2>7, <2>8 DEF NewOK, KnownOK
<1>11. CASE Choose(j)
  <2>1. CASE job'[j] = Idle
    BY <1>2, <1>4, <1>5, <1>6, <1>7, <2>1 DEF NewOK, KnownOK
  <2>2. CASE job'[j].pc = "execute" /\ job'[j].run = job[j].run \cup job[j].new
    <3>1. job[j].pc = "ask"
      BY <1>11, ChooseEffect
    <3>2. c \in job[j].new <=> Matched(j, c) = {}
      BY <3>1 DEF NewOK
    <3>3. c \in job'[j].run => Known(j, c)
      BY <2>2, <3>1, <3>2 DEF KnownOK, Known
    <3> QED
      BY <1>2, <1>4, <1>5, <1>6, <1>7, <2>2, <3>2, <3>3 DEF NewOK, KnownOK
  <2> QED
    BY <1>11, <2>1, <2>2, ChooseEffect
<1> QED
  BY <1>8, <1>9, <1>10, <1>11

(* The test run loses no failure: it is in the file now.                   *)
LEMMA ExecuteKnown ==
  ASSUME Inv, PlaceInv, NEW j \in Job, Frame(j), faults' = 0, Execute(j),
         NEW c \in CasesOf[j], Matched(j, c)' = Matched(j, c), NewOK(j, c), KnownOK(j, c)
  PROVE  NewOK(j, c)' /\ KnownOK(j, c)'
<1>1. c \in Case /\ FileOK(j) /\ None \notin Outcome
  BY Constants DEF PlaceInv, Frame
<1>2. /\ job[j].pc = "execute" /\ job'[j].pc = "report" /\ item' = item
      /\ job'[j].teams = TeamsOf(job[j].run \cap CasesOf[j])
      /\ IF c \in job[j].run \cap CasesOf[j]
         THEN latest'[c] \in Outcome /\ job'[j].file[c] = latest'[c]
         ELSE latest'[c] = latest[c] /\ job'[j].file[c] = None
  BY <1>1, ExecuteEffect DEF server
<1>3. /\ \A l : FailedAt(l, c)' <=> FailedAt(l, c)
      /\ Known(j, c)' <=> Known(j, c)
  <2>1. \A l : FailedAt(l, c)' <=> FailedAt(l, c)
    BY <1>2 DEF FailedAt
  <2> QED
    BY <2>1 DEF Known
<1>4. job[j].file[c] = None
  BY <1>1, <1>2 DEF FileOK, Choosing
<1>5. ~AtWork(j, c)' /\ None # "FAILED"
  BY <1>2 DEF AtWork, Reporting, Holding, Rerunning, None
<1>6. c \in job[j].run => Known(j, c) /\ job'[j].file[c] # None
  BY <1>1, <1>2 DEF KnownOK
<1>7. Matched(j, c) = {} => c \in job[j].run
  BY <1>2 DEF NewOK
<1>8. c \notin job[j].run => (latest'[c] = "FAILED" => Known(j, c)) /\ job'[j].file[c] = None
  BY <1>2, <1>4 DEF KnownOK
<1>9. NewOK(j, c)'
  BY <1>2, <1>5, <1>6, <1>7 DEF NewOK
<1>10. KnownOK(j, c)'
  BY <1>2, <1>3, <1>5, <1>6, <1>8 DEF KnownOK
<1> QED
  BY <1>9, <1>10

(* Turning to the next team loses no failure.                              *)
LEMMA LogResultKnown ==
  ASSUME Inv, PlaceInv, NEW j \in Job, Frame(j), faults' = 0, LogResult(j),
         NEW c \in CasesOf[j], Matched(j, c)' = Matched(j, c), NewOK(j, c), KnownOK(j, c)
  PROVE  NewOK(j, c)' /\ KnownOK(j, c)'
<1>1. /\ job[j].pc = "report" /\ item' = item /\ latest' = latest /\ job'[j].file = job[j].file
      /\ job'[j].team \in job[j].teams /\ job'[j].teams = job[j].teams \ {job'[j].team}
      /\ \/ job'[j].pc = "import" /\ LaunchesOf(job'[j].team) = {}
         \/ job'[j].pc = "get" /\ job'[j].l \in LaunchesOf(job'[j].team)
  BY LogResultEffect DEF server
<1>2. /\ \A l : FailedAt(l, c)' <=> FailedAt(l, c)
      /\ Known(j, c)' <=> Known(j, c)
  <2>1. \A l : FailedAt(l, c)' <=> FailedAt(l, c)
    BY <1>1 DEF FailedAt
  <2> QED
    BY <2>1 DEF Known
<1>3. ~AtWork(j, c)
  BY <1>1 DEF AtWork, Reporting, Holding, Rerunning
<1>4. AtWork(j, c)' <=> job'[j].team = TeamOf[c]
  BY <1>1 DEF AtWork, Reporting, Holding, Rerunning
<1>5. NewOK(j, c)'
  BY <1>1, <1>4 DEF NewOK
<1>6. job'[j].pc = "import" /\ job'[j].team = TeamOf[c] => Matched(j, c) = {}
  BY <1>1 DEF Matched
<1>7. job'[j].team = TeamOf[c] /\ job[j].file[c] # None => Known(j, c)
  BY <1>1 DEF KnownOK
<1>8. /\ job[j].file[c] = None /\ latest[c] = "FAILED" => Known(j, c)
      /\ job[j].file[c] # None /\ TeamOf[c] \in job[j].teams => Known(j, c)
      /\ job[j].file[c] = "FAILED" => Known(j, c)
  BY <1>3 DEF KnownOK
<1>9. Known(j, c) => \/ Matched(j, c) = {} \/ job'[j].l \in Matched(j, c)
                     \/ \E m \in Matched(j, c) : m # job'[j].l /\ FailedAt(m, c)
  BY DEF Known
<1>10. ~Reported(j, c)'
  BY <1>1 DEF Reported, Importing
<1>11. KnownOK(j, c)'
  <2>1. CASE job'[j].pc = "import"
    BY <1>1, <1>2, <1>4, <1>6, <1>8, <1>10, <2>1 DEF KnownOK, Importing, Rerunning
  <2>2. CASE job'[j].pc = "get"
    BY <1>1, <1>2, <1>4, <1>7, <1>8, <1>9, <1>10, <2>2 DEF KnownOK, Importing, Rerunning
  <2> QED
    BY <1>1, <2>1, <2>2
<1> QED
  BY <1>5, <1>11

(* The end of a build loses no failure.                                    *)
LEMMA EndBuildKnown ==
  ASSUME Inv, PlaceInv, NEW j \in Job, Frame(j), faults' = 0, EndBuild(j),
         NEW c \in CasesOf[j], Matched(j, c)' = Matched(j, c), NewOK(j, c), KnownOK(j, c)
  PROVE  NewOK(j, c)' /\ KnownOK(j, c)'
<1>1. c \in Case /\ FileOK(j)
  BY Constants DEF PlaceInv, Frame
<1>2. /\ job[j].pc = "report" /\ item' = item /\ latest' = latest
      /\ job'[j].pc = "idle" /\ job'[j].teams = {} /\ job'[j].file[c] = None
  BY <1>1, EndBuildEffect DEF server, Idle
<1>3. Known(j, c)' <=> Known(j, c)
  <2>1. \A l : FailedAt(l, c)' <=> FailedAt(l, c)
    BY <1>2 DEF FailedAt
  <2> QED
    BY <2>1 DEF Known
<1>4. ~AtWork(j, c) /\ ~AtWork(j, c)' /\ None # "FAILED"
  BY <1>2 DEF AtWork, Reporting, Holding, Rerunning, None
<1>5. latest[c] = "FAILED" => Known(j, c)
  <2>1. job[j].file[c] # None => job[j].file[c] = latest[c]
    BY <1>1 DEF FileOK
  <2> QED
    BY <1>4, <2>1 DEF KnownOK
<1>6. NewOK(j, c)'
  BY <1>2, <1>4 DEF NewOK
<1>7. KnownOK(j, c)'
  BY <1>2, <1>3, <1>4, <1>5 DEF KnownOK
<1> QED
  BY <1>6, <1>7

(* An import loses no failure.                                             *)
LEMMA ImportKnown ==
  ASSUME Inv, PlaceInv, NEW j \in Job, Frame(j), faults' = 0, Import(j),
         NEW c \in CasesOf[j], Matched(j, c)' = Matched(j, c), NewOK(j, c), KnownOK(j, c)
  PROVE  NewOK(j, c)' /\ KnownOK(j, c)'
<1>1. c \in Case
  BY Constants
<1>2. /\ job[j].pc = "import" /\ job'[j].pc = "getid" /\ latest' = latest
      /\ job'[j].file = job[j].file /\ job'[j].teams = job[j].teams /\ job'[j].team = job[j].team
      /\ job'[j].l = Len(launch) + 1 /\ item \subseteq item'
      /\ \A d \in FileCases(j) : \E i \in item' \ item :
           /\ {x \in item' \ item : x.case = d} = {i}
           /\ i.launch = Len(launch) + 1 /\ i.status = job[j].file[d]
  BY ImportEffect DEF KeptReport
<1>3. Known(j, c) => Known(j, c)'
  <2>1. \A l : FailedAt(l, c) => FailedAt(l, c)'
    BY <1>2 DEF FailedAt
  <2> QED
    BY <2>1 DEF Known
<1>4. AtWork(j, c)' <=> AtWork(j, c)
  BY <1>2 DEF AtWork, Reporting, Holding
<1>5. AtWork(j, c) /\ job[j].file[c] = "FAILED" => FailedAt(job[j].l, c)'
  <2> SUFFICES ASSUME AtWork(j, c), job[j].file[c] = "FAILED"
               PROVE  FailedAt(job[j].l, c)'
    OBVIOUS
  <2>1. c \in FileCases(j)
    BY <1>1 DEF AtWork, FileCases, None
  <2>2. PICK i \in item' \ item : /\ {x \in item' \ item : x.case = c} = {i}
                                  /\ i.launch = Len(launch) + 1 /\ i.status = job[j].file[c]
    BY <1>2, <2>1
  <2>3. i.case = c
    BY <2>2
  <2> QED
    BY <1>2, <2>2, <2>3 DEF FailedAt
<1>6. NewOK(j, c)'
  BY <1>2, <1>4 DEF NewOK
<1>7. AtWork(j, c) => Matched(j, c) = {}
  BY <1>2 DEF KnownOK
<1>8. /\ job[j].file[c] = None /\ latest[c] = "FAILED" => Known(j, c)
      /\ job[j].file[c] # None /\ TeamOf[c] \in job[j].teams => Known(j, c)
      /\ job[j].file[c] = "FAILED" /\ ~AtWork(j, c) => Known(j, c)
  BY DEF KnownOK
<1>9. KnownOK(j, c)'
  BY <1>2, <1>3, <1>4, <1>5, <1>7, <1>8 DEF KnownOK, Importing, Rerunning
<1> QED
  BY <1>6, <1>9

(* Finding the launch's id loses no failure.                               *)
LEMMA GetLaunchIdKnown ==
  ASSUME Inv, PlaceInv, NEW j \in Job, Frame(j), faults' = 0, GetLaunchId(j),
         NEW c \in CasesOf[j], Matched(j, c)' = Matched(j, c), NewOK(j, c), KnownOK(j, c)
  PROVE  NewOK(j, c)' /\ KnownOK(j, c)'
<1>1. /\ job[j].pc = "getid" /\ job'[j].pc = "attrs" /\ latest' = latest /\ item' = item
      /\ job'[j].file = job[j].file /\ job'[j].teams = job[j].teams /\ job'[j].team = job[j].team
      /\ job'[j].l = job[j].l
  BY GetLaunchIdEffect DEF KeptReport, KeptWork, server
<1>2. /\ Known(j, c)' <=> Known(j, c)
      /\ FailedAt(job[j].l, c) => FailedAt(job[j].l, c)'
  <2>1. \A l : FailedAt(l, c)' <=> FailedAt(l, c)
    BY <1>1 DEF FailedAt
  <2> QED
    BY <1>1, <2>1 DEF Known, FailedAt
<1>3. AtWork(j, c)' <=> AtWork(j, c)
  BY <1>1 DEF AtWork, Reporting, Holding
<1>4. NewOK(j, c)'
  BY <1>1, <1>3 DEF NewOK
<1>5. AtWork(j, c) => Matched(j, c) = {}
  BY <1>1 DEF KnownOK, Importing
<1>6. /\ job[j].file[c] = None /\ latest[c] = "FAILED" => Known(j, c)
      /\ job[j].file[c] # None /\ TeamOf[c] \in job[j].teams => Known(j, c)
      /\ job[j].file[c] = "FAILED" /\ ~AtWork(j, c) => Known(j, c)
      /\ AtWork(j, c) /\ job[j].file[c] = "FAILED" => FailedAt(job[j].l, c)
  BY <1>1 DEF KnownOK, Reported, Importing
<1>7. KnownOK(j, c)'
  BY <1>1, <1>2, <1>3, <1>5, <1>6 DEF KnownOK, Importing, Rerunning
<1> QED
  BY <1>4, <1>7

(* Giving the launch its attributes makes the failures in it known to the  *)
(* job.                                                                    *)
LEMMA AddAttributesKnown ==
  ASSUME Inv, PlaceInv, NEW j \in Job, Frame(j), faults' = 0, AddAttributes(j),
         NEW c \in CasesOf[j], NewOK(j, c), KnownOK(j, c)
  PROVE  NewOK(j, c)' /\ KnownOK(j, c)'
<1>1. c \in Case /\ PlaceOK(j)
  BY Constants DEF PlaceInv, Frame
<1>2. PICK t \in Team : t = TeamOf[c]
  BY <1>1, Constants
<1>3. /\ job[j].pc = "attrs" /\ job'[j].pc = "report" /\ latest' = latest /\ item' = item
      /\ job'[j].file = job[j].file /\ job'[j].teams = job[j].teams
      /\ job[j].l \in Launch /\ Len(launch') = Len(launch)
      /\ \A m \in Launch : m # job[j].l => launch'[m] = launch[m]
      /\ launch'[job[j].l].golang /\ launch'[job[j].l].nums = {j}
      /\ launch'[job[j].l].team = job[j].team
  BY AddAttributesEffect DEF KeptReport
<1>4. \A l : FailedAt(l, c)' <=> FailedAt(l, c)
  BY <1>3 DEF FailedAt
<1>5. ~AtWork(j, c)'
  BY <1>3 DEF AtWork, Reporting, Holding, Rerunning
<1>6. CASE TeamOf[c] # job[j].team
  <2>1. ~AtWork(j, c)
    BY <1>6 DEF AtWork
  <2>2. job[j].l \notin LaunchesOf(t) /\ job[j].l \notin LaunchesOf(t)'
    BY <1>1, <1>2, <1>3, <1>6 DEF PlaceOK, Importing, LaunchesOf, GolangLaunches
  <2>3. LaunchesOf(t)' = LaunchesOf(t)
    BY <1>1, <2>2, LaunchesStay
  <2>4. \A l \in LaunchesOf(t) : launch'[l].nums = launch[l].nums
    BY <1>3, <2>2 DEF LaunchesOf, GolangLaunches
  <2>5. {l \in LaunchesOf(t)' : j \in launch'[l].nums} = {l \in LaunchesOf(t) : j \in launch[l].nums}
    BY <2>3, <2>4
  <2>6. Matched(j, c)' = Matched(j, c)
    BY <1>2, <2>5 DEF Matched
  <2>7. Known(j, c)' <=> Known(j, c)
    BY <1>4, <2>6 DEF Known
  <2> QED
    BY <1>3, <1>5, <2>1, <2>6, <2>7 DEF NewOK, KnownOK
<1>7. CASE TeamOf[c] = job[j].team
  <2>1. AtWork(j, c) /\ TeamOf[c] \notin job[j].teams
    BY <1>1, <1>3, <1>7 DEF AtWork, PlaceOK, Reporting, Holding
  <2>2. Matched(j, c) = {} /\ job[j].file[c] # None
    BY <1>3, <2>1 DEF KnownOK, NewOK, Importing
  <2>3. job[j].l \in LaunchesOf(t)'
    BY <1>2, <1>3, <1>7 DEF LaunchesOf, GolangLaunches, Launch
  <2>4. job[j].l \in Matched(j, c)'
    BY <1>2, <1>3, <2>3 DEF Matched
  <2>5. job[j].file[c] = "FAILED" => FailedAt(job[j].l, c)
    BY <1>3, <2>1 DEF KnownOK, Reported, Importing
  <2>6. job[j].file[c] = "FAILED" => Known(j, c)'
    BY <1>4, <2>4, <2>5 DEF Known
  <2> QED
    BY <1>3, <1>5, <2>1, <2>2, <2>6 DEF NewOK, KnownOK
<1> QED
  BY <1>6, <1>7

(* A step of a rerun that leaves the launch's attributes alone.            *)
LEMMA RerunKnown ==
  ASSUME NEW j \in Job, NEW c \in Case, PlaceOK(j), NewOK(j, c), KnownOK(j, c),
         Matched(j, c)' = Matched(j, c), latest' = latest, KeptReport(j), job'[j].l = job[j].l,
         job[j].pc \in Rerunning, job'[j].pc \in Rerunning,
         job'[j].pc \in {"get", "delete", "nums"} => job[j].pc \in {"get", "delete", "nums"},
         \A m : (m # job[j].l \/ c \notin FileCases(j)) /\ FailedAt(m, c) => FailedAt(m, c)',
         c \in FileCases(j) /\ Reported(j, c)' /\ job[j].file[c] = "FAILED" => FailedAt(job[j].l, c)'
  PROVE  NewOK(j, c)' /\ KnownOK(j, c)'
<1>1. job'[j].file = job[j].file /\ job'[j].teams = job[j].teams /\ job'[j].team = job[j].team
  BY DEF KeptReport
<1>2. AtWork(j, c)' <=> AtWork(j, c)
  BY <1>1 DEF AtWork, Reporting, Holding
<1>3. /\ job'[j].pc # "ask" /\ job'[j].pc # "execute" /\ job'[j].pc # "import"
      /\ job'[j].pc \notin Importing
  BY DEF Rerunning, Importing
<1>4. c \in FileCases(j) <=> job[j].file[c] # None /\ AtWork(j, c)
  BY DEF FileCases, AtWork, Reporting, Holding
<1>5. c \notin FileCases(j) /\ Known(j, c) => Known(j, c)'
  BY DEF Known
<1>6. AtWork(j, c) => TeamOf[c] \notin job[j].teams
  BY DEF PlaceOK, AtWork
<1>7. NewOK(j, c)'
  BY <1>1, <1>2, <1>3 DEF NewOK, Importing
<1>8. /\ job[j].file[c] = None /\ latest[c] = "FAILED" => Known(j, c)'
      /\ job[j].file[c] # None /\ TeamOf[c] \in job[j].teams => Known(j, c)'
      /\ job[j].file[c] = "FAILED" /\ ~AtWork(j, c) => Known(j, c)'
  BY <1>4, <1>5, <1>6 DEF KnownOK
<1>9. AtWork(j, c) /\ job[j].file[c] # None =>
        \/ Matched(j, c) = {} \/ job[j].l \in Matched(j, c)
        \/ \E m \in Matched(j, c) : m # job[j].l /\ FailedAt(m, c)'
  BY DEF KnownOK
<1>10. AtWork(j, c) /\ Reported(j, c)' /\ job[j].file[c] = "FAILED" => FailedAt(job[j].l, c)'
  BY <1>4 DEF None
<1>11. KnownOK(j, c)'
  BY <1>1, <1>2, <1>3, <1>8, <1>9, <1>10 DEF KnownOK
<1> QED
  BY <1>7, <1>11

(* Deleting old items loses no failure: it is still in the file.           *)
LEMMA DeletingKnown ==
  ASSUME Inv, PlaceInv, NEW j \in Job, Frame(j), faults' = 0,
         GetChild(j) \/ DeleteChild(j) \/ ReadBuildNums(j),
         NEW c \in CasesOf[j], Matched(j, c)' = Matched(j, c), NewOK(j, c), KnownOK(j, c)
  PROVE  NewOK(j, c)' /\ KnownOK(j, c)'
<1>1. c \in Case /\ PlaceOK(j)
  BY Constants DEF PlaceInv, Frame
<1>2. CASE GetChild(j) \/ ReadBuildNums(j)
  <2>1. /\ job[j].pc = "get" /\ item' = item /\ latest' = latest /\ KeptReport(j)
        /\ job'[j].l = job[j].l
        /\ \/ job'[j].pc = "get" \/ job'[j].pc = "delete" \/ job'[j].pc = "nums"
           \/ job'[j].pc = "launch"
    <3>1. CASE GetChild(j)
      BY <3>1, GetChildEffect DEF server
    <3>2. CASE ReadBuildNums(j)
      BY <3>2, ReadBuildNumsEffect DEF server, KeptWork
    <3> QED
      BY <1>2, <3>1, <3>2
  <2>2. \A m : FailedAt(m, c) => FailedAt(m, c)'
    BY <2>1 DEF FailedAt
  <2>3. ~Reported(j, c)'
    BY <2>1 DEF Reported, Importing
  <2>4. job[j].pc \in Rerunning /\ job'[j].pc \in Rerunning
    BY <2>1 DEF Rerunning
  <2> QED
    BY <1>1, <2>1, <2>2, <2>3, <2>4, RerunKnown
<1>3. CASE DeleteChild(j)
  <2>1. job[j].pc = "delete"
    BY <1>3 DEF DeleteChild, At
  <2>2. \A n \in job[j].ids : \E x \in item : x.id = n
    BY <1>1, <2>1 DEF PlaceOK
  <2>3. /\ latest' = latest /\ KeptReport(j) /\ job'[j].l = job[j].l
        /\ job'[j].pc = "get" \/ job'[j].pc = "delete"
    BY <1>3, <2>2, DeleteChildEffect
  <2>4. PICK n \in job[j].ids : item' = {x \in item : x.id # n}
    BY <1>3, <2>2, DeleteChildEffect
  <2>5. /\ job[j].cur \in FileCases(j)
        /\ \A x \in item : x.id \in job[j].ids => x.launch = job[j].l /\ x.case = job[j].cur
    BY <2>1, Facts DEF ClientOK, ReplaceOK
  <2>6. \A m : (m # job[j].l \/ c \notin FileCases(j)) /\ FailedAt(m, c) => FailedAt(m, c)'
    BY <2>4, <2>5 DEF FailedAt
  <2>7. ~Reported(j, c)'
    BY <2>3 DEF Reported, Importing
  <2>8. job[j].pc \in Rerunning /\ job'[j].pc \in Rerunning
    BY <2>1, <2>3 DEF Rerunning
  <2> QED
    BY <1>1, <2>1, <2>3, <2>6, <2>7, <2>8, RerunKnown
<1> QED
  BY <1>2, <1>3

(* Adding the job to a launch loses no failure.                            *)
LEMMA AddBuildNumKnown ==
  ASSUME Inv, PlaceInv, NEW j \in Job, Frame(j), faults' = 0, AddBuildNum(j),
         NEW c \in CasesOf[j], NewOK(j, c), KnownOK(j, c)
  PROVE  NewOK(j, c)' /\ KnownOK(j, c)'
<1>1. c \in Case /\ PlaceOK(j)
  BY Constants DEF PlaceInv, Frame
<1>2. PICK t \in Team : t = TeamOf[c]
  BY <1>1, Constants
<1>3. /\ job[j].pc = "nums" /\ job'[j].pc = "launch" /\ item' = item /\ latest' = latest
      /\ KeptReport(j) /\ job'[j].l = job[j].l /\ job[j].l \in Launch
      /\ \A m \in Launch : m # job[j].l => launch'[m] = launch[m]
      /\ \/ launch'[job[j].l].nums = launch[job[j].l].nums
         \/ launch'[job[j].l].nums = launch[job[j].l].nums \cup {j}
  BY AddBuildNumEffect DEF KeptWork
<1>4. \A m : FailedAt(m, c)' <=> FailedAt(m, c)
  BY <1>3 DEF FailedAt
<1>5. LaunchesOf(t)' = LaunchesOf(t)
  BY <1>1, <1>3, LaunchesStay
<1>6. job[j].l \in LaunchesOf(job[j].team) /\ job[j].pc \in Rerunning /\ job'[j].pc \in Rerunning
  BY <1>1, <1>3 DEF PlaceOK, Rerunning
<1>7. CASE launch'[job[j].l].nums = launch[job[j].l].nums \/ TeamOf[c] # job[j].team
  <2>1. \A l \in LaunchesOf(t) : launch'[l].nums = launch[l].nums
    <3>1. \A l \in LaunchesOf(t) : l \in Launch /\ launch[l].team = t
      BY DEF LaunchesOf, GolangLaunches
    <3>2. launch[job[j].l].team = job[j].team
      BY <1>6 DEF LaunchesOf
    <3> QED
      BY <1>2, <1>3, <1>7, <3>1, <3>2
  <2>2. {l \in LaunchesOf(t)' : j \in launch'[l].nums} = {l \in LaunchesOf(t) : j \in launch[l].nums}
    BY <1>5, <2>1
  <2>3. Matched(j, c)' = Matched(j, c)
    BY <1>2, <2>2 DEF Matched
  <2>4. ~Reported(j, c)'
    BY <1>3 DEF Reported, Importing
  <2> QED
    BY <1>1, <1>3, <1>4, <1>6, <2>3, <2>4, RerunKnown
<1>8. CASE launch'[job[j].l].nums = launch[job[j].l].nums \cup {j} /\ TeamOf[c] = job[j].team
  <2>1. AtWork(j, c) /\ AtWork(j, c)'
    BY <1>3, <1>8 DEF AtWork, Reporting, Holding, Rerunning, KeptReport
  <2>2. TeamOf[c] \notin job[j].teams
    BY <1>1, <2>1 DEF PlaceOK, AtWork
  <2>3. job[j].l \in Matched(j, c)'
    BY <1>2, <1>5, <1>6, <1>8 DEF Matched
  <2>4. \A l \in Matched(j, c) : l \in Matched(j, c)'
    <3>1. \A l \in LaunchesOf(t) : l \in Launch
      BY DEF LaunchesOf, GolangLaunches
    <3>2. \A l \in LaunchesOf(t) : j \in launch[l].nums => j \in launch'[l].nums
      BY <1>3, <3>1
    <3> QED
      BY <1>2, <1>5, <3>2 DEF Matched
  <2>5. job[j].file[c] = None /\ latest[c] = "FAILED" => Known(j, c)'
    <3>1. Matched(j, c) = {} => job[j].file[c] # None
      BY <1>3, <2>1 DEF NewOK
    <3> QED
      BY <1>4, <2>4, <3>1 DEF KnownOK, Known
  <2>6. job'[j].file = job[j].file /\ job'[j].teams = job[j].teams
    BY <1>3 DEF KeptReport
  <2>7. NewOK(j, c)'
    BY <1>3, <2>2, <2>6 DEF NewOK
  <2>8. ~Reported(j, c)'
    BY <1>3 DEF Reported, Importing
  <2> QED
    BY <1>3, <2>1, <2>2, <2>3, <2>5, <2>6, <2>7, <2>8 DEF KnownOK, Importing
<1> QED
  BY <1>3, <1>7, <1>8

(* Adding new items loses no failure.                                      *)
LEMMA AddingKnown ==
  ASSUME Inv, PlaceInv, NEW j \in Job, Frame(j), faults' = 0, RanOK(j),
         StartLaunch(j) \/ StartSuite(j) \/ StartChild(j) \/ FinishChild(j) \/ FinishSuite(j),
         NEW c \in CasesOf[j], Matched(j, c)' = Matched(j, c), NewOK(j, c), KnownOK(j, c)
  PROVE  NewOK(j, c)' /\ KnownOK(j, c)'
<1>1. c \in Case /\ PlaceOK(j)
  BY Constants DEF PlaceInv, Frame
<1>2. c \in FileCases(j) /\ job[j].pc \in Rerunning => AtWork(j, c)
  BY DEF FileCases, AtWork, Reporting, Holding
<1>3. CASE StartLaunch(j) \/ StartSuite(j)
  <2>1. /\ item' = item /\ latest' = latest /\ KeptReport(j) /\ job'[j].l = job[j].l
        /\ \/ job[j].pc = "launch" /\ job'[j].pc = "suite"
           \/ job[j].pc = "suite" /\ job'[j].pc = "cases" /\ job'[j].todo = FileCases(j)
    <3>1. CASE StartLaunch(j)
      BY <3>1, StartLaunchEffect DEF KeptWork
    <3>2. CASE StartSuite(j)
      BY <3>2, StartSuiteEffect DEF server
    <3> QED
      BY <1>3, <3>1, <3>2
  <2>2. \A m : FailedAt(m, c) => FailedAt(m, c)'
    BY <2>1 DEF FailedAt
  <2>3. ~(c \in FileCases(j) /\ Reported(j, c)')
    BY <2>1 DEF Reported, Importing
  <2>4. job[j].pc \in Rerunning /\ job'[j].pc \in Rerunning
    BY <2>1 DEF Rerunning
  <2>5. job'[j].pc \notin {"get", "delete", "nums"}
    BY <2>1
  <2> QED
    BY <1>1, <2>1, <2>2, <2>3, <2>4, <2>5, RerunKnown
<1>4. CASE StartChild(j)
  <2>1. job[j].pc = "cases"
    BY <1>4 DEF StartChild, At
  <2>2. job[j].kept = {}
    BY <1>1, <2>1 DEF PlaceOK, Rerunning
  <2>3. /\ job'[j].pc = "child" /\ latest' = latest /\ KeptReport(j) /\ job'[j].l = job[j].l
        /\ job'[j].cur \in job[j].todo /\ job'[j].todo = job[j].todo \ {job'[j].cur}
        /\ item \subseteq item'
    BY <1>4, <2>2, StartChildEffect
  <2>4. \A m : FailedAt(m, c) => FailedAt(m, c)'
    BY <2>3 DEF FailedAt
  <2>5. Reported(j, c)' => Reported(j, c)
    BY <2>1, <2>3 DEF Reported, Importing
  <2>6. job[j].pc \in Rerunning /\ job'[j].pc \in Rerunning
    BY <2>1, <2>3 DEF Rerunning
  <2>7. c \in FileCases(j) /\ Reported(j, c)' /\ job[j].file[c] = "FAILED" => FailedAt(job[j].l, c)'
    <3>1. c \in FileCases(j) /\ Reported(j, c) /\ job[j].file[c] = "FAILED" => FailedAt(job[j].l, c)
      BY <1>2, <2>6 DEF KnownOK
    <3> QED
      BY <2>3, <2>4, <2>5, <3>1 DEF FailedAt
  <2>8. job'[j].pc \notin {"get", "delete", "nums"}
    BY <2>3
  <2> QED
    BY <1>1, <2>3, <2>4, <2>6, <2>7, <2>8, RerunKnown
<1>5. CASE FinishChild(j)
  <2> DEFINE S == job[j].ids
             done(i) == [i EXCEPT !.status = job[j].file[i.case]]
  <2>1. /\ job[j].pc = "child" /\ job'[j].pc = "cases" /\ latest' = latest /\ KeptReport(j)
        /\ job'[j].l = job[j].l /\ job'[j].cur = job[j].cur /\ job'[j].todo = job[j].todo
        /\ item' = {IF i.id \in S THEN done(i) ELSE i : i \in item}
    BY <1>5, FinishChildEffect
  <2>2. \A i \in item : /\ done(i).case = i.case /\ done(i).launch = i.launch
                        /\ done(i).status = job[j].file[i.case]
    BY Facts DEF ItemRec
  <2>3. \A x \in item : x.id \in S => x.status = "OPEN" /\ x.case = job[j].cur
    BY <2>1, Facts DEF ReplaceOK
  <2> HIDE DEF S, done
  <2>4. \A y \in item : (IF y.id \in S THEN done(y) ELSE y) \in item'
    BY <2>1
  <2>5. \A m : FailedAt(m, c) => FailedAt(m, c)'
    BY <2>3, <2>4 DEF FailedAt
  <2>6. job[j].pc \in Rerunning /\ job'[j].pc \in Rerunning
    BY <2>1 DEF Rerunning
  <2>7. c \in FileCases(j) /\ Reported(j, c)' /\ job[j].file[c] = "FAILED" => FailedAt(job[j].l, c)'
    <3> SUFFICES ASSUME c \in FileCases(j), Reported(j, c)', job[j].file[c] = "FAILED"
                 PROVE  FailedAt(job[j].l, c)'
      OBVIOUS
    <3>1. c \notin job[j].todo
      BY <2>1 DEF Reported, Importing
    <3>2. CASE c # job[j].cur
      <4>1. Reported(j, c)
        BY <2>1, <3>1, <3>2 DEF Reported
      <4>2. FailedAt(job[j].l, c)
        BY <1>2, <2>6, <4>1 DEF KnownOK
      <4> QED
        BY <2>1, <2>5, <4>2 DEF FailedAt
    <3>3. CASE c = job[j].cur
      <4>1. PICK x \in item : x.id \in S /\ x.launch = job[j].l /\ x.case = job[j].cur
        BY <2>1 DEF RanOK, S
      <4>2. done(x) \in item' /\ done(x).case = c /\ done(x).launch = job[j].l
            /\ done(x).status = "FAILED"
        BY <2>2, <2>4, <3>3, <4>1
      <4> QED
        BY <2>1, <4>2 DEF FailedAt
    <3> QED
      BY <3>2, <3>3
  <2>8. job'[j].pc \notin {"get", "delete", "nums"}
    BY <2>1
  <2> QED
    BY <1>1, <2>1, <2>5, <2>6, <2>7, <2>8, RerunKnown
<1>6. CASE FinishSuite(j)
  <2>1. /\ job[j].pc = "cases" /\ job[j].todo = {} /\ job'[j].pc = "finish" /\ item' = item
        /\ latest' = latest /\ KeptReport(j) /\ job'[j].l = job[j].l
    BY <1>6, FinishSuiteEffect DEF server, KeptWork
  <2>2. \A m : FailedAt(m, c) => FailedAt(m, c)'
    BY <2>1 DEF FailedAt
  <2>3. job[j].pc \in Rerunning /\ job'[j].pc \in Rerunning
    BY <2>1 DEF Rerunning
  <2>4. c \in FileCases(j) /\ Reported(j, c)' /\ job[j].file[c] = "FAILED" => FailedAt(job[j].l, c)'
    <3>1. Reported(j, c)
      BY <2>1 DEF Reported
    <3>2. c \in FileCases(j) /\ job[j].file[c] = "FAILED" => FailedAt(job[j].l, c)
      BY <1>2, <2>3, <3>1 DEF KnownOK
    <3> QED
      BY <2>1, <2>2, <3>2 DEF FailedAt
  <2>5. job'[j].pc \notin {"get", "delete", "nums"}
    BY <2>1
  <2> QED
    BY <1>1, <2>1, <2>2, <2>3, <2>4, <2>5, RerunKnown
<1> QED
  BY <1>3, <1>4, <1>5, <1>6

(* A finished launch shows the failures that were in the file.             *)
LEMMA FinishLaunchKnown ==
  ASSUME Inv, PlaceInv, NEW j \in Job, Frame(j), faults' = 0, FinishLaunch(j),
         NEW c \in CasesOf[j], Matched(j, c)' = Matched(j, c), NewOK(j, c), KnownOK(j, c)
  PROVE  NewOK(j, c)' /\ KnownOK(j, c)'
<1>1. c \in Case /\ PlaceOK(j)
  BY Constants DEF PlaceInv, Frame
<1>2. /\ job[j].pc = "finish" /\ job'[j].pc = "report" /\ item' = item /\ latest' = latest
      /\ job'[j].file = job[j].file /\ job'[j].teams = job[j].teams
  BY FinishLaunchEffect DEF KeptReport
<1>3. Known(j, c)' <=> Known(j, c)
  <2>1. \A m : FailedAt(m, c)' <=> FailedAt(m, c)
    BY <1>2 DEF FailedAt
  <2> QED
    BY <2>1 DEF Known
<1>4. ~AtWork(j, c)' /\ "FAILED" # None
  BY <1>2 DEF AtWork, Reporting, Holding, Rerunning, None
<1>5. NewOK(j, c)'
  BY <1>2, <1>4 DEF NewOK
<1>6. job[j].file[c] = "FAILED" => Known(j, c)
  <2>1. CASE ~AtWork(j, c)
    BY <2>1 DEF KnownOK
  <2>2. CASE AtWork(j, c) /\ job[j].file[c] = "FAILED"
    <3>1. FailedAt(job[j].l, c)
      BY <1>2, <2>2 DEF KnownOK, Reported, Importing
    <3>2. \/ Matched(j, c) = {} \/ job[j].l \in Matched(j, c)
          \/ \E m \in Matched(j, c) : m # job[j].l /\ FailedAt(m, c)
      BY <1>2, <1>4, <2>2 DEF KnownOK, Rerunning
    <3> QED
      BY <3>1, <3>2 DEF Known
  <2> QED
    BY <2>1, <2>2
<1>7. KnownOK(j, c)'
  BY <1>2, <1>3, <1>4, <1>5, <1>6 DEF KnownOK
<1> QED
  BY <1>5, <1>7

(* A step of a job loses none of its own failures.                         *)
LEMMA OwnKnown ==
  ASSUME Inv, ActiveInv, PlaceInv, KnownInv, NEW j \in Job, Acts(j), Frame(j), faults' = 0,
         NEW c \in CasesOf[j]
  PROVE  NewOK(j, c)' /\ KnownOK(j, c)'
<1>1. /\ faults = 0 /\ PlaceOK(j) /\ RanOK(j) /\ NewOK(j, c) /\ KnownOK(j, c) /\ c \in Case
  BY Constants DEF PlaceInv, KnownInv, Frame
<1>2. ~AddAttributes(j) /\ ~AddBuildNum(j) => Matched(j, c)' = Matched(j, c)
  BY <1>1, MatchedSame
<1>3. CASE AddAttributes(j)
  BY <1>1, <1>3, AddAttributesKnown
<1>4. CASE AddBuildNum(j)
  BY <1>1, <1>4, AddBuildNumKnown
<1>5. CASE Matched(j, c)' = Matched(j, c)
  <2>1. CASE StartBuild(j) \/ CheckLaunches(j) \/ AskFailed(j) \/ Choose(j)
    BY <1>1, <1>5, <2>1, ChoosingKnown
  <2>2. CASE Execute(j)
    BY <1>1, <1>5, <2>2, ExecuteKnown
  <2>3. CASE LogResult(j)
    BY <1>1, <1>5, <2>3, LogResultKnown
  <2>4. CASE EndBuild(j)
    BY <1>1, <1>5, <2>4, EndBuildKnown
  <2>5. CASE Import(j)
    BY <1>1, <1>5, <2>5, ImportKnown
  <2>6. CASE GetLaunchId(j)
    BY <1>1, <1>5, <2>6, GetLaunchIdKnown
  <2>7. CASE GetChild(j) \/ DeleteChild(j) \/ ReadBuildNums(j)
    BY <1>1, <1>5, <2>7, DeletingKnown
  <2>8. CASE StartLaunch(j) \/ StartSuite(j) \/ StartChild(j) \/ FinishChild(j) \/ FinishSuite(j)
    BY <1>1, <1>5, <2>8, AddingKnown
  <2>9. CASE FinishLaunch(j)
    BY <1>1, <1>5, <2>9, FinishLaunchKnown
  <2>10. ~Kill(j)
    BY <1>1, Facts, Constants DEF Kill, Die
  <2> QED
    BY <1>3, <1>4, <2>1, <2>2, <2>3, <2>4, <2>5, <2>6, <2>7, <2>8, <2>9, <2>10 DEF Acts, Step
<1> QED
  BY <1>2, <1>3, <1>4, <1>5

(* Every step keeps the failures known.                                    *)
LEMMA KnownStep ==
  ASSUME Inv, ActiveInv, ApartInv, PlaceInv, KnownInv, NEW j \in Job, Acts(j)
  PROVE  KnownInv'
<1> SUFFICES ASSUME faults' = 0
             PROVE  KnownInv'
  BY DEF KnownInv
<1>1. faults = 0 /\ PlaceOK(j)
  BY FaultsGrow DEF PlaceInv
<1>2. Frame(j)
  BY <1>1, StepFrame
<1>3. \A k \in Job : Active(k)' => Active(k)
  BY ActiveStep
<1>4. \A k \in Job : RanOK(k)'
  BY <1>2, OthersRan, OwnRan
<1>5. \A k \in Job : \A c \in CasesOf[k] : Active(k) => NewOK(k, c)' /\ KnownOK(k, c)'
  BY <1>2, OthersKnown, OwnKnown
<1> QED
  BY <1>3, <1>4, <1>5 DEF KnownInv

-----------------------------------------------------------------------------
ForgetInv == Inv /\ ActiveInv /\ ApartInv /\ PlaceInv /\ KnownInv

(* The invariant of NothingForgotten holds at first.                       *)
LEMMA ForgetInit ==
  ASSUME JobsApart, Init
  PROVE  ForgetInv
<1>1. Inv /\ ActiveInv /\ ApartInv /\ PlaceInv
  BY ShowInit DEF ShowInv
<1>2. /\ launch = <<>> /\ built = {} /\ job = [j \in Job |-> Idle]
      /\ latest = [c \in Case |-> None]
  BY DEF Init
<1>3. /\ Idle.pc = "idle" /\ Idle.teams = {} /\ Idle.run = {}
      /\ Idle.file = [c \in Case |-> None]
  BY DEF Idle
<1>4. Launch = {}
  BY <1>2 DEF Launch
<1>5. \A j \in Job : RanOK(j)
  BY <1>2, <1>3, <1>4 DEF RanOK
<1>6. ASSUME NEW j \in Job, NEW c \in CasesOf[j]
      PROVE  NewOK(j, c) /\ KnownOK(j, c)
  <2>1. c \in Case
    BY <1>6, Constants
  <2>2. job[j].pc = "idle" /\ job[j].file[c] = None /\ job[j].teams = {} /\ latest[c] = None
    BY <1>2, <1>3, <2>1
  <2>3. ~AtWork(j, c) /\ None # "FAILED"
    BY <2>2 DEF AtWork, Reporting, Holding, Rerunning, None
  <2> QED
    BY <2>2, <2>3 DEF NewOK, KnownOK
<1>7. KnownInv
  BY <1>5, <1>6 DEF KnownInv
<1> QED
  BY <1>1, <1>7 DEF ForgetInv

(* Every step keeps the invariant of NothingForgotten.                     *)
LEMMA ForgetStep == ForgetInv /\ [Next]_vars => ForgetInv'
<1> SUFFICES ASSUME ForgetInv, [Next]_vars
             PROVE  ForgetInv'
  OBVIOUS
<1>1. Inv /\ ActiveInv /\ ApartInv /\ PlaceInv /\ KnownInv
  BY DEF ForgetInv
<1>2. CASE Next
  <2>1. PICK j \in Job : Acts(j)
    BY <1>2 DEF Next, Acts
  <2>2. Inv'
    BY <1>1, <2>1, NextStepOK, StepKeeps DEF Acts
  <2>3. ActiveInv' /\ ApartInv'
    BY <1>1, <2>1, ActiveStep, ApartStep
  <2> QED
    BY <1>1, <2>1, <2>2, <2>3, PlaceStep, KnownStep DEF ForgetInv
<1>3. CASE UNCHANGED vars
  <2>1. Inv'
    BY <1>1, <1>3, StutterInv
  <2>2. /\ launch' = launch /\ item' = item /\ job' = job /\ left' = left /\ built' = built
        /\ faults' = faults /\ latest' = latest
    BY <1>3 DEF vars
  <2>3. ActiveInv' /\ ApartInv'
    BY <1>1, <2>2 DEF ActiveInv, ApartInv, Active
  <2>4. PlaceInv'
    BY <1>1, <2>2 DEF PlaceInv, FileOK, PlaceOK, ImportsApart, Placed, LaunchesOf, GolangLaunches,
       Launch, FileCases
  <2>5. KnownInv'
    BY <1>1, <2>2 DEF KnownInv, RanOK, NewOK, KnownOK, Known, FailedAt, Matched, AtWork, Reported,
       Active, LaunchesOf, GolangLaunches, Launch
  <2> QED
    BY <2>1, <2>3, <2>4, <2>5 DEF ForgetInv
<1> QED
  BY <1>2, <1>3

(* The invariant of NothingForgotten says that NORERUN is answered rightly.*)
LEMMA ForgetImplies ==
  ASSUME ForgetInv
  PROVE  NoRerunSound
<1> SUFFICES ASSUME NEW j \in Job, NoRerun(j), faults = 0, NEW c \in CasesOf[j]
             PROVE  latest[c] \in Outcome \ {"FAILED"}
  BY DEF NoRerunSound
<1>1. /\ job[j].pc = "ask" /\ job[j].ask = {} /\ job[j].run = {} /\ job[j].new = {}
  BY DEF NoRerun, At
<1>2. j \in built /\ Active(j)
  BY <1>1 DEF ForgetInv, ActiveInv, Active
<1>3. RanOK(j) /\ KnownOK(j, c)
  BY <1>2 DEF ForgetInv, KnownInv
<1>4. latest[c] # None
  BY <1>1, <1>2, <1>3 DEF RanOK
<1>5. latest[c] # "FAILED"
  BY <1>1, <1>3 DEF KnownOK
<1>6. c \in Case /\ latest \in [Case -> Outcome \cup {None}]
  BY Constants, Facts DEF ForgetInv
<1> QED
  BY <1>4, <1>5, <1>6

(* A rebuild that finds nothing to rerun has nothing that failed, and      *)
(* nothing that never ran: whatever the jobs of the build do to the        *)
(* launches of a team at the same time, as long as no call fails.          *)
THEOREM NothingForgotten ==
  ASSUME JobsApart
  PROVE  Spec => []NoRerunSound
<1>1. Init => ForgetInv
  BY ForgetInit
<1>2. ForgetInv /\ [Next]_vars => ForgetInv'
  BY ForgetStep
<1>3. ForgetInv => NoRerunSound
  BY ForgetImplies
<1> QED
  BY <1>1, <1>2, <1>3, PTL DEF Spec
=============================================================================
