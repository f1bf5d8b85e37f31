------------------------------ MODULE PassRate ------------------------------
(***************************************************************************)
(* Pass rates per subteam over time (src/pipeline/passrate.py).  "get"     *)
(* reads the launches of a time slot page by page, then the suites of each *)
(* launch page by page, adds up passed and failed tests per team, and      *)
(* merges the rates of the slot into a JSON file; "curve" draws for each   *)
(* team its rates over all slots of the file.                              *)
(***************************************************************************)
EXTENDS Calls

CONSTANTS Slot,        \* time slots, in order
          Suite,       \* suites of a slot: [launch, team, passed, failed]
          SuitesOf,    \* the suites the portal holds for each slot
          RTeam,       \* the subteams of the script
          RPageSize, MaxGets

Minus1 == 0 - 1

ASSUME PassRateAssumption ==
    /\ SuitesOf \in [Slot -> Seq(Suite)]
    /\ \A s \in Suite : s.launch \in Nat /\ s.passed \in Nat /\ s.failed \in Nat
    /\ RPageSize \in Nat \ {0} /\ MaxGets \in Nat

VARIABLES
    rpc,       \* "idle", "launches", "suites", "write", "truncated"
    slot,      \* the slot of the run
    rpage, rpages,
    launches,  \* launches still to be read
    read,      \* indices of the suites read so far
    whole,     \* history: no page of this run was passed over
    rpstat,    \* the JSON file as last written: rates per slot; <<>> without a file
    broken,    \* the file was emptied and nothing is written in it yet
    complete,  \* history: the slots whose last run passed over nothing
    gets       \* runs started

rvars == <<rpc, slot, rpage, rpages, launches, read, whole, rpstat, broken, complete, gets>>
pager == <<slot, rpage, rpages, launches, read, whole>>

Suites == SuitesOf[slot]
Launches == {Suites[i].launch : i \in DOMAIN Suites}
SuitesIn(l) == {i \in DOMAIN Suites : Suites[i].launch = l}
\* Mutant: the number of pages is not taken from the answer.
OnlyFirst(a, S) == rpages
\* The first page says how many there are.
RPages(a, S) == IF a = "ok" /\ rpage = 1 THEN PagesOf(Cardinality(S), RPageSize) ELSE rpages
RPage(S) == PageAt(S, rpage, RPageSize)

\* A loop over a list of numbers: the sum of those at the places in S.
SumUpTo(s, S) ==
    LET upTo[n \in 0..Len(s)] ==
          IF n = 0 THEN 0 ELSE IF n \in S THEN upTo[n - 1] + s[n] ELSE upTo[n - 1]
    IN upTo
Total(s, S) == SumUpTo(s, S)[Len(s)]

(***************************************************************************)
(* The rate of a team over the suites read, -1 for a team that ran nothing *)
(* so that the curves of all teams keep the same length.  The rate is      *)
(* int(passed/all * 100) in floating point: where the exact rate is whole  *)
(* the product may come out just below it (29/50*100 = 57.99...), which    *)
(* happens only for multiples of 50 tests.                                 *)
(***************************************************************************)
Passed(S, t) == Total([i \in DOMAIN Suites |-> Suites[i].passed], {i \in S : Suites[i].team = t})
Failed(S, t) == Total([i \in DOMAIN Suites |-> Suites[i].failed], {i \in S : Suites[i].team = t})
All(S, t) == Passed(S, t) + Failed(S, t)
Ran(S) == {t \in RTeam : All(S, t) > 0}
Inexact(S) == {t \in Ran(S) : /\ All(S, t) % 50 = 0 /\ Passed(S, t) > 0
                              /\ (100 * Passed(S, t)) % All(S, t) = 0}
\* Mutant: one is added to the divisor so that it is never zero.
RateGuarded(S, t) == (100 * Passed(S, t)) \div (1 + Failed(S, t))
Rate(S, t) == (100 * Passed(S, t)) \div All(S, t)
\* Mutant: a team that ran nothing gets no rate.
RatesOfRan(S, short) == [t \in Ran(S) |-> Rate(S, t)]
Rates(S, short) == [t \in RTeam |-> IF t \notin Ran(S) THEN Minus1
                                    ELSE Rate(S, t) - (IF t \in short THEN 1 ELSE 0)]

\* Mutant: the rates of other slots are dropped.
Only(rates) == [s \in {slot} |-> rates]
\* The file with the rates of this slot.
Merged(rates) == [s \in {slot} \cup DOMAIN rpstat |-> IF s = slot THEN rates ELSE rpstat[s]]

RateInit ==
    /\ rpc = "idle" /\ slot \in Slot /\ rpage = 1 /\ rpages = 0 /\ launches = {} /\ read = {}
    /\ whole = TRUE /\ rpstat = <<>> /\ broken = FALSE /\ complete = {} /\ gets = 0

GetTestData(s) ==
    /\ rpc = "idle" /\ gets < MaxGets
    /\ gets' = gets + 1 /\ slot' = s /\ rpc' = "launches"
    /\ rpage' = 1 /\ rpages' = 1 /\ launches' = {} /\ read' = {} /\ whole' = TRUE
    /\ UNCHANGED <<rpstat, broken, complete, faults>>

RateLaunches ==
    /\ rpc = "launches" /\ rpage <= rpages
    /\ \E a \in ReadAnswer :
         /\ Count(a)
         /\ whole' = (whole /\ a = "ok")
         /\ launches' = IF a = "ok" THEN launches \cup RPage(Launches) ELSE launches
         /\ rpages' = RPages(a, Launches)
    /\ rpage' = rpage + 1
    /\ UNCHANGED <<rpc, slot, read, rpstat, broken, complete, gets>>

\* No launch: the run ends without touching the file.
RateAdvance ==
    /\ rpc \in {"launches", "suites"} /\ rpage > rpages
    /\ launches' = IF rpc = "suites" THEN launches \ {Min(launches)} ELSE launches
    /\ rpc' = IF launches' # {} THEN "suites" ELSE IF rpc = "launches" THEN "idle" ELSE "write"
    /\ rpage' = 1 /\ rpages' = 1
    /\ UNCHANGED <<slot, read, whole, rpstat, broken, complete, gets, faults>>

RateSuites ==
    /\ rpc = "suites" /\ rpage <= rpages
    /\ \E a \in ReadAnswer :
         LET own == SuitesIn(Min(launches))
         IN /\ Count(a)
            /\ whole' = (whole /\ a = "ok")
            /\ read' = IF a = "ok" THEN read \cup RPage(own) ELSE read
            /\ rpages' = RPages(a, own)
    /\ rpage' = rpage + 1
    /\ UNCHANGED <<rpc, slot, launches, rpstat, broken, complete, gets>>

\* The file is read, merged in memory, opened for writing, which empties it,
\* and written.  A file left empty is no JSON and ends every later run.
Truncate ==
    /\ rpc = "write"
    /\ rpc' = IF broken THEN "idle" ELSE "truncated"
    /\ broken' = TRUE
    /\ UNCHANGED <<pager, rpstat, complete, gets, faults>>

Dump ==
    /\ rpc = "truncated"
    /\ \E short \in SUBSET Inexact(read) : rpstat' = Merged(Rates(read, short))
    /\ broken' = FALSE /\ rpc' = "idle"
    /\ complete' = IF whole THEN complete \cup {slot} ELSE complete \ {slot}
    /\ UNCHANGED <<pager, gets, faults>>

\* The script is interrupted.
RateDies ==
    /\ rpc # "idle" /\ Die
    /\ rpc' = "idle"
    /\ UNCHANGED <<pager, rpstat, broken, complete, gets>>

RateNext == \/ \E s \in Slot : GetTestData(s)
            \/ RateLaunches \/ RateAdvance \/ RateSuites \/ Truncate \/ Dump \/ RateDies

\* DrawCurvePerProfile appends each team's rate slot by slot.
Curve(t) == Cardinality({s \in DOMAIN rpstat : t \in DOMAIN rpstat[s]})
-----------------------------------------------------------------------------
RateTypeOK ==
    /\ rpc \in {"idle", "launches", "suites", "write", "truncated"} /\ slot \in Slot
    /\ read \subseteq DOMAIN Suites /\ gets \in 0..MaxGets /\ complete \subseteq Slot
    /\ \A s \in DOMAIN rpstat : s \in Slot /\ \A t \in DOMAIN rpstat[s] : rpstat[s][t] \in Minus1..100

\* Whatever teams ran in whatever slots, every curve has a value for every slot:
\* "check if there is no subteam not run which impact the curve" (passrate.py:275).
CurvesAligned == \A t \in RTeam : Curve(t) = Cardinality(DOMAIN rpstat)

\* A slot whose last run passed over no page holds the rates of all its suites
\* over all launches, each counted once however the pages divide them, cut to
\* a whole number and never above the exact rate.
RatesExact ==
    \A s \in complete :
        /\ s \in DOMAIN rpstat
        /\ \A t \in RTeam :
             LET mine == {i \in DOMAIN SuitesOf[s] : SuitesOf[s][i].team = t}
                 p == Total([i \in DOMAIN SuitesOf[s] |-> SuitesOf[s][i].passed], mine)
                 f == Total([i \in DOMAIN SuitesOf[s] |-> SuitesOf[s][i].failed], mine)
             IN /\ t \in DOMAIN rpstat[s]
                /\ p + f = 0 <=> rpstat[s][t] = Minus1
                /\ p + f > 0 => /\ rpstat[s][t] * (p + f) <= 100 * p
                                /\ (rpstat[s][t] + 1) * (p + f) >= 100 * p

\* A run that writes the file replaces the rates of its own slot and keeps
\* those of every other.  (One that dies after emptying the file has lost them:
\* then "broken" stays set and no run writes again.)
OtherSlotsKept == [][\A s \in DOMAIN rpstat : s # slot => s \in DOMAIN rpstat' /\ rpstat'[s] = rpstat[s]]_rvars

\* The file holds exact rates of whole runs, slots do not disturb each other,
\* and every curve has a point for each of them.
RatesSound == [](RatesExact /\ CurvesAligned) /\ OtherSlotsKept
=============================================================================
