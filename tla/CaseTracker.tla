----------------------------- MODULE CaseTracker -----------------------------
(***************************************************************************)
(* The unstable-case tracker                                               *)
(* (src/pipeline/auto_result_tool/collect_case_result.py): read the        *)
(* results of every case over the launches of several queries, the first   *)
(* of prow, the others of Jenkins, write one row per case into a new sheet *)
(* of the day, and keep a Jira sub-task for each case that passes too      *)
(* rarely.                                                                 *)
(***************************************************************************)
EXTENDS SubTasks, SequencesExt

CONSTANTS
    LaunchesIn,   \* for each query its launches in order
    Portals,      \* what the portal may hold: launch -> items [case, status] in order
    KnownAuthor,  \* cases whose author has a Jira name
    Threshold,    \* the pass ratio in percent under which a case is unstable
    CPageSize

NQuery == Len(LaunchesIn)
CLaunch == UNION {Range(LaunchesIn[q]) : q \in 1..NQuery}
\* "SYSTEM" is a failed item whose log shows an error of the cluster.
Status == {"PASSED", "FAILED", "SYSTEM", "SKIPPED"}

ASSUME CaseAssumption ==
    /\ LaunchesIn \in Seq(Seq(CLaunch))
    /\ \A p \in Portals : p \in [CLaunch -> Seq([case : Subject, status : Status])]
    /\ KnownAuthor \subseteq Subject /\ Threshold \in 0..100 /\ CPageSize \in Nat \ {0}

VARIABLES
    items,    \* the portal, one of Portals
    cpc,      \* "idle", "list", "items", "sheet", "subtasks", "rows", "link"
    query, cpage,
    todo,     \* launches of the query still to be read
    cases,    \* cases met, in order
    got,      \* cases_result: the status of a case in a launch
    rows,     \* the rows of the sheet: [case, passed, failed, product]
    row,      \* the row at hand
    listed,   \* number of sub-tasks listed
    today,    \* today's sheet: "none", "named" in the trend sheet only, "made"
    whole,    \* history: this run passed over nothing
    done,     \* history: the run went through all rows
    must      \* the cases a run without faults gets to, constant

portal == <<items, must>>
cvars == <<portal, cpc, query, cpage, todo, cases, got, rows, row, listed, today, whole, done, jira>>
reading == <<query, cpage, todo, cases, got, whole>>
sheet == <<rows, row, listed>>

List == items[Head(todo)]

\* What a case ended with in a launch, and over a set of launches.
Final(c, l) == LET S == {i \in DOMAIN items[l] : items[l][i].case = c}
               IN IF S = {} THEN "none" ELSE items[l][Max(S)].status
Times(c, ls, s) == Cardinality({l \in ls : Final(c, l) \in s})

(***************************************************************************)
(* What a run without faults sees: the launches before one without items,  *)
(* and no other query of Jenkins after that one.                           *)
(***************************************************************************)
Reached(q) == {LaunchesIn[q][n] : n \in {m \in DOMAIN LaunchesIn[q] :
                                     \A k \in 1..m : items[LaunchesIn[q][k]] # <<>>}}
Seen == UNION {Reached(q) : q \in {p \in 1..NQuery : \A o \in 2..(p - 1) : Reached(o) = Range(LaunchesIn[o])}}
Unstable(c) == LET p == Times(c, Seen, {"PASSED"})
                   f == Times(c, Seen, {"FAILED", "SYSTEM"})
               IN 100 * p < Threshold * (p + f) /\ Times(c, Seen, {"FAILED"}) > 0

\* The rows come in the order the cases were met.
ItemsSeen == FlattenSeq([q \in 1..NQuery |->
                 FlattenSeq([n \in DOMAIN LaunchesIn[q] |->
                     IF LaunchesIn[q][n] \in Seen THEN items[LaunchesIn[q][n]] ELSE <<>>])])
Met(case) == Min({n \in DOMAIN ItemsSeen : ItemsSeen[n].case = case})
Reachable(case) == \A d \in Subject : Unstable(d) /\ Met(d) <= Met(case) => d \in KnownAuthor

CaseInit ==
    /\ items \in Portals /\ must = {c \in Subject : Unstable(c) /\ Reachable(c)} /\ TasksInit
    /\ cpc = "idle" /\ query = 1 /\ cpage = 1 /\ todo = <<>> /\ cases = <<>> /\ got = <<>>
    /\ rows = <<>> /\ row = 1 /\ listed = 0 /\ today = "none" /\ whole = TRUE /\ done = FALSE

CollectResult ==
    /\ cpc = "idle"
    /\ cpc' = "list" /\ query' = 1 /\ cpage' = 1 /\ todo' = <<>> /\ cases' = <<>> /\ got' = <<>>
    /\ rows' = <<>> /\ row' = 1 /\ listed' = 0 /\ whole' = TRUE /\ done' = FALSE
    /\ closed' = [closed EXCEPT !.now = 0]
    /\ UNCHANGED <<portal, today, tasks, faults>>

\* A query that fails is logged, and the next one is made.
ListLaunches ==
    /\ cpc = "list" /\ query <= NQuery
    /\ \E a \in ReadAnswer :
         /\ Count(a)
         /\ IF a = "ok" THEN todo' = LaunchesIn[query] /\ cpc' = "items" /\ UNCHANGED <<query, whole>>
            ELSE query' = query + 1 /\ whole' = FALSE /\ UNCHANGED <<todo, cpc>>
    /\ UNCHANGED <<portal, cpage, cases, got, sheet, today, done, jira>>

QueriesDone ==
    /\ cpc = "list" /\ query > NQuery
    /\ cpc' = "sheet"
    /\ UNCHANGED <<portal, reading, sheet, today, done, jira, faults>>

NextQuery ==
    /\ cpc = "items" /\ todo = <<>>
    /\ cpc' = "list" /\ query' = query + 1
    /\ UNCHANGED <<portal, cpage, todo, cases, got, whole, sheet, today, done, jira, faults>>

\* "return ''": one launch that counts executions but has no items (any more)
\* ends the reading of prow, or of all queries of Jenkins.
EmptyLaunch ==
    /\ cpc = "items" /\ todo # <<>> /\ List = <<>>
    /\ query' = IF query = 1 THEN 2 ELSE NQuery + 1
    /\ cpc' = "list" /\ todo' = <<>> /\ whole' = FALSE
    /\ UNCHANGED <<portal, cpage, cases, got, sheet, today, done, jira, faults>>

\* The case at place i of the list, recorded as the launch's only result.  A
\* log that cannot be read shows no error of the cluster.
Recorded(i, lost) == IF List[i].status = "SYSTEM" /\ i \in lost THEN "FAILED" ELSE List[i].status
LastOf(S, c) == Max({i \in S : List[i].case = c})
CasesAt(S) == {List[i].case : i \in S}
Keys(S) == CasesAt(S) \X {Head(todo)}
\* Mutant: the first result of a case in a launch stays.
RecordKeep(S, lost) == [k \in DOMAIN got \cup Keys(S) |->
    IF k \in DOMAIN got THEN got[k] ELSE Recorded(LastOf(S, k[1]), lost)]
Record(S, lost) == [k \in DOMAIN got \cup Keys(S) |->
    IF k \in Keys(S) THEN Recorded(LastOf(S, k[1]), lost) ELSE got[k]]
\* What a loop over a list keeps, the entries at the places in S, in order:
\* after each number of entries, and at the end.
EntriesUpTo(s, S) ==
    LET upTo[n \in 0..Len(s)] ==
          IF n = 0 THEN <<>> ELSE IF n \in S THEN Append(upTo[n - 1], s[n]) ELSE upTo[n - 1]
    IN upTo
Entries(s, S) == EntriesUpTo(s, S)[Len(s)]
CaseNames == [i \in DOMAIN List |-> List[i].case]
\* Mutant: a case met before is added again.
NewCasesAgain(S) == Entries(CaseNames, S)
NewCases(S) ==
    Entries(CaseNames, {i \in S : /\ List[i].case \notin Range(cases)
                                  /\ \A j \in S : List[j].case = List[i].case => i <= j})

ReadItems ==
    /\ cpc = "items" /\ todo # <<>> /\ List # <<>>
    /\ LET S == PageOf(cpage, Len(List), CPageSize)
       IN \E lost \in SUBSET {i \in S : List[i].status = "SYSTEM"} :
            /\ faults + Cardinality(lost) <= MaxFaults
            /\ faults' = faults + Cardinality(lost)
            /\ whole' = (whole /\ lost = {})
            /\ got' = Record(S, lost)
            /\ cases' = cases \o NewCases(S)
    /\ IF cpage < PagesOf(Len(List), CPageSize) THEN cpage' = cpage + 1 /\ UNCHANGED todo
       ELSE cpage' = 1 /\ todo' = Tail(todo)
    /\ UNCHANGED <<portal, cpc, query, sheet, today, done, jira>>

\* Any error while a launch is read is logged and ends that launch.
LaunchFails ==
    /\ cpc = "items" /\ todo # <<>> /\ Die
    /\ cpage' = 1 /\ todo' = Tail(todo) /\ whole' = FALSE
    /\ UNCHANGED <<portal, cpc, query, cases, got, sheet, today, done, jira>>

Results(c, s) == {k \in DOMAIN got : k[1] = c /\ got[k] \in s}
\* Mutant: an error of the cluster in one launch excuses all failures.
RowOfExcused(c) == [case |-> c, passed |-> Cardinality(Results(c, {"PASSED"})),
                    failed |-> Cardinality(Results(c, {"FAILED", "SYSTEM"})),
                    product |-> Results(c, {"SYSTEM"}) = {}]
RowOf(c) == [case |-> c, passed |-> Cardinality(Results(c, {"PASSED"})),
             failed |-> Cardinality(Results(c, {"FAILED", "SYSTEM"})),
             product |-> Results(c, {"FAILED"}) # {}]
AllRows == [n \in DOMAIN cases |-> RowOf(cases[n])]

\* The sheet is named after the day: a second one of that name is refused.  The
\* trend sheet is given the name before the new sheet is.
WriteSheet ==
    /\ cpc = "sheet"
    /\ \E a \in Answer :
         /\ Count(a)
         /\ IF a = "ok" /\ today # "made"
            THEN /\ rows' = Entries(AllRows, {n \in DOMAIN cases : AllRows[n].passed + AllRows[n].failed > 0})
                 /\ today' = "made" /\ cpc' = "subtasks"
            ELSE /\ today' \in IF today = "made" THEN {today}
                              ELSE {today, "named"} \cup IF a = "lost" THEN {"made"} ELSE {}
                 /\ cpc' = "idle" /\ UNCHANGED rows
    /\ UNCHANGED <<portal, reading, row, listed, done, jira>>

GetSubtaskList ==
    /\ cpc = "subtasks"
    /\ \E a \in ReadAnswer :
         /\ Count(a)
         /\ cpc' = IF a = "ok" THEN "rows" ELSE "idle"
    /\ listed' = Len(tasks)
    /\ UNCHANGED <<portal, reading, rows, row, today, done, jira>>

\* Rarely passed, and a failure is not marked as an issue of the cluster.
Low(r) == 100 * r.passed < Threshold * (r.passed + r.failed) /\ r.product

SkipRow ==
    /\ cpc = "rows" /\ row <= Len(rows) /\ ~Low(rows[row])
    /\ row' = row + 1
    /\ UNCHANGED <<portal, cpc, reading, rows, listed, today, done, jira, faults>>

\* An author without a Jira name, or any failing call, ends the run here.
CreateTask ==
    /\ cpc = "rows" /\ row <= Len(rows) /\ Low(rows[row])
    /\ IF rows[row].case \in KnownAuthor
       THEN \E a \in Answer :
              /\ Count(a)
              /\ CreateSubTask(rows[row].case, listed, a)
              /\ cpc' = IF a = "ok" THEN "link" ELSE "idle"
       ELSE cpc' = "idle" /\ UNCHANGED <<tasks, faults>>
    /\ UNCHANGED <<portal, reading, sheet, today, done, closed>>

\* Column J of the row.
LinkTask ==
    /\ cpc = "link"
    /\ \E a \in Answer :
         /\ Count(a)
         /\ cpc' = IF a = "ok" THEN "rows" ELSE "idle"
         /\ row' = row + 1
    /\ UNCHANGED <<portal, reading, rows, listed, today, done, jira>>

RowsDone ==
    /\ cpc = "rows" /\ row > Len(rows)
    /\ cpc' = "idle" /\ done' = TRUE
    /\ UNCHANGED <<portal, reading, sheet, today, jira, faults>>

CaseDies ==
    /\ cpc # "idle" /\ Die /\ cpc' = "idle"
    /\ UNCHANGED <<portal, reading, sheet, today, done, jira>>

NextDay == today # "none" /\ today' = "none" /\ UNCHANGED <<portal, cpc, reading, sheet, done, jira, faults>>

CaseCloses == /\ \E i \in DOMAIN tasks : CloseTask(i)
              /\ UNCHANGED <<portal, cpc, reading, sheet, today, done, faults>>

CaseStep == \/ CollectResult \/ ListLaunches \/ QueriesDone \/ NextQuery \/ EmptyLaunch \/ ReadItems
            \/ WriteSheet \/ GetSubtaskList \/ SkipRow \/ CreateTask \/ LinkTask \/ RowsDone
CaseNext == CaseStep \/ LaunchFails \/ CaseDies \/ NextDay \/ CaseCloses
-----------------------------------------------------------------------------
\* Types of the tracker's state.
CaseTypeOK ==
    /\ cpc \in {"idle", "list", "items", "sheet", "subtasks", "rows", "link"}
    /\ query \in 1..(NQuery + 1) /\ cpage \in Nat \ {0} /\ Range(todo) \subseteq CLaunch
    /\ IsInjective(cases) /\ DOMAIN got \subseteq Subject \X CLaunch
    /\ \A k \in DOMAIN got : got[k] \in Status
    /\ row \in 1..(Len(rows) + 1) /\ listed \in 0..Len(tasks)
    /\ today \in {"none", "named", "made"} /\ whole \in BOOLEAN /\ done \in BOOLEAN

\* A run that passed over nothing writes, for every case that passed or failed
\* anywhere, one row with the launches it passed in and those it failed in,
\* a case repeated in a launch counted once, by its last result.
RowsExact ==
    cpc \in {"subtasks", "rows", "link"} /\ whole =>
        \A c \in Subject :
            LET p == Times(c, CLaunch, {"PASSED"})
                f == Times(c, CLaunch, {"FAILED", "SYSTEM"})
                mine == {n \in DOMAIN rows : rows[n].case = c}
            IN IF p + f = 0 THEN mine = {}
               ELSE Cardinality(mine) = 1 /\ \A n \in mine : rows[n].passed = p /\ rows[n].failed = f

\* A run that went through all its rows leaves a sub-task naming every unstable
\* case with a failure of its own, reopened when it had been closed.
UnstableTracked ==
    done => \A n \in DOMAIN rows :
        /\ rows[n].product /\ 100 * rows[n].passed < Threshold * (rows[n].passed + rows[n].failed)
        => Tracked(rows[n].case)

\* Run day after day, the tracker gets a sub-task to every unstable case that
\* no unstable case of an author without a Jira name precedes: such a case
\* ends each run at its row, and the rows behind it are never reached.
UnstableEventuallyTracked ==
    <>(\A case \in must : Naming(case, Len(tasks)) # {})
=============================================================================
