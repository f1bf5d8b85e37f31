------------------------------ MODULE ImpactBugs ------------------------------
(***************************************************************************)
(* The sheet of the bugs that impact service delivery                      *)
(* (src/pipeline/auto_result_tool/collect_ServiceDeliveryImpact_bugs.py):  *)
(* one row per labelled Jira bug, brought up to date by every run.  The    *)
(* columns that follow a bug (components, contact, status, version) are    *)
(* one value here.                                                         *)
(***************************************************************************)
EXTENDS Calls, FiniteSetsExt

CONSTANTS NBug, MaxBugChanges

ASSUME BugAssumption == NBug \in Nat /\ MaxBugChanges \in Nat

Bug == 1..NBug

VARIABLES
    bug,      \* Jira: the value of each bug, 0 while it has no label
    brows,    \* the rows of the sheet: [bug, value, title]
    bpc,      \* "idle", "sheet", "update", "insert", "title"
    issues,   \* what the run found in Jira and has not met in the sheet yet
    values,   \* the rows as the run read them
    bnum,     \* the row at hand
    badLink,  \* bugs whose row names a tracking issue that Jira does not have
    bchanges

bvars == <<bug, brows, bpc, issues, values, bnum, badLink, bchanges>>

BugsInit ==
    /\ bug = [b \in Bug |-> 0] /\ brows = <<>> /\ bpc = "idle" /\ issues = <<>> /\ values = <<>>
    /\ bnum = 1 /\ badLink = {} /\ bchanges = 0

GetIssues ==
    /\ bpc = "idle"
    /\ \E a \in ReadAnswer :
         /\ Count(a)
         /\ IF a = "ok" THEN /\ issues' = [b \in {c \in Bug : bug[c] > 0} |-> bug[b]]
                             /\ bpc' = "sheet"
            ELSE UNCHANGED <<issues, bpc>>
    /\ UNCHANGED <<bug, brows, values, bnum, badLink, bchanges>>

ReadSheet ==
    /\ bpc = "sheet"
    /\ \E a \in ReadAnswer :
         /\ Count(a)
         /\ bpc' = IF a = "ok" THEN "update" ELSE "idle"
    /\ values' = brows /\ bnum' = 1
    /\ UNCHANGED <<bug, brows, issues, badLink, bchanges>>

Without(b) == [c \in DOMAIN issues \ {b} |-> issues[c]]

\* Mutant: every bug stays to be inserted.
KeepAll(b) == issues
\* A bug whose row was met leaves the issues; those left at the end are new.
Pop(b) == Without(b)
\* Mutant: the value goes to the first row.
PutTop(n, v) == [brows EXCEPT ![1].value = v]
Put(n, v) == [brows EXCEPT ![n].value = v]

\* A row whose label was deleted stays as it is.  One that names a tracking
\* issue Jira does not have ends the run after its columns.
UpdateRow ==
    /\ bpc = "update" /\ bnum <= Len(values)
    /\ \E a \in Answer :
         LET b == values[bnum].bug
             labelled == b \in DOMAIN issues
             stale == labelled /\ issues[b] # values[bnum].value
         IN /\ ~stale => a = "ok"
            /\ Count(a)
            /\ brows' = IF stale /\ a # "error" THEN Put(bnum, issues[b]) ELSE brows
            /\ bpc' = IF a = "ok" /\ ~(labelled /\ b \in badLink) THEN "update" ELSE "idle"
            /\ issues' = Pop(b)
    /\ bnum' = bnum + 1
    /\ UNCHANGED <<bug, values, badLink, bchanges>>

RowsUpdated ==
    /\ bpc = "update" /\ bnum > Len(values)
    /\ bpc' = IF issues = <<>> THEN "idle" ELSE "insert"
    /\ UNCHANGED <<bug, brows, issues, values, bnum, badLink, bchanges, faults>>

\* The new row goes on top, without its title and link.
InsertBug ==
    /\ bpc = "insert"
    /\ \E a \in Answer, b \in DOMAIN issues :
         /\ Count(a)
         /\ brows' = IF a = "error" THEN brows
                     ELSE <<[bug |-> b, value |-> issues[b], title |-> 0]>> \o brows
         /\ issues' = Without(b)
         /\ bpc' = IF a = "ok" THEN "title" ELSE "idle"
    /\ UNCHANGED <<bug, values, bnum, badLink, bchanges>>

\* Mutant: the title goes to the last row.
TitleCellLast == Len(brows)
TitleCell == 1

TitleBug ==
    /\ bpc = "title"
    /\ \E a \in Answer :
         /\ Count(a)
         /\ brows' = IF a = "error" THEN brows ELSE [brows EXCEPT ![TitleCell].title = brows[1].bug]
         /\ bpc' = IF a # "ok" \/ issues = <<>> THEN "idle" ELSE "insert"
    /\ UNCHANGED <<bug, issues, values, bnum, badLink, bchanges>>

BugsDie == bpc # "idle" /\ Die /\ bpc' = "idle" /\ UNCHANGED <<bug, brows, issues, values, bnum, badLink, bchanges>>

\* A bug is labelled, changed, or loses its label, or the tracking issue in
\* its row is mistyped or corrected.
BugChanges(b) ==
    /\ bchanges < MaxBugChanges /\ bchanges' = bchanges + 1
    /\ \/ bug' \in {[bug EXCEPT ![b] = v] : v \in {0, bchanges'}} /\ UNCHANGED badLink
       \/ /\ \E n \in DOMAIN brows : brows[n].bug = b
          /\ badLink' = SymDiff(badLink, {b}) /\ UNCHANGED bug
    /\ UNCHANGED <<brows, bpc, issues, values, bnum, faults>>

BugsStep == GetIssues \/ ReadSheet \/ UpdateRow \/ RowsUpdated \/ InsertBug \/ TitleBug
BugsNext == BugsStep \/ BugsDie \/ \E b \in Bug : BugChanges(b)
-----------------------------------------------------------------------------
\* Types of the script's state.
BugsTypeOK ==
    /\ bug \in [Bug -> 0..MaxBugChanges] /\ bpc \in {"idle", "sheet", "update", "insert", "title"}
    /\ \A n \in DOMAIN brows :
         brows[n].bug \in Bug /\ brows[n].value \in 1..MaxBugChanges /\ brows[n].title \in {0, brows[n].bug}
    /\ DOMAIN issues \subseteq Bug /\ bnum \in 1..(Len(values) + 1)

\* Whatever fails, a bug never gets a second row: the next run finds a row
\* whose insertion was not acknowledged.
OneRowPerBug == \A m, n \in DOMAIN brows : brows[m].bug = brows[n].bug => m = n

\* Run again and again, the sheet ends with a row with the current value for
\* every labelled bug, once no row names a tracking issue that does not exist:
\* such a row ends each run there.
SheetConverges ==
    <>[](badLink # {} \/ \A b \in Bug : bug[b] > 0 => \E n \in DOMAIN brows : brows[n].bug = b /\ brows[n].value = bug[b])
=============================================================================
