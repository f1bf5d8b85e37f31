------------------------------ MODULE BuildSheet ------------------------------
(***************************************************************************)
(* Failures of Jenkins builds in a sheet                                   *)
(* (src/pipeline/auto_result_tool/collect_result_to_googlesheet.py): the   *)
(* script takes build after build, inserts a row at the top of the sheet   *)
(* for each failed case of its teams and links it to the build, then       *)
(* saves the number of the build in its own configuration file.            *)
(***************************************************************************)
EXTENDS Calls

CONSTANTS BuildCases,  \* for each build the failed cases of the teams, in order
          Unnamed      \* the builds whose console has no LAUNCH_NAME

Build == DOMAIN BuildCases
BuildCase == UNION {{BuildCases[b][n] : n \in DOMAIN BuildCases[b]} : b \in Build}
Erased == 0 - 1

ASSUME BuildAssumption == BuildCases \in Seq(Seq(BuildCase)) /\ Unnamed \subseteq Build

VARIABLES
    endNum,    \* end_num of the configuration file, Erased when the file is empty
    gpc,       \* "stopped", "build", "insert", "link", "save", "erased"
    build,     \* the build at hand
    gtodo,     \* its cases still to be written
    gsheet,    \* the rows, the newest first: [build, case, link]
    dated,     \* strDate has been set in this process
    finished,  \* builds Jenkins has finished
    excuse     \* history: why rows of a build may be missing: it was still
               \* "running" when it was read, or a call "failed"

gvars == <<endNum, gpc, build, gtodo, gsheet, dated, finished, excuse>>

SheetInit ==
    /\ endNum = 0 /\ gpc = "stopped" /\ build = 0 /\ gtodo = <<>> /\ gsheet = <<>>
    /\ dated = FALSE /\ finished = 0 /\ excuse = [b \in Build |-> "none"]

\* An empty file has no end_num: the script ends at once.
StartScript ==
    /\ gpc = "stopped" /\ endNum # Erased
    /\ gpc' = "build" /\ dated' = FALSE
    /\ UNCHANGED <<endNum, build, gtodo, gsheet, excuse, faults, finished>>

\* The page of the build and its console: when there is none the script ends.
\* Without a LAUNCH_NAME in the console nothing is written of the build.
ReadBuild ==
    /\ gpc = "build" /\ endNum < finished
    /\ build' = endNum + 1 /\ excuse' = [excuse EXCEPT ![build'] = "none"]
    /\ gtodo' = IF build' \in Unnamed THEN <<>> ELSE BuildCases[build']
    /\ \E a \in ReadAnswer :
         /\ Count(a)
         /\ gpc' = IF a = "ok" THEN "insert" ELSE "stopped"
    /\ UNCHANGED <<endNum, gsheet, dated, finished>>

NoBuild ==
    /\ gpc = "build" /\ endNum >= finished
    /\ gpc' = "stopped"
    /\ UNCHANGED <<endNum, build, gtodo, gsheet, dated, excuse, finished, faults>>

\* A build that still runs has a page without a result file: it is passed over
\* for good.
PassOverRunning ==
    /\ gpc = "build" /\ endNum >= finished /\ endNum < Len(BuildCases)
    /\ build' = endNum + 1 /\ gtodo' = <<>> /\ gpc' = "insert"
    /\ excuse' = [excuse EXCEPT ![build'] = "running"]
    /\ UNCHANGED <<endNum, gsheet, dated, finished, faults>>

Blame(a) == excuse' = IF a = "ok" THEN excuse ELSE [excuse EXCEPT ![build] = "failed"]

\* The results cannot be read: "failed" is printed and the build counts as done.
ResultsFail ==
    /\ gpc = "insert" /\ build \notin Unnamed /\ gtodo = BuildCases[build] /\ excuse[build] = "none" /\ Die
    /\ gtodo' = <<>> /\ Blame("error")
    /\ UNCHANGED <<endNum, gpc, build, gsheet, dated, finished>>

\* Mutant: the sheet never counts as dated.
StillDated == dated
Dated == TRUE
\* Mutant: the first build without a result ends the run.
RestBreak == <<>>
Rest == Tail(gtodo)

\* A case whose row cannot be written is passed over.
InsertRow ==
    /\ gpc = "insert" /\ gtodo # <<>>
    /\ dated' = Dated
    /\ \E a \in Answer :
         /\ Count(a) /\ Blame(a)
         /\ gsheet' = IF a = "error" THEN gsheet
                      ELSE <<[build |-> build, case |-> Head(gtodo), link |-> 0]>> \o gsheet
         /\ gpc' = IF a = "ok" THEN "link" ELSE "insert"
    /\ gtodo' = Rest
    /\ UNCHANGED <<endNum, build, finished>>

\* Mutant: the last line, as if rows were appended.
LinkCellLast == Len(gsheet)
\* The cell of the second line, below the titles.
LinkCell == 1

LinkRow ==
    /\ gpc = "link"
    /\ \E a \in Answer :
         /\ Count(a) /\ Blame(a)
         /\ gsheet' = IF a = "error" THEN gsheet ELSE [gsheet EXCEPT ![LinkCell].link = build]
    /\ gpc' = "insert"
    /\ UNCHANGED <<endNum, build, gtodo, dated, finished>>

\* The file is opened for writing, which empties it.
OpenConfig ==
    /\ gpc = "insert" /\ gtodo = <<>>
    /\ gpc' = "save" /\ endNum' = Erased
    /\ UNCHANGED <<build, gtodo, gsheet, dated, excuse, faults, finished>>

\* Mutant: the build after the one at hand is saved.
SavedNext == build + 1
Saved == build

\* Before the number is written strDate is printed: it exists only if this
\* process has met a failed case, in this build or an earlier one.
SaveConfig ==
    /\ gpc = "save"
    /\ IF dated THEN endNum' = Saved /\ gpc' = "build" ELSE gpc' = "stopped" /\ UNCHANGED endNum
    /\ UNCHANGED <<build, gtodo, gsheet, dated, excuse, faults, finished>>

ScriptDies == /\ gpc # "stopped" /\ Die /\ gpc' = "stopped"
              /\ UNCHANGED <<endNum, build, gtodo, gsheet, dated, excuse, finished>>

BuildFinishes == /\ finished < Len(BuildCases) /\ finished' = finished + 1
                 /\ UNCHANGED <<endNum, gpc, build, gtodo, gsheet, dated, excuse, faults>>

SheetStep == \/ StartScript \/ ReadBuild \/ NoBuild \/ PassOverRunning
             \/ InsertRow \/ LinkRow \/ OpenConfig \/ SaveConfig
SheetNext == SheetStep \/ ResultsFail \/ ScriptDies \/ BuildFinishes
-----------------------------------------------------------------------------
\* Types of the script's state.
SheetTypeOK ==
    /\ endNum \in {Erased, 0} \cup Build /\ gpc \in {"stopped", "build", "insert", "link", "save"}
    /\ \A n \in DOMAIN gsheet : gsheet[n].build \in Build /\ gsheet[n].link \in {0} \cup Build
    /\ \A b \in Build : excuse[b] \in {"none", "running", "failed"}

\* A row never leads to another build than the one its case failed in.
LinkedToOwnBuild == \A n \in DOMAIN gsheet : gsheet[n].link \in {0, gsheet[n].build}

\* The builds the script will not read again.
SavedBuild == {b \in Build : b < build \/ b <= endNum}

\* A saved build has all its cases in the sheet, linked, unless it was still
\* running when it was read (the script takes it for one without results and
\* does not come back), its console has no LAUNCH_NAME, or a call failed while
\* it was at hand; rows of a build cut short and done again only come on top.
SavedBuildWritten ==
    \A b \in SavedBuild \ Unnamed : excuse[b] = "none" =>
        \A k \in DOMAIN BuildCases[b] :
            \E n \in DOMAIN gsheet : gsheet[n] = [build |-> b, case |-> BuildCases[b][k], link |-> b]

\* The script prints a date that is set with the first failed case it meets
\* (collect_result_to_googlesheet.py:263), after emptying the file: without one
\* the number is lost, and no later process can start.  Without a fault that
\* happens only over a build of which nothing was to be written: one without
\* failed cases, or one, whatever failed in it, that was still running or has no
\* LAUNCH_NAME.
LostOnlyOverNothing ==
    gpc = "stopped" /\ endNum = Erased /\ faults = 0 =>
        BuildCases[build] = <<>> \/ excuse[build] = "running" \/ build \in Unnamed

\* Rows lead to their own build; what is saved as done is in the sheet, but for
\* running and unnamed builds and failing calls; and without a fault the number
\* is not lost over a build of which a row was written.
BuildsKept == LinkedToOwnBuild /\ SavedBuildWritten /\ LostOnlyOverNothing
=============================================================================
