---------------------------- MODULE UpdateResults ----------------------------
(***************************************************************************)
(* Changing failed results to passed in bulk (src/pipeline/               *)
(* updateresultrp.py): read the launches that match, page by page, then    *)
(* for each launch its failed items, page by page, and update those of the *)
(* author.  A page that cannot be read is passed over with the advice to   *)
(* run the tool again.  Meanwhile people look at the same items.           *)
(***************************************************************************)
EXTENDS Calls

CONSTANTS NLaunch, NItem,  \* launches, and items in all
          LaunchOf,        \* the launch of each item
          Mine,            \* the items whose name holds the author
          PageSize, MaxRuns, MaxOthers

UItem == 1..NItem
ULaunch == 1..NLaunch

ASSUME UpdateAssumption ==
    /\ NLaunch \in Nat /\ NItem \in Nat /\ PageSize \in Nat \ {0}
    /\ LaunchOf \in [UItem -> ULaunch] /\ Mine \subseteq UItem
    /\ MaxRuns \in Nat /\ MaxOthers \in Nat

VARIABLES
    result,    \* the status of each item, "FAILED" as queried or "passed" as sent
    defect,    \* items that have the defect type asked for
    upc,       \* "idle", "launches", "items"
    page, pages,   \* the page to read and the number of pages of the query
    found,     \* launches still to be handled, in the order they were found
    toPass,    \* items of the current launch still to be updated
    runs,      \* runs started
    told,      \* a message of this run says what it left out
    others     \* what people changed: in this run, and in all

uvars == <<result, defect, upc, page, pages, found, toPass, runs, told, others>>
reader == <<upc, page, pages, found, toPass, told>>

Matching == {i \in UItem : result[i] = "FAILED" /\ i \in defect}
\* The server lists what matches now, in a fixed order.
MatchingLaunches == {LaunchOf[i] : i \in Matching}
MatchingItems(l) == {i \in Matching : LaunchOf[i] = l}
\* Mutant: pages are counted from zero.
PageFromZero(S, k) == PageAt(S, k - 1, PageSize)
Page(S, k) == PageAt(S, k, PageSize)
Pages(S) == PagesOf(Cardinality(S), PageSize)

\* Mutant: the author is not looked at.
MineOnAny(S, k) == Page(S, k)
\* The author's items on a page.
MineOn(S, k) == Page(S, k) \cap Mine
\* Mutant: a status the server does not know.
ShortStatus == "pass"
NewStatus == "passed"

UpdateInit ==
    /\ result = [i \in UItem |-> "FAILED"] /\ defect = UItem
    /\ upc = "idle" /\ page = 1 /\ pages = 0 /\ found = {} /\ toPass = {}
    /\ runs = 0 /\ told = FALSE /\ others = [now |-> 0, all |-> 0]

ChangeToSuccess ==
    /\ upc = "idle" /\ runs < MaxRuns
    /\ runs' = runs + 1 /\ upc' = "launches"
    /\ page' = 1 /\ pages' = 1 /\ found' = {} /\ toPass' = {} /\ told' = FALSE
    /\ others' = [others EXCEPT !.now = 0]
    /\ UNCHANGED <<result, defect, faults>>

\* The first page also says how many there are; without it the run gives up.
GetLaunches ==
    /\ upc = "launches" /\ page <= pages
    /\ \E a \in ReadAnswer :
         /\ Count(a)
         /\ page' = page + 1
         /\ told' = (told \/ a # "ok")
         /\ found' = IF a = "ok" THEN found \cup Page(MatchingLaunches, page) ELSE found
         /\ pages' = IF a = "ok" /\ page = 1 THEN Pages(MatchingLaunches) ELSE pages
    /\ UNCHANGED <<result, defect, upc, toPass, runs, others>>

\* After the pages of the launches, or of a launch whose items are all handled.
NextLaunch ==
    /\ page > pages /\ toPass = {}
    /\ upc \in {"launches", "items"}
    /\ found' = IF upc = "items" THEN found \ {Min(found)} ELSE found
    /\ upc' = IF found' = {} THEN "idle" ELSE "items"
    /\ page' = 1 /\ pages' = 1
    /\ UNCHANGED <<result, defect, toPass, runs, told, others, faults>>

GetItems ==
    /\ upc = "items" /\ page <= pages
    /\ \E a \in ReadAnswer :
         LET items == MatchingItems(Min(found))
         IN /\ Count(a)
            /\ page' = page + 1
            /\ told' = (told \/ a # "ok")
            /\ toPass' = IF a = "ok" THEN toPass \cup MineOn(items, page) ELSE toPass
            /\ pages' = IF a = "ok" /\ page = 1 THEN Pages(items) ELSE pages
    /\ UNCHANGED <<result, defect, upc, found, runs, others>>

UpdateItemStatus ==
    /\ upc = "items" /\ page > pages /\ toPass # {}
    /\ \E a \in Answer, i \in toPass :
         /\ Count(a)
         /\ toPass' = toPass \ {i}
         /\ result' = IF a = "error" THEN result ELSE [result EXCEPT ![i] = NewStatus]
         /\ told' = (told \/ a # "ok")
    /\ UNCHANGED <<defect, upc, page, pages, found, runs, others>>

\* Somebody gives an item another defect type, or its status.
OthersChange(i) ==
    /\ others.all < MaxOthers
    /\ others' = [now |-> others.now + 1, all |-> others.all + 1]
    /\ \/ defect' = defect \ {i} /\ i \in defect /\ UNCHANGED result
       \/ result[i] = "FAILED" /\ result' = [result EXCEPT ![i] = "passed"] /\ UNCHANGED defect
    /\ UNCHANGED <<reader, runs, faults>>

\* A call raises: caught around the launches ("no launch match"), elsewhere a
\* traceback; either way the run ends and shows it.
UpdateDies ==
    /\ upc # "idle" /\ Die
    /\ upc' = "idle" /\ told' = TRUE /\ found' = {} /\ toPass' = {}
    /\ UNCHANGED <<result, defect, page, pages, runs, others>>

UpdateNext == \/ ChangeToSuccess \/ GetLaunches \/ NextLaunch \/ GetItems \/ UpdateItemStatus
              \/ UpdateDies
              \/ \E i \in UItem : OthersChange(i)
-----------------------------------------------------------------------------
UpdateTypeOK ==
    /\ result \in [UItem -> {"FAILED", "passed"}] /\ defect \subseteq UItem
    /\ upc \in {"idle", "launches", "items"} /\ page \in Nat /\ pages \in Nat
    /\ found \subseteq ULaunch /\ toPass \subseteq UItem /\ runs \in 0..MaxRuns
    /\ told \in BOOLEAN /\ others.all \in 0..MaxOthers

\* A run during which nobody else changed an item leaves a matching item of the
\* author failed only when it printed that something could not be read or
\* changed ("please rerun it to try failed page", updateresultrp.py:127): a
\* run without such a message is complete over all pages of all launches.
LeftOutOnlyIfTold ==
    (upc = "idle" /\ runs > 0 /\ others.now = 0 /\ Matching \cap Mine # {}) => told

\* The tool passes items of the author only, and, unless people reclassify them
\* between the read and the update, only items of the defect type asked for.
OnlyChosen ==
    [][UpdateItemStatus => \A i \in UItem : result'[i] # result[i] =>
         i \in Mine /\ (i \in defect \/ others.now > 0)]_uvars

\* The items chosen are updated, all of them and no others.
UpdateExact == []LeftOutOnlyIfTold /\ OnlyChosen
=============================================================================
