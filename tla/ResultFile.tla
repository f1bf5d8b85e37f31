----------------------------- MODULE ResultFile -----------------------------
(***************************************************************************)
(* What the pipeline makes of the JUnit file of a test run                 *)
(* (src/pipeline/handleresult.py): ocgr lets it drop the monitor's case    *)
(* (replace), write one file per subteam, which it imports into            *)
(* ReportPortal (split), and print the summary (get) in which it looks for *)
(* the word FAIL before it ends the build; the health check puts a failing *)
(* case into a team's file or a new one (hcj) and other jobs rename the    *)
(* cases of a whole file (generate).                                       *)
(*                                                                         *)
(* A test case has an ordered list of case ids, none for a case without    *)
(* id, the team its name starts with, and its result elements.  Titles,    *)
(* authors and labels are its place in the file; that one of them holds    *)
(* the word FAIL is chosen where the text is printed.                      *)
(***************************************************************************)
EXTENDS SequencesExt

CONSTANTS CaseId,     \* case ids
          IdLists,    \* the lists of ids a test's name may hold
          Subteam,    \* the subteams the script knows
          Word,       \* what a name may start with: a subteam or another word
          MaxTests    \* bound on the length of the file

NoCaseId == "No-CASEID"
HealthId == "00000"   \* no test has this id, nor is it "No-CASEID"
Unknown == "Unknown"
Result == {"PASS", "FAIL", "SKIP"}
\* The runner writes a failure or a skipped element, never both.
TestCase == [ids : IdLists, team : Word, failure : {0, 1}, skipped : {0}, monitor : {FALSE}]
            \cup [ids : IdLists, team : Word, failure : {0}, skipped : {1}, monitor : {FALSE}]
MonitorCase == [ids : {<<>>}, team : {Unknown}, failure : {0, 1}, skipped : {0}, monitor : {TRUE}]

ASSUME ResultFileAssumption ==
    /\ IdLists \subseteq Seq(CaseId) /\ NoCaseId \notin CaseId /\ HealthId \notin CaseId
    /\ Unknown \notin Subteam /\ MaxTests \in Nat \ {0}

VARIABLES stage,    \* what was done last
          cases,    \* the test cases of the file
          counts,   \* its attributes: tests, failures, skipped
          files,    \* the teams' files: entries and attributes
          rpresult, \* whether every import of ocgr went well
          summary,  \* the printed result of each id or unnamed case
          text,     \* of what get wrote: get raised an exception, and the
                    \* word FAIL is in a title, an author or the exception
          status    \* the exit status of ocgr, -1 before its end

build == <<rpresult, summary, text, status>>
vars == <<stage, cases, counts, files, build>>

Attributes(t, f, s) == [tests |-> t, failures |-> f, skipped |-> s]
Ids(tc) == IF tc.ids = <<>> THEN <<NoCaseId>> ELSE tc.ids

\* Failure wins over skipped wherever a single result is wanted.
ResultOf(tc) == CASE tc.failure = 1 -> "FAIL" [] tc.skipped = 1 /\ tc.failure = 0 -> "SKIP" [] OTHER -> "PASS"

\* The runner's file: at most one case of the monitor, anywhere.
Files == UNION {[1..n -> TestCase \cup MonitorCase] : n \in 1..MaxTests}
Init == /\ stage = "written"
        /\ cases \in {s \in Files : Cardinality({i \in DOMAIN s : s[i].monitor}) <= 1}
        /\ counts = Attributes(0, 0, 0)
        /\ files = <<>> /\ rpresult = "SUCCESS" /\ summary = <<>> /\ status = -1
        /\ text = [crashed |-> FALSE, word |-> FALSE]

\* removeMonitor: the last case of the monitor goes, none of them is counted.
RemoveMonitor ==
    /\ stage = "written"
    /\ LET monitors == {i \in DOMAIN cases : cases[i].monitor}
           counted == DOMAIN cases \ monitors
       IN /\ cases' = IF monitors = {} THEN cases ELSE RemoveAt(cases, CHOOSE i \in monitors : \A k \in monitors : k <= i)
          /\ counts' = Attributes(Cardinality(counted),
                                  Cardinality({i \in counted : cases[i].failure = 1}),
                                  Cardinality({i \in counted : cases[i].skipped = 1}))
    /\ stage' = "replaced"
    /\ UNCHANGED <<files, build>>

\* Mutant: a team is whatever the name begins with.
TeamAny(tc) == tc.team
(***************************************************************************)
(* splitRP.  A test with several ids becomes an entry per id.  A team's    *)
(* attributes count every test once while the tests are gathered, and      *)
(* every further entry while they are written.                             *)
(***************************************************************************)
TeamOf(tc) == IF tc.team \in Subteam THEN tc.team ELSE Unknown
\* Mutant: only the first id of a test is entered.
FirstName(tc) == <<[id |-> Ids(tc)[1], result |-> ResultOf(tc)]>>
\* getNames: an entry per id.
Names(tc) == [k \in DOMAIN Ids(tc) |-> [id |-> Ids(tc)[k], result |-> ResultOf(tc)]]
\* The places where the tests name an id.
Mention == UNION {{i} \X DOMAIN Ids(cases[i]) : i \in DOMAIN cases}
\* Mutant: the first entry of a test is counted twice.
TallyAgain(own) == Cardinality(own) + Cardinality({p \in Mention : p[1] \in own})
\* Each test counts once for itself and once more for every further entry.
Tally(own) == Cardinality(own) + Cardinality({p \in Mention : p[1] \in own /\ p[2] > 1})

\* A loop over the tests: the entries of those in S, in order, after each test.
NamesUpTo(S) ==
    LET upTo[n \in 0..Len(cases)] ==
          IF n = 0 THEN <<>> ELSE IF n \in S THEN upTo[n - 1] \o Names(cases[n]) ELSE upTo[n - 1]
    IN upTo
NamesOf(S) == NamesUpTo(S)[Len(cases)]

TeamFile(t) ==
    LET own == {i \in DOMAIN cases : TeamOf(cases[i]) = t}
    IN [entries |-> NamesOf(own),
        counts |-> Attributes(Tally(own), Tally({i \in own : cases[i].failure = 1}),
                              Tally({i \in own : cases[i].skipped = 1}))]

Split ==
    /\ stage = "replaced"
    /\ files' = [t \in {TeamOf(cases[i]) : i \in DOMAIN cases} |-> TeamFile(t)]
    /\ stage' = "split"
    /\ UNCHANGED <<cases, counts, build>>

\* ocgr imports the teams' files one by one, and any import may fail.
Import ==
    /\ stage = "split"
    /\ \E failed \in SUBSET DOMAIN files : rpresult' = IF failed = {} THEN "SUCCESS" ELSE "FAIL"
    /\ stage' = "imported"
    /\ UNCHANGED <<cases, counts, files, summary, text, status>>

HealthCase == [id |-> HealthId, result |-> "FAIL"]
\* Mutant: the cases of the input are not copied.
HealthCheckForgets(t) ==
    /\ stage = "split"
    /\ LET input == IF t \in DOMAIN files THEN files[t] ELSE [entries |-> <<>>, counts |-> Attributes(0, 0, 0)]
           output == [entries |-> <<HealthCase>>,
                      counts |-> Attributes(input.counts.tests + 1, input.counts.failures + 1, 0)]
       IN files' = [x \in DOMAIN files \cup {t} |-> IF x = t THEN output ELSE files[x]]
    /\ stage' = "checked"
    /\ UNCHANGED <<cases, counts, build>>

\* healcheckRP: a failing case first, then the cases of the input; a team
\* without a file (input is "") gets a new one with that case alone.  It sets
\* skipped to 0 whatever the input holds.
HealthCheck(t) ==
    /\ stage = "split"
    /\ LET input == IF t \in DOMAIN files THEN files[t] ELSE [entries |-> <<>>, counts |-> Attributes(0, 0, 0)]
           output == [entries |-> <<HealthCase>> \o input.entries,
                      counts |-> Attributes(input.counts.tests + 1, input.counts.failures + 1, 0)]
       IN files' = [x \in DOMAIN files \cup {t} |-> IF x = t THEN output ELSE files[x]]
    /\ stage' = "checked"
    /\ UNCHANGED <<cases, counts, build>>

Several == {i \in DOMAIN cases : Len(cases[i].ids) > 1}
\* Mutant: a test with several ids stays where it was, too.
GenerateAndKeep(t) ==
    /\ stage = "replaced"
    /\ files' = [x \in {t} |-> [entries |-> NamesOf(DOMAIN cases) \o NamesOf(Several), counts |-> counts]]
    /\ stage' = "generated"
    /\ UNCHANGED <<cases, counts, build>>

\* generateRP renames in place what has one id or none, and moves the copies
\* of a test with several ids to the end, under the one name it is given.
Generate(t) ==
    /\ stage = "replaced"
    /\ files' = [x \in {t} |-> [entries |-> NamesOf(DOMAIN cases \ Several) \o NamesOf(Several),
                                 counts |-> counts]]
    /\ stage' = "generated"
    /\ UNCHANGED <<cases, counts, build>>

Put(sum, key, result) == [k \in DOMAIN sum \cup {key} |-> IF k = key THEN result ELSE sum[k]]
\* Mutant: the last result of an id wins.
PrintIdLast(acc, id) == [acc EXCEPT !.sum = Put(@, <<id, 0>>, acc.result)]
\* Mutant: a skip replaces a pass.
PrintIdFailStays(acc, id) ==
    LET key == <<id, 0>>
        result == IF key \in DOMAIN acc.sum /\ acc.sum[key] = "FAIL" THEN "FAIL" ELSE acc.result
    IN [result |-> result, sum |-> Put(acc.sum, key, result)]
(***************************************************************************)
(* pirntResult.  One result per id: a failure stays, a pass stays under a  *)
(* skip.  result is one variable for all ids of a test, so an earlier id   *)
(* of the list that failed elsewhere also decides the ids after it.        *)
(***************************************************************************)
PrintId(acc, id) ==
    LET key == <<id, 0>>
        before == IF key \in DOMAIN acc.sum THEN acc.sum[key] ELSE "none"
        result == IF before = "FAIL" \/ (before = "PASS" /\ acc.result = "SKIP") THEN before ELSE acc.result
    IN [result |-> result, sum |-> Put(acc.sum, key, result)]
IdsUpTo(sum, tc) ==
    LET upTo[k \in 0..Len(tc.ids)] ==
          IF k = 0 THEN [result |-> ResultOf(tc), sum |-> sum] ELSE PrintId(upTo[k - 1], tc.ids[k])
    IN upTo
PrintCase(sum, i) ==
    IF cases[i].monitor THEN sum
    ELSE IF cases[i].ids = <<>> THEN Put(sum, <<NoCaseId, i>>, ResultOf(cases[i]))
    ELSE IdsUpTo(sum, cases[i])[Len(cases[i].ids)].sum

SummaryUpTo ==
    LET upTo[n \in 0..Len(cases)] == IF n = 0 THEN <<>> ELSE PrintCase(upTo[n - 1], n)
    IN upTo
Summary == SummaryUpTo[Len(cases)]

\* get: the summary, or the text of an exception.
PrintResult ==
    /\ stage \in {"replaced", "imported"}
    /\ \E word \in BOOLEAN :
          \/ summary' = Summary /\ text' = [crashed |-> FALSE, word |-> word]
          \/ summary' = <<>> /\ text' = [crashed |-> TRUE, word |-> word]
    /\ stage' = "printed"
    /\ UNCHANGED <<cases, counts, files, rpresult, status>>

\* ocgr looks for FAIL anywhere in what get wrote; that get raised an exception
\* is no matter (|| true).
FinalResult == IF text.word \/ \E k \in DOMAIN summary : summary[k] = "FAIL" THEN "FAIL" ELSE "SUCCESS"
\* Mutant: the import does not matter.
DecideByTests ==
    /\ stage = "printed"
    /\ status' = IF FinalResult = "SUCCESS" THEN 0 ELSE 1
    /\ stage' = "decided"
    /\ UNCHANGED <<cases, counts, files, rpresult, summary, text>>
Decide ==
    /\ stage = "printed"
    /\ status' = IF FinalResult = "SUCCESS" /\ rpresult = "SUCCESS" THEN 0 ELSE 1
    /\ stage' = "decided"
    /\ UNCHANGED <<cases, counts, files, rpresult, summary, text>>

Next == \/ RemoveMonitor \/ Split \/ Import \/ PrintResult \/ Decide
        \/ \E t \in Subteam \cup {Unknown} : HealthCheck(t)
        \/ \E t \in Subteam : Generate(t)
Spec == Init /\ [][Next]_vars
-----------------------------------------------------------------------------
Entries(t) == files[t].entries
CountIn(seq, e) == Cardinality({k \in DOMAIN seq : seq[k] = e})
With(seq, r) == Cardinality({k \in DOMAIN seq : seq[k].result = r})
Named(p) == Ids(cases[p[1]])[p[2]]
Naming(id) == {i \in DOMAIN cases : \E k \in DOMAIN Ids(cases[i]) : Ids(cases[i])[k] = id}

TypeOK ==
    /\ stage \in {"written", "replaced", "split", "imported", "checked", "generated", "printed", "decided"}
    /\ \A i \in DOMAIN cases : cases[i] \in TestCase \cup MonitorCase
    /\ counts \in [tests : Nat, failures : Nat, skipped : Nat]
    /\ DOMAIN files \subseteq Subteam \cup {Unknown}
    /\ \A k \in DOMAIN summary : summary[k] \in Result
    /\ rpresult \in {"SUCCESS", "FAIL"}
    /\ text \in [crashed : BOOLEAN, word : BOOLEAN]
    /\ status \in {-1, 0, 1}

\* splitRP sends every result of the file to exactly one team's file, once for
\* each time the test names an id, and to the team the name starts with when
\* the script knows it.  The health check takes none of them away and sends
\* none to another team.
SplitComplete ==
    stage \in {"split", "checked"} =>
        \A id \in CaseId \cup {NoCaseId}, r \in Result, t \in Subteam \cup {Unknown} :
            (IF t \in DOMAIN files THEN CountIn(Entries(t), [id |-> id, result |-> r]) ELSE 0)
            = Cardinality({p \in Mention : Named(p) = id /\ ResultOf(cases[p[1]]) = r /\
                  LET team == cases[p[1]].team
                  IN IF team \in Subteam THEN team = t ELSE t = Unknown})

\* The health check puts its failing case first into one team's file, which need
\* not have been there, and into no other file.
HealthCheckAdds ==
    stage = "checked" => \E t \in DOMAIN files :
        /\ Entries(t)[1] = HealthCase
        /\ \A x \in DOMAIN files : CountIn(Entries(x), HealthCase) = IF x = t THEN 1 ELSE 0

\* The attributes of a file that was split count its entries, although they are
\* added up in two places, and tests and failures still do after the health
\* check.  Two attributes do not follow the entries: skipped is 0 after the
\* health check (line 405), and generateRP leaves the attributes as they were
\* when it multiplies tests (line 228).
CountsMatch ==
    /\ stage \in {"split", "checked"} => \A t \in DOMAIN files :
         /\ files[t].counts.tests = Len(Entries(t))
         /\ files[t].counts.failures = With(Entries(t), "FAIL")
         /\ stage = "split" => files[t].counts.skipped = With(Entries(t), "SKIP")
    /\ stage # "written" => counts.tests = Len(cases)

\* generateRP, which moves and copies tests, and splitRP agree on the results
\* of every id.
GenerateAgreesWithSplit ==
    stage = "generated" => \A t \in DOMAIN files, id \in CaseId \cup {NoCaseId}, r \in Result :
        CountIn(Entries(t), [id |-> id, result |-> r])
        = Cardinality({p \in Mention : Named(p) = id /\ ResultOf(cases[p[1]]) = r})

\* However the pipeline rewrites the file, no result of a test is lost, doubled
\* or sent to another team; the attributes count the entries with the two
\* exceptions of CountsMatch.
ResultsKept == SplitComplete /\ HealthCheckAdds /\ CountsMatch /\ GenerateAgreesWithSplit

\* Where get ended, its summary is on the screen.
Printed == stage \in {"printed", "decided"} /\ ~text.crashed

\* A failure of any test of an id is what the summary shows for it, whatever
\* the tests before and after it did.
FailureShown ==
    Printed => \A id \in CaseId :
        (\E i \in Naming(id) : ResultOf(cases[i]) = "FAIL") => summary[<<id, 0>>] = "FAIL"

\* For an id that its tests name alone the summary is exact: FAIL before PASS
\* before SKIP.  In a list of ids it need not be: a failure of an earlier id of
\* the list is printed for the ids after it, which did not fail.
SummaryExact ==
    Printed => \A id \in CaseId :
        LET results == {ResultOf(cases[i]) : i \in Naming(id)}
        IN (results # {} /\ \A i \in Naming(id) : Len(cases[i].ids) = 1) =>
             summary[<<id, 0>>] = IF "FAIL" \in results THEN "FAIL"
                                  ELSE IF "PASS" \in results THEN "PASS" ELSE "SKIP"

ATestFailed == \E i \in DOMAIN cases : ~cases[i].monitor /\ ResultOf(cases[i]) = "FAIL"
\* A failure may be printed for the wrong id, never where no test failed.
NoFailureFromNowhere == Printed => ((\E k \in DOMAIN summary : summary[k] = "FAIL") <=> ATestFailed)

\* A build whose tests failed or were not imported does not succeed if get ended,
\* and it fails for one of those reasons or because the word stands in a title,
\* an author or an exception.
StatusJust ==
    stage = "decided" =>
        /\ (ATestFailed /\ ~text.crashed) \/ rpresult = "FAIL" => status = 1
        /\ status = 1 => ATestFailed \/ rpresult = "FAIL" \/ text.word

\* No failure is hidden by another result of the same id or the same test; an id
\* named alone shows FAIL before PASS before SKIP; and a build succeeds over a
\* failed test only where get itself breaks down.
SummarySound == FailureShown /\ SummaryExact /\ NoFailureFromNowhere /\ StatusJust
=============================================================================
