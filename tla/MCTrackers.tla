----------------------------- MODULE MCTrackers -----------------------------
\* A small instance of Trackers.
EXTENDS Trackers

MCSubject == {"OCP-1234", "OCP-12345", "OCP-6789"}
MCWithin == {<<s, s>> : s \in MCSubject} \cup {<<"OCP-1234", "OCP-12345">>}
MCLaunchesIn == <<<<1, 2>>, <<3>>, <<4>>>>
c(k, s) == [case |-> k, status |-> s]
MCPortals ==
    LET full == 1 :> <<c("OCP-12345", "FAILED"), c("OCP-1234", "PASSED"), c("OCP-12345", "PASSED")>>
                @@ 2 :> <<c("OCP-12345", "SYSTEM"), c("OCP-1234", "FAILED")>>
                @@ 3 :> <<c("OCP-6789", "FAILED"), c("OCP-12345", "SKIPPED")>>
                @@ 4 :> <<c("OCP-12345", "FAILED"), c("OCP-6789", "FAILED")>>
    IN {full, [full EXCEPT ![1] = <<>>], [full EXCEPT ![3] = <<>>]}
MCKnownAuthors == {"OCP-1234", "OCP-12345"}

s(k, p, f) == [subject |-> k, passed |-> p, failed |-> f]
l(p, f, d, ss) == [installed |-> TRUE, passed |-> p, failed |-> f, destructive |-> d, suites |-> ss]
MCProfiles ==
    LET low == l(5, 5, FALSE, <<s("OCP-12345", 1, 3), s("OCP-6789", 2, 1), s("OCP-1234", 2, 0)>>)
        good == l(20, 1, FALSE, <<s("OCP-6789", 0, 1)>>)
        destructive == l(6, 4, TRUE, <<s("OCP-1234", 6, 4), s("OCP-6789", 0, 0)>>)
        gone == l(1, 1, FALSE, <<>>)
        broken == [low EXCEPT !.installed = FALSE, !.suites[1] = s("OCP-1234", 1, 1)]
    IN {<<low, good, destructive>>, <<destructive, gone, low>>, <<low, low>>, <<broken, low>>}
\* The second build has no LAUNCH_NAME.
MCBuildCases == <<<<"a", "b">>, <<"c">>, <<>>, <<"c">>>>
=============================================================================
