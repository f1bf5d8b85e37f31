--------------------------- MODULE MCPortalTools ---------------------------
\* A small instance of PortalTools.
EXTENDS PortalTools

MCLaunchOf == <<1, 1, 2, 2>>
MCMine == {1, 3, 4}
MCSuites == LET row(l, t, p, f) == [launch |-> l, team |-> t, passed |-> p, failed |-> f]
            IN 1 :> <<row(1, "OLM", 28, 20), row(1, "SDN", 0, 0), row(2, "OLM", 1, 1), row(2, "SDN", 2, 0)>>
               @@ 2 :> <<row(1, "SDN", 0, 1), row(1, "unknown", 1, 0)>>
MCSuite == UNION {{MCSuites[s][i] : i \in DOMAIN MCSuites[s]} : s \in DOMAIN MCSuites}
=============================================================================
