---------------------------- MODULE MCResultFile ----------------------------
EXTENDS ResultFile
\* Tests without id, with one, with two: the same ids in several tests
\* and in one.
MCIdLists == {<<>>, <<"11111">>, <<"22222">>, <<"11111", "22222">>, <<"22222", "22222">>}
=============================================================================
