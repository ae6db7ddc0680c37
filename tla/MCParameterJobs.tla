--------------------------- MODULE MCParameterJobs ---------------------------
EXTENDS ParameterJobs
MCText == [a1 |-> [n \in Names |-> 1]]
MCPairs == {<<NoFile, NoFile>>, <<"a1", NoFile>>, <<"f1", "a1">>, <<"f1", NoFile>>}
=============================================================================
