---------------------------- MODULE MCGateChecks ----------------------------
EXTENDS GateChecks

MCBoth    == {1, 2}
MCFast    == {1}
MCReports == {2}
MCBase    == { <<"pass", "old">>, <<"old", "pass">> }
=============================================================================
