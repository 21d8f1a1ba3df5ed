--------------------------- MODULE MCStepAttempts ---------------------------
EXTENDS StepAttempts, TLC

MCChain == <<0, 1, 2>>
MCPair  == <<0, 1>>

\* Each kind alone or beside declared work.
MCContents == { {}, {"in"}, {"out"}, {"in", "out"}, {"in", "denied"}, {"secret"} }
=============================================================================
