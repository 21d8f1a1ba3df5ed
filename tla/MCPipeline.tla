------------------------------ MODULE MCPipeline ------------------------------
EXTENDS Pipeline, TLC

MCEverywhere == Operations \ {"off"}
=============================================================================
