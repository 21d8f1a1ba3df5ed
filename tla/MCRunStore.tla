------------------------------ MODULE MCRunStore ------------------------------
EXTENDS RunStore, TLC

MCSetMachines == { Machine(NoPhase, "WAIT_EXTERNAL", "PUSH_FAILED"),
                   Machine("publish", "COMPLETED", NoReason) }

=============================================================================
