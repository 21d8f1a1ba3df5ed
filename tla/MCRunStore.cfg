SPECIFICATION Spec
CONSTANTS
    Clients = {c1, c2}
    Fields = {pause_requested, cycles}
    Bodies = {b1}
    UsedPhases = {"plan_approval"}
    SetMachines <- MCSetMachines
    FailReasons = {"INTERRUPTED"}
    MaxWrites = 3
    NoClient = NoClient
    NoBody = NoBody
INVARIANTS AtMostOneWinner
PROPERTIES ClaimOnObservedRecord ImplementsRecord
