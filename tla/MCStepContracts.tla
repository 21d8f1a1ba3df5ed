--------------------------- MODULE MCStepContracts ---------------------------
EXTENDS StepContracts, TLC
CONSTANTS p, q
MCReads == {{}, {p, q}}
MCSymmetry == Permutations({p, q})
=============================================================================
