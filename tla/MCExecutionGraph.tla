--------------------------- MODULE MCExecutionGraph ---------------------------
EXTENDS ExecutionGraph, TLC

CONSTANTS gate1, gate2

\* Which of the identifiers a gate has makes no difference.
MCSymmetry == Permutations({gate1, gate2})
=============================================================================
