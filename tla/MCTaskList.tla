------------------------------ MODULE MCTaskList ------------------------------
\* Two agents and their operations for TLC.
EXTENDS TaskList, TLC

CONSTANTS a1, a2

MCAgents == {a1, a2}
MCSymmetry == Permutations(MCAgents)
=============================================================================
