------------------------------ MODULE MCUpdater ------------------------------
EXTENDS Updater, TLC

\* Processes are interchangeable.
Symmetry == Permutations(Kids)
=============================================================================
