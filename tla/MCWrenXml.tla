------------------------------- MODULE MCWrenXml -------------------------------
EXTENDS WrenXml, TLC

\* Addresses are interchangeable.
Symmetry == Permutations(Nodes) \union Permutations(Docs) \union Permutations(Wraps)
=============================================================================
