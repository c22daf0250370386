----------------------------- MODULE MCAsyncIO -----------------------------
(* AsyncIO on small instances.  Tasks, threads, states and refs are only      *)
(* compared for equality, so the safety run may permute each of them.         *)
EXTENDS AsyncIO, TLC

Symmetry == Permutations(Tasks) \union Permutations(VMs)
            \union Permutations(Threads) \union Permutations(Refs)
=============================================================================
