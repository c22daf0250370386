------------------------------ MODULE MCXAudio ------------------------------
(* XAudio on small instances: all its sets are only compared for equality.    *)
EXTENDS XAudio, TLC

Symmetry == Permutations(Files) \union Permutations(BufferNames)
            \union Permutations(SourceNames) \union Permutations(BufferAddrs)
            \union Permutations(SourceAddrs) \union Permutations(Handles)
=============================================================================
