-------------------------- MODULE MCDescriptorHeap --------------------------
(***************************************************************************)
(* DescriptorHeap for TLC, where threads, textures and constant buffers    *)
(* are interchangeable.                                                    *)
(***************************************************************************)
EXTENDS DescriptorHeap, TLC

Symmetry == Permutations(Threads) \cup Permutations(Textures)
            \cup Permutations(ConstantBuffers)
=============================================================================
