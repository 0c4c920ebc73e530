------------------------- MODULE MCProofPipeline --------------------------
EXTENDS ProofPipeline, TLC

\* Slots, requests and fresh ids are interchangeable.
PipeSymmetry ==
    Permutations(Workers) \cup Permutations(Requeues) \cup Permutations(Reruns)

=============================================================================
