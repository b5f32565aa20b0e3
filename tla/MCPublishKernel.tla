-------------------------- MODULE MCPublishKernel --------------------------
(* Model-checking instances of PublishKernel.                               *)
EXTENDS PublishKernel

\* All publishes, and all dispatch ids, are interchangeable.
KernelSymmetry == Permutations(Handles) \cup Permutations(Cids)
=============================================================================
