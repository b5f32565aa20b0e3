-------------------------- MODULE MCPublishEngine --------------------------
(* Model-checking instances of PublishEngine.                               *)
EXTENDS PublishEngine, TLC

\* All relays are interchangeable in the safety runs.
RelaySymmetry == Permutations(Relays)
=============================================================================
