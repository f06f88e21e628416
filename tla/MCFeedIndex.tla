----------------------------- MODULE MCFeedIndex -----------------------------
(* Instances of FeedIndex for TLC. *)
EXTENDS FeedIndex, TLC

\* The workers are interchangeable.
AnyWorker == Permutations(Workers)
=============================================================================
