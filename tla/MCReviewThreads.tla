---- MODULE MCReviewThreads ----
(***************************************************************************)
(* ReviewThreads for TLC: its constants are given by the configurations.    *)
(***************************************************************************)
EXTENDS ReviewThreads, TLC

\* The slots of the handlers are interchangeable.
CallSymmetry == Permutations(Calls)

====
