---------------------------- MODULE MCFeedRefresh ----------------------------
(***************************************************************************)
(* Instances of FeedRefresh for TLC.                                       *)
(***************************************************************************)
EXTENDS FeedRefresh, TLC

\* Entries and jobs are interchangeable, and rows of one cutoff class.
Symmetric == Permutations(Entries) \cup Permutations(Jobs)
SymmetricRows == Symmetric \cup Permutations(Podcasts)
=============================================================================
