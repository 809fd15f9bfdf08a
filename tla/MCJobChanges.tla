---------------------------- MODULE MCJobChanges ----------------------------
(* Instances of JobFunds, and so of JobChanges, for TLC, with the operators *)
(* of JobScreens and JobNotices on the same job.                           *)
EXTENDS JobFunds, JobScreens, JobNotices, TLC

Symmetry == Permutations(Workers) \cup Permutations(Changes)
=============================================================================
