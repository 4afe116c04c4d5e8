--------------------------- MODULE MCScheduleJobs ---------------------------
(***************************************************************************)
(* Small instances of ScheduleJobs for TLC.                                *)
(***************************************************************************)
EXTENDS ScheduleJobs, TLC

\* Ids and threads of the same kind are interchangeable.
Symmetry ==
    Permutations(Jobs) \cup Permutations(Previews) \cup
    Permutations(MessageLoops) \cup Permutations(Apis)
=============================================================================
