---------------------------- MODULE MCEventStore ----------------------------
(***************************************************************************)
(* EventStore on two jobs and one reader.                                  *)
(***************************************************************************)
EXTENDS EventStore, TLC

\* Job ids are interchangeable: no definition names one.
JobSymmetry == Permutations(JobIds)
=============================================================================
