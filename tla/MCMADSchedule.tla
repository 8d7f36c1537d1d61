--------------------------- MODULE MCMADSchedule ---------------------------
(* Instances of MADSchedule for TLC; the .cfg files give the bounds.       *)
EXTENDS MADSchedule
=============================================================================
