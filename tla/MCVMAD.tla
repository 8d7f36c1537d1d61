------------------------------- MODULE MCVMAD -------------------------------
(* Instances of VMAD for TLC; the .cfg files give the bounds.              *)
EXTENDS VMAD
=============================================================================
