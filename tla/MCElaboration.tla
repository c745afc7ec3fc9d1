------------------------------ MODULE MCElaboration ------------------------------
(* A small instance of Elaboration for TLC.                                 *)
EXTENDS ElaborationProperties
=============================================================================
