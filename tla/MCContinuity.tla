---------------------------- MODULE MCContinuity ----------------------------
(* Instances of EndpointContinuity for TLC.                                  *)
EXTENDS EndpointContinuity, MCEndpoints
=============================================================================
