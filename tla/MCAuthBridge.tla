----------------------------- MODULE MCAuthBridge -----------------------------
(* Module AuthBridge for TLC.  Requests and random strings are              *)
(* interchangeable.                                                         *)
EXTENDS AuthBridge, TLC

AllConfigs == [userGroup: BOOLEAN, adminGroup: BOOLEAN]

Closed == [userGroup: {FALSE}, adminGroup: {FALSE}]

Symmetry == Permutations(Handlers) \cup Permutations(Handles)

=============================================================================
