------------------------- MODULE MCWorkspaceMember --------------------------
(* Finite instances of WorkspaceMember for TLC.                             *)
EXTENDS WorkspaceMember

(* Memberships are lost only in behaviours without other mishaps. *)
DriftAlone == drift = 0 \/ faults + crashes = 0
=============================================================================
