------------------------------ MODULE MCProvider ------------------------------
(* Finite instances of Provider for TLC.                                    *)
EXTENDS Provider

CONSTANTS t1, t2, v

Spc(t, creds, config) == [type |-> t, creds |-> creds, config |-> [NoKeys EXCEPT ![3] = config]]

(* From the first spec a user may drop a credential, empty or drop the       *)
(* config value or change the type.                                          *)
FewSpecs == {Spc(t1, {1, 2}, v), Spc(t1, {1}, Absent), Spc(t2, {1}, Empty)}

(* A call fails, the operator restarts or another client deletes the         *)
(* provider, but only one of these in a behaviour.                           *)
OneMishap == faults + crashes + drift <= 1
===============================================================================
