---------------------------- MODULE MCDependencies ----------------------------
(* Module Dependencies for TLC. *)
EXTENDS Dependencies

CONSTANTS g1, g2, u1, u2

Choice(gwapi, grant, class, embedded, user, admin) ==
    [gwapi |-> gwapi, install |-> TRUE, grant |-> grant, class |-> class,
     embedded |-> embedded, user |-> user, admin |-> admin, auto |-> TRUE]

Cluster(names, specs, ocp, api) == [names |-> names, specs |-> specs, ocp |-> ocp, api |-> api]

(* An embedded database that is given up for another. *)
DatabaseSpecs == {Choice("off", TRUE, "eg", e, None, None) : e \in BOOLEAN}

(* Groups that are renamed. *)
GroupSpecs == {Choice("off", TRUE, "eg", FALSE, u1, None), Choice("off", TRUE, "eg", FALSE, u2, u1)}

(* Two CRs that name the same groups. *)
SharedSpecs == {Choice("off", TRUE, "eg", FALSE, u1, u2)}

(* Envoy Gateway with SCC grants, and without if the Gateway API is there. *)
EnvoySpecs == {Choice("on", TRUE, "eg", FALSE, None, None), Choice("auto", FALSE, "eg", FALSE, None, None)}

(* A GatewayClass of the user's own, or none at all. *)
CustomSpecs ==
    {Choice("on", TRUE, "custom", FALSE, None, None), Choice("off", TRUE, "eg", FALSE, None, None)}

AllClusters ==
    {Cluster({g1}, DatabaseSpecs, FALSE, 2), Cluster({g1}, GroupSpecs, TRUE, 2),
     Cluster({g1, g2}, SharedSpecs, TRUE, 2), Cluster({g1}, EnvoySpecs, TRUE, 0),
     Cluster({g1}, CustomSpecs, FALSE, 2)}

=============================================================================
