------------------------------ MODULE MCGateway -------------------------------
(* Module Gateway for TLC, with two hostnames.                              *)
EXTENDS Gateway

Choice(host, gwapi, auth, route, tls) ==
    [host |-> host, gwapi |-> gwapi, auth |-> auth, route |-> route, tls |-> tls]

LoginSpec == Choice("h1", FALSE, TRUE, TRUE, TRUE)

EnvoySpec == Choice("h2", TRUE, FALSE, TRUE, FALSE)

(* Routes with browser login, Routes for another hostname, Gateway API with *)
(* either hostname.                                                         *)
LiveSpecs ==
    {LoginSpec, Choice("h2", FALSE, FALSE, TRUE, TRUE), EnvoySpec, Choice("h1", TRUE, FALSE, TRUE, FALSE)}

(* The edits looked at: from one hostname to the other and, on OpenShift,   *)
(* to Gateway API; elsewhere without it, which takes new certificates.      *)
HostnameChanges ==
    cr.exists => IF cr.gen = 1 THEN cr.spec.host = "h1" /\ (cr.spec.gwapi => ocp)
                               ELSE cr.spec.host = "h2" /\ cr.spec.gwapi = ocp

(* Browser login, Gateway API, both without a hostname, both without        *)
(* Routes; Routes for another hostname without TLS.                         *)
MixedSpecs ==
    {LoginSpec, EnvoySpec, Choice(None, TRUE, TRUE, TRUE, TRUE),
     Choice("h1", TRUE, TRUE, FALSE, FALSE), Choice("h2", FALSE, TRUE, TRUE, FALSE)}

(* Gateway API without a hostname, and with one. *)
HostnameSpecs ==
    {Choice(None, TRUE, FALSE, TRUE, TRUE), Choice("h1", TRUE, FALSE, TRUE, TRUE)}

=============================================================================
