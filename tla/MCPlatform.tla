------------------------------ MODULE MCPlatform ------------------------------
(* The parts of the platform that the other runs take for granted, on small    *)
(* instances: those of Organization and those of Ports.  They share no state,  *)
(* so a behaviour of the run is one of one of them.                            *)
EXTENDS Organization, Ports, TLC
CONSTANTS p1, p2, p3, r1, r2, k1, k2, v1, v2

TwoActors == {p1, p2}
ThreeActors == {p1, p2, p3}
TwoRows == {r1, r2}
TwoKeys == {k1, k2}
OneRow == {r1}
OneKey == {k1}
TwoProviders == <<v1, v2>>
OneProvider == {v2}
Symmetry == Permutations(TwoActors) \cup Permutations(TwoRows)

OrganizationParts ==
    {"storage", "gateway", "mutations", "turn", "access", "resources", "installations"}

PlatformInit ==
    /\ OrganizationInit /\ PortsInit
    /\ \/ part \in OrganizationParts /\ port = "none"
       \/ part = "none" /\ port \in AllPorts
    /\ part # "installations" => directory = [manifest |-> TRUE, text |-> "one"]

PlatformNext ==
    /\ UNCHANGED <<part, port>>
    /\ \/ OrganizationNext /\ UNCHANGED portsVars
       \/ PortsNext /\ UNCHANGED organizationVars

PlatformSpec == PlatformInit /\ [][PlatformNext]_<<organizationVars, part, portsVars, port>>
=============================================================================
