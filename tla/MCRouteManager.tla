--------------------------- MODULE MCRouteManager ---------------------------
(***************************************************************************)
(* Small instances of RouteManager for TLC.  Subnets: sa (VXLAN, NAT       *)
(* outgoing), sx (VXLAN, no NAT), sv (VLAN, locally attached) and sb       *)
(* (BGP); g1, g2 are the gateways of sv and sb, g0 an old gateway.         *)
(***************************************************************************)
EXTENDS RouteManager, TLC

CONSTANTS sa, sx, sv, sb, g0, g1, g2

MCMode == (sa :> "Vxlan") @@ (sx :> "Vxlan") @@ (sv :> "Vlan") @@ (sb :> "BGP")
MCAutoNat == (sa :> TRUE) @@ (sx :> FALSE) @@ (sv :> FALSE) @@ (sb :> FALSE)
MCGateway == (sa :> g0) @@ (sx :> g0) @@ (sv :> g1) @@ (sb :> g2)
MCHostDefaultGw == [s \in Subnets |-> NoGw]
MCStaleTable == (sa :> 12) @@ (sx :> 11) @@ (sv :> 13) @@ (sb :> 14)
MCStalePrio == (sa :> 3) @@ (sx :> 1) @@ (sv :> 2) @@ (sb :> 4)
\* Three free priorities (1..3) for four subnets.
MCStalePrioTight == (sa :> 3) @@ (sx :> 1) @@ (sv :> 2) @@ (sb :> 1)

\* Overlay-only variant: no underlay subnet, so no exclusion block either.
MCModeOverlay == (sa :> "Vxlan") @@ (sx :> "Vxlan")
MCAutoNatOverlay == (sa :> TRUE) @@ (sx :> FALSE)
MCGatewayOverlay == (sa :> g0) @@ (sx :> g0)
MCStaleTableOverlay == (sa :> 12) @@ (sx :> 11)
MCStalePrioOverlay == (sa :> 2) @@ (sx :> 1)
=============================================================================
