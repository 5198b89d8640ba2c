----------------------------- MODULE MCGateway -----------------------------
(* GatewayService's unary path instantiated for TLC. *)
EXTENDS UnaryRpc, GatewayService, TLC

MCServiceName == GatewayServiceName
MCServiceDesc == GatewayServiceDesc

\* A server that overrides Create and Get and leaves the other methods to
\* UnimplementedGatewayServiceServer.
MCImplemented == {"Create", "Get"}

MCSymmetry == Permutations(Calls)

=============================================================================
