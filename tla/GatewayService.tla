--------------------------- MODULE GatewayService ---------------------------
(* The service description of src/api/go/api/gateway_grpc.pb.go. *)
EXTENDS TLC

GatewayServiceName == "api.GatewayService"

\* Mutant: two handlers registered under each other's names.
GatewayServiceDescSwapped ==
    "Create" :> "Create" @@ "Get" :> "Get" @@ "Update" :> "Delete"
      @@ "Delete" :> "Update" @@ "List" :> "List"
      @@ "GenerateClientCertificate" :> "GenerateClientCertificate"
      @@ "GetStats" :> "GetStats"

\* GatewayService_ServiceDesc.Methods: MethodName -> the method whose
\* _GatewayService_<M>_Handler is registered under it.
GatewayServiceDesc ==
    "Create" :> "Create" @@ "Get" :> "Get" @@ "Update" :> "Update"
      @@ "Delete" :> "Delete" @@ "List" :> "List"
      @@ "GenerateClientCertificate" :> "GenerateClientCertificate"
      @@ "GetStats" :> "GetStats"

=============================================================================
