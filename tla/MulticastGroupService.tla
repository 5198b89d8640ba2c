------------------------ MODULE MulticastGroupService ------------------------
(* The service description of src/api/go/api/multicast_group_grpc.pb.go. *)
EXTENDS TLC

MulticastGroupServiceName == "api.MulticastGroupService"

\* Mutant: two handlers registered under each other's names.
MulticastGroupServiceDescSwapped ==
    "Create" :> "Create" @@ "Get" :> "Get" @@ "Update" :> "Update"
      @@ "Delete" :> "Delete" @@ "List" :> "List"
      @@ "AddDevice" :> "AddDevice" @@ "RemoveDevice" :> "RemoveDevice"
      @@ "Enqueue" :> "FlushQueue" @@ "FlushQueue" :> "Enqueue"
      @@ "ListQueue" :> "ListQueue"

\* MulticastGroupService_ServiceDesc.Methods: MethodName -> the method whose
\* _MulticastGroupService_<M>_Handler is registered under it.
MulticastGroupServiceDesc ==
    "Create" :> "Create" @@ "Get" :> "Get" @@ "Update" :> "Update"
      @@ "Delete" :> "Delete" @@ "List" :> "List"
      @@ "AddDevice" :> "AddDevice" @@ "RemoveDevice" :> "RemoveDevice"
      @@ "Enqueue" :> "Enqueue" @@ "FlushQueue" :> "FlushQueue"
      @@ "ListQueue" :> "ListQueue"

=============================================================================
