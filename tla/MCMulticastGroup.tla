-------------------------- MODULE MCMulticastGroup --------------------------
(* MulticastGroupService's unary path instantiated for TLC.  Its client     *)
(* stubs, handlers and Unimplemented methods are generated from the same    *)
(* template as GatewayService's, so they are the UnaryRpc actions.          *)
EXTENDS UnaryRpc, MulticastGroupService, TLC

MCServiceName == MulticastGroupServiceName
MCServiceDesc == MulticastGroupServiceDesc

\* A server that overrides Enqueue and FlushQueue only.
MCImplemented == {"Enqueue", "FlushQueue"}

MCSymmetry == Permutations(Calls)

\* The ten client methods of multicastGroupServiceClient.
MulticastGroupClientCall(c, m) == Invoke(c, m)

\* The unary path of MulticastGroupService: its client stubs, its routing
\* table, its ten _MulticastGroupService_<M>_Handler functions and the
\* embedded UnimplementedMulticastGroupServiceServer methods.
MulticastGroupNext ==
    \/ \E c \in Calls, m \in Methods : MulticastGroupClientCall(c, m)
    \/ \E req \in net : Serve(req)
    \/ \E resp \in net : Receive(resp)
    \/ \E c \in Calls : Deadline(c)

MulticastGroupSpec == Init /\ [][MulticastGroupNext]_vars

=============================================================================
