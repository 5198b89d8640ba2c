------------------------------ MODULE UnaryRpc ------------------------------
(***************************************************************************)
(* The unary call path of a service generated by protoc-gen-go-grpc       *)
(* (src/api/go/api/*_grpc.pb.go):                                          *)
(*   client stub   out := new(Resp); err := c.cc.Invoke(ctx, path, in, out)*)
(*                 if err != nil { return nil, err }; return out, nil      *)
(*   routing       ServiceDesc.Methods: MethodName -> _Service_M_Handler   *)
(*   handler       dec(in) or return its error; without an interceptor     *)
(*                 return srv.M(ctx, in); with one, build UnaryServerInfo  *)
(*                 {FullMethod} and a closure calling srv.M, and return    *)
(*                 interceptor(ctx, in, info, handler)                     *)
(*   server impl   a method the user overrides, or the embedded            *)
(*                 Unimplemented*Server returning codes.Unimplemented.     *)
(* The transport (grpc-go) and the interceptor are external: the transport *)
(* delivers a request at most once and the client's deadline may expire   *)
(* at any time; the interceptor rejects the call, or calls the handler     *)
(* closure once with the decoded request or with a request of another     *)
(* method's type.  The closure's type assertion then panics, and grpc-go   *)
(* does not recover a handler panic: the server process dies, every        *)
(* connection is reset and each waiting client gets codes.Unavailable.     *)
(* A path "/<ServiceName>/<Method>" is the pair <<ServiceName, Method>>.   *)
(***************************************************************************)
EXTENDS Naturals, Sequences, FiniteSets

CONSTANTS
    ServiceName,   \* ServiceDesc.ServiceName
    ServiceDesc,   \* MethodName -> the method whose handler is registered
    Implemented,   \* the methods the server implementation overrides
    Calls,         \* client calls (model values)
    NoMethod       \* the method of a call not yet made

Methods == DOMAIN ServiceDesc

\* Status codes a client can see; "OK" is a nil error.
Codes == {"OK", "Unimplemented", "Decode", "Denied", "App", "DeadlineExceeded",
          "Unavailable"}

VARIABLES
    cstate,       \* per call: "idle", "waiting" (inside Invoke) or "done"
    cmethod,      \* per call: the stub method called
    ccode,        \* per call: the error code returned by the stub
    cout,         \* per call: the stub returned a non-nil response
    net,          \* requests and responses in flight
    execs,        \* executions of user service methods, as <<call, method>>
    infos,        \* UnaryServerInfo given to the interceptor, <<call, path>>
    interceptor   \* the server was registered with an interceptor

vars == <<cstate, cmethod, ccode, cout, net, execs, infos, interceptor>>

Request == [type : {"req"}, call : Calls, path : {ServiceName} \X Methods,
            valid : BOOLEAN]
Response == [type : {"resp"}, call : Calls, code : Codes]

TypeOK ==
    /\ cstate \in [Calls -> {"idle", "waiting", "done"}]
    /\ cmethod \in [Calls -> Methods \cup {NoMethod}]
    /\ ccode \in [Calls -> Codes]
    /\ cout \in [Calls -> BOOLEAN]
    /\ net \subseteq Request \cup Response
    /\ execs \in Seq(Calls \X Methods)
    /\ infos \subseteq Calls \X ({ServiceName} \X Methods)
    /\ interceptor \in BOOLEAN

Init ==
    /\ cstate = [c \in Calls |-> "idle"]
    /\ cmethod = [c \in Calls |-> NoMethod]
    /\ ccode = [c \in Calls |-> "OK"]
    /\ cout = [c \in Calls |-> FALSE]
    /\ net = {}
    /\ execs = <<>>
    /\ infos = {}
    /\ interceptor \in BOOLEAN

\* A stub method: Invoke sends the request to "/<ServiceName>/<m>".  The
\* request may not marshal into what the server decodes (valid = FALSE).
Invoke(c, m) ==
    /\ cstate[c] = "idle"
    /\ cstate' = [cstate EXCEPT ![c] = "waiting"]
    /\ cmethod' = [cmethod EXCEPT ![c] = m]
    /\ \E valid \in BOOLEAN :
         net' = net \cup {[type |-> "req", call |-> c,
                           path |-> <<ServiceName, m>>, valid |-> valid]}
    /\ UNCHANGED <<ccode, cout, execs, infos, interceptor>>

\* srv.M(ctx, in) for call c: a method the user overrides succeeds or fails
\* after running; the embedded Unimplemented method returns
\* codes.Unimplemented without running anything.
ServerMethod(c, m) ==
    IF m \in Implemented
      THEN {[code |-> r, execs |-> Append(execs, <<c, m>>)] : r \in {"OK", "App"}}
      ELSE {[code |-> "Unimplemented", execs |-> execs]}

Outcome(code, ex, info) == [code |-> code, execs |-> ex, info |-> info]

\* The handler closure `func(ctx, req) { return srv.M(ctx, req.(*MReq)) }`
\* called by the interceptor with a request of method t's type: the type
\* assertion panics ("Panic") unless t = m.
Closure(c, m, t, info) ==
    IF t = m THEN {Outcome(s.code, s.execs, info) : s \in ServerMethod(c, m)}
             ELSE {Outcome("Panic", execs, info)}

\* _<Service>_<m>_Handler on request req: the outcomes it may have.  A
\* failing dec(in) returns first; without an interceptor srv.M runs
\* directly on in; with one, the interceptor receives info.FullMethod and
\* either rejects the call or runs the handler closure on some request.
Handler(m, req) ==
    LET info == {<<req.call, <<ServiceName, m>>>>}
    IN  CASE ~req.valid ->
               {Outcome("Decode", execs, {})}
          [] ~interceptor ->
               {Outcome(s.code, s.execs, {}) : s \in ServerMethod(req.call, m)}
          [] OTHER ->
               {Outcome("Denied", execs, info)}
                 \cup UNION {Closure(req.call, m, t, info) : t \in Methods}

\* The grpc server takes a request, looks its method name up in the
\* ServiceDesc, runs the registered handler and sends its status back.  A
\* panic kills the server: everything in flight is lost and every waiting
\* client's Invoke fails with Unavailable; the server is then restarted.
Serve(req) ==
    /\ req \in net /\ req.type = "req"
    /\ \E r \in Handler(ServiceDesc[req.path[2]], req) :
         /\ execs' = r.execs
         /\ infos' = infos \cup r.info
         /\ IF r.code = "Panic"
              THEN /\ net' = {}
                   /\ cstate' = [c \in Calls |->
                                   IF cstate[c] = "waiting" THEN "done" ELSE cstate[c]]
                   /\ ccode' = [c \in Calls |->
                                   IF cstate[c] = "waiting" THEN "Unavailable" ELSE ccode[c]]
                   /\ cout' = [c \in Calls |-> IF cstate[c] = "waiting" THEN FALSE ELSE cout[c]]
              ELSE /\ net' = (net \ {req}) \cup
                             {[type |-> "resp", call |-> req.call, code |-> r.code]}
                   /\ UNCHANGED <<cstate, ccode, cout>>
    /\ UNCHANGED <<cmethod, interceptor>>

\* Mutant: a stub that returns (out, err) instead of (nil, err).
ReceiveReturnsOut(resp) ==
    /\ resp \in net /\ resp.type = "resp"
    /\ net' = net \ {resp}
    /\ IF cstate[resp.call] = "waiting"
         THEN /\ cstate' = [cstate EXCEPT ![resp.call] = "done"]
              /\ ccode' = [ccode EXCEPT ![resp.call] = resp.code]
              /\ cout' = [cout EXCEPT ![resp.call] = TRUE]
         ELSE UNCHANGED <<cstate, ccode, cout>>
    /\ UNCHANGED <<cmethod, execs, infos, interceptor>>

\* Invoke returns with the response's status; the stub returns (out, nil)
\* on success and (nil, err) otherwise.  A response for a call that is no
\* longer waiting is discarded.
Receive(resp) ==
    /\ resp \in net /\ resp.type = "resp"
    /\ net' = net \ {resp}
    /\ IF cstate[resp.call] = "waiting"
         THEN /\ cstate' = [cstate EXCEPT ![resp.call] = "done"]
              /\ ccode' = [ccode EXCEPT ![resp.call] = resp.code]
              /\ cout' = [cout EXCEPT ![resp.call] = (resp.code = "OK")]
         ELSE UNCHANGED <<cstate, ccode, cout>>
    /\ UNCHANGED <<cmethod, execs, infos, interceptor>>

\* The ctx deadline expires while Invoke waits: (nil, DeadlineExceeded).
\* The request or the response may still be in flight.
Deadline(c) ==
    /\ cstate[c] = "waiting"
    /\ cstate' = [cstate EXCEPT ![c] = "done"]
    /\ ccode' = [ccode EXCEPT ![c] = "DeadlineExceeded"]
    /\ cout' = [cout EXCEPT ![c] = FALSE]
    /\ UNCHANGED <<cmethod, net, execs, infos, interceptor>>

Next ==
    \/ \E c \in Calls, m \in Methods : Invoke(c, m)
    \/ \E req \in net : Serve(req)
    \/ \E resp \in net : Receive(resp)
    \/ \E c \in Calls : Deadline(c)

Spec == Init /\ [][Next]_vars

-----------------------------------------------------------------------------

\* Number of user-method executions for call c.
ExecCount(c) == Cardinality({k \in DOMAIN execs : execs[k][1] = c})

\* The routing table and the handlers agree with the client stubs: every
\* user method that runs is the one the client called, and the
\* UnaryServerInfo an interceptor sees names the path the client invoked.
RoutedToCalledMethod ==
    /\ \A k \in DOMAIN execs : execs[k][2] = cmethod[execs[k][1]]
    /\ \A x \in infos : x[2] = <<ServiceName, cmethod[x[1]]>>

\* What a client learns from the stub matches what the server did: a
\* response comes back exactly when the error is nil; success or an
\* application error means the implemented method ran once; Unimplemented,
\* a decode error or an interceptor rejection mean nothing ran.  Only
\* DeadlineExceeded and Unavailable (a server that died while the call was
\* pending, possibly after running it) leave the execution unknown.
ClientOutcomeMatchesServer ==
    \A c \in Calls : cstate[c] = "done" =>
        /\ cout[c] <=> ccode[c] = "OK"
        /\ ccode[c] \in {"OK", "App"} =>
              ExecCount(c) = 1 /\ cmethod[c] \in Implemented
        /\ ccode[c] \in {"Unimplemented", "Decode", "Denied"} => ExecCount(c) = 0

=============================================================================
