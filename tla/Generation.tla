----------------------------- MODULE Generation -----------------------------
(***************************************************************************)
(* What one service contributes to a pass: the TonicBuildService adapter  *)
(* (prost.rs TonicBuildService, TonicBuildMethod) and the stubs that      *)
(* client::generate and server::generate render from it.                   *)
(*                                                                         *)
(* A rendered stub is abstracted to the facts the properties compare: the  *)
(* service it is for, its route (with or without the package), the        *)
(* resolved request/response types of every method in declaration order,  *)
(* the attributes injected, the server receiver and default-stub shape,   *)
(* and which transport generator produced it.  Token text and layout are  *)
(* left out.                                                               *)
(***************************************************************************)
EXTENDS Resolver

(***************************************************************************)
(* A prost-build Method carries the Rust type prost chose for each side;   *)
(* that choice depends on whether the prost Config compiles the           *)
(* well-known types, so the model keeps it as a function of that flag.     *)
(***************************************************************************)
MethodAt(m, prostWkt) ==
    [input_proto_type  |-> m.input_proto_type,
     input_type        |-> m.input_type[prostWkt],
     output_proto_type |-> m.output_proto_type,
     output_type       |-> m.output_type[prostWkt]]

\* TonicBuildService::new: wraps the prost service and its methods, in
\* declaration order, one TonicBuildMethod per prost Method.
TonicBuildService(service, prostWkt) ==
    [name    |-> service.name,
     package |-> service.package,
     methods |-> [i \in DOMAIN service.methods |-> MethodAt(service.methods[i], prostWkt)]]

\* Per-method content of a stub: request_response_name for each method,
\* with the generator's proto_path and compile_well_known_types.
Rpcs(svc, st) ==
    [i \in DOMAIN svc.methods |->
        request_response_name(svc.methods[i], st.proto_path, st.compile_well_known_types)]

Route(svc, st) == IF st.emit_package THEN <<svc.package, svc.name>> ELSE <<svc.name>>

\* client::generate(&service, emit_package, proto_path,
\*                  compile_well_known_types, &client_attributes)
\* Does the stub carry the service's doc comment?  tonic's generators drop
\* it for a service whose path is in disable_comments; madsim's generators
\* are never given that set (st.disable_comments = {}).
Documented(svc, st) == <<svc.package, svc.name>> \notin st.disable_comments

ClientGenerate(svc, st) ==
    [kind |-> "client", service |-> svc.name, route |-> Route(svc, st),
     docs |-> Documented(svc, st),
     rpcs |-> Rpcs(svc, st), attrs |-> st.client_attributes,
     arc_self |-> FALSE, default_stubs |-> FALSE, variant |-> st.variant]

\* server::generate(&service, emit_package, proto_path,
\*                  compile_well_known_types, &server_attributes); the
\* production generator also honours use_arc_self and generate_default_stubs.
ServerGenerate(svc, st) ==
    [kind |-> "server", service |-> svc.name, route |-> Route(svc, st),
     docs |-> Documented(svc, st),
     rpcs |-> Rpcs(svc, st), attrs |-> st.server_attributes,
     arc_self |-> st.use_arc_self, default_stubs |-> st.generate_default_stubs,
     variant |-> st.variant]

\* Every request/response type of the service resolved to a parseable
\* reference; otherwise an unwrap in convert_type panics while the stub
\* is being rendered.
Resolves(svc, st) ==
    \A i \in DOMAIN svc.methods :
        LET rr == request_response_name(svc.methods[i], st.proto_path,
                                        st.compile_well_known_types)
        IN rr[1].ok /\ rr[2].ok

\* Does a generator with settings st render anything for a service?
Renders(st) == st.build_server \/ st.build_client

(***************************************************************************)
(* The promise of one pass (spec 4.4): every file's output is the client  *)
(* stubs of exactly that file's services, in declaration order, followed  *)
(* by its server stubs, appended to the buffer of the file's package.      *)
(***************************************************************************)
FileServices(f, prostWkt) ==
    [i \in DOMAIN f.services |-> TonicBuildService(f.services[i], prostWkt)]

FileOutput(f, st, prostWkt) ==
    LET svcs == FileServices(f, prostWkt) IN
      (IF st.build_client THEN [i \in DOMAIN svcs |-> ClientGenerate(svcs[i], st)] ELSE <<>>)
   \o (IF st.build_server THEN [i \in DOMAIN svcs |-> ServerGenerate(svcs[i], st)] ELSE <<>>)

FileResolves(f, st, prostWkt) ==
    Renders(st) => \A i \in DOMAIN f.services : Resolves(FileServices(f, prostWkt)[i], st)

\* The package buffers after a whole pass over files, and whether the pass
\* gets through every file without a panic.
RECURSIVE PassBuffers(_, _, _, _)
PassBuffers(files, st, prostWkt, b) ==
    IF files = <<>> THEN b
    ELSE LET f == Head(files) IN
         PassBuffers(Tail(files), st, prostWkt,
                     [b EXCEPT ![f.package] = @ \o FileOutput(f, st, prostWkt)])

PassResolves(files, st, prostWkt) ==
    \A i \in DOMAIN files : FileResolves(files[i], st, prostWkt)

=============================================================================
