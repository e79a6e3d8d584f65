-------------------------- MODULE ServiceGenerator --------------------------
(***************************************************************************)
(* The ServiceGenerator of one pass (prost.rs ServiceGenerator and its    *)
(* prost_build::ServiceGenerator impl), driven the way prost-build drives *)
(* it: for each file in order, generate() once per service in declaration *)
(* order, then finalize() once, appending to the buffer of the file's      *)
(* package.  One generator instance serves every file of the pass, so the *)
(* clients/servers buffers carry over from file to file unless finalize   *)
(* clears them.                                                            *)
(***************************************************************************)
EXTENDS Generation

CONSTANTS Files,          \* the pass's files: [package, services]
          Packages,       \* the packages, one output buffer each
          SettingsChoices \* the Builder snapshots the generator may hold

VARIABLES settings,  \* self.builder: the Builder the generator was made from
          prostWkt,  \* prost Config's compile_well_known_types for this pass
          clients,   \* self.clients, as the sequence of rendered client stubs
          servers,   \* self.servers
          file,      \* the file prost-build is generating
          svc,       \* the next service of that file
          buf,       \* prost's per-package output buffers
          panicked   \* an unwrap panicked; the build script aborted

vars == <<settings, prostWkt, clients, servers, file, svc, buf, panicked>>

\* ServiceGenerator::new: empty token streams.
Init ==
  /\ settings \in SettingsChoices
  /\ prostWkt \in BOOLEAN
  /\ clients = <<>>
  /\ servers = <<>>
  /\ file = 1
  /\ svc = 1
  /\ buf = [p \in Packages |-> <<>>]
  /\ panicked = FALSE

CurrentService == TonicBuildService(Files[file].services[svc], prostWkt)

GenerateEnabled ==
  /\ ~panicked
  /\ file \in DOMAIN Files
  /\ svc \in DOMAIN Files[file].services

\* generate(): render the server stub if build_server, then the client stub
\* if build_client, each appended to its own buffer.
generate ==
  /\ GenerateEnabled
  /\ Renders(settings) => Resolves(CurrentService, settings)
  /\ servers' = IF settings.build_server
                THEN Append(servers, ServerGenerate(CurrentService, settings))
                ELSE servers
  /\ clients' = IF settings.build_client
                THEN Append(clients, ClientGenerate(CurrentService, settings))
                ELSE clients
  /\ svc' = svc + 1
  /\ UNCHANGED <<settings, prostWkt, file, buf, panicked>>

\* generate() on a service whose request/response type does not parse as
\* a path: the unwrap in convert_type panics.
generatePanics ==
  /\ GenerateEnabled
  /\ Renders(settings)
  /\ ~Resolves(CurrentService, settings)
  /\ panicked' = TRUE
  /\ UNCHANGED <<settings, prostWkt, clients, servers, file, svc, buf>>

FinalizeEnabled ==
  /\ ~panicked
  /\ file \in DOMAIN Files
  /\ svc = Len(Files[file].services) + 1

\* Buffer contents finalize() pushes, and the buffer it leaves behind.
Flushed(enabled, stubs)   == IF enabled /\ stubs # <<>> THEN stubs ELSE <<>>
Remaining(enabled, stubs) == IF enabled /\ stubs # <<>> THEN <<>> ELSE stubs

\* Mutant: finalize() pushes the clients but never resets self.clients.
finalize_keeps_clients ==
  /\ FinalizeEnabled
  /\ buf' = [buf EXCEPT ![Files[file].package] =
                 @ \o Flushed(settings.build_client, clients)
                   \o Flushed(settings.build_server, servers)]
  /\ servers' = Remaining(settings.build_server, servers)
  /\ file' = file + 1
  /\ svc' = 1
  /\ UNCHANGED <<settings, prostWkt, clients, panicked>>

\* finalize(): if client code was built, parse it as a file, pretty-print
\* it and push it, then reset self.clients; the same for the servers.  The
\* parse/unparse round trip keeps the items and their order, which is all
\* the model keeps of the text.
finalize ==
  /\ FinalizeEnabled
  /\ buf' = [buf EXCEPT ![Files[file].package] =
                 @ \o Flushed(settings.build_client, clients)
                   \o Flushed(settings.build_server, servers)]
  /\ clients' = Remaining(settings.build_client, clients)
  /\ servers' = Remaining(settings.build_server, servers)
  /\ file' = file + 1
  /\ svc' = 1
  /\ UNCHANGED <<settings, prostWkt, panicked>>

Next == generate \/ generatePanics \/ finalize

\* prost-build drives the generator synchronously to the end of the pass.
Spec == Init /\ [][Next]_vars /\ WF_vars(Next)

\* The abstract pass seen through the generator: the files finalized so
\* far are the files emitted; the clients/servers buffers and the service
\* cursor are hidden.
Pass == INSTANCE PassSpec WITH emitted <- file - 1, out <- buf, aborted <- panicked

=============================================================================
