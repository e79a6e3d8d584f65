------------------------- MODULE MCServiceGenerator -------------------------
(***************************************************************************)
(* One pass over three files: two of package helloworld with services,    *)
(* between them a file of package routeguide with none, so the generator  *)
(* buffers must be flushed and cleared per file, and a package buffer      *)
(* receives the output of two files.                                      *)
(***************************************************************************)
EXTENDS ServiceGenerator, Fixtures

\* Builder snapshots: every combination of the settings the madsim
\* generator reads, with the default and a malformed proto_path.
MCSettings ==
  [build_client : BOOLEAN, build_server : BOOLEAN, emit_package : BOOLEAN,
   proto_path : {<<"super">>, <<"super", "::">>},
   compile_well_known_types : BOOLEAN,
   client_attributes : {[module |-> <<>>, struct |-> <<"a1">>]},
   server_attributes : {[module |-> <<>>, struct |-> <<>>]},
   use_arc_self : {FALSE}, generate_default_stubs : {FALSE},
   disable_comments : {{}}, variant : {"sim"}]

\* The generator, driven service by service and file by file with its
\* buffers carried across files, implements the one-step-per-file pass of
\* PassSpec: each package buffer receives, per file, the clients and then
\* the servers of exactly that file's services (finalize's flush-and-reset
\* in ServiceGenerator::finalize).  Under the weak fairness of both
\* specifications the refinement includes liveness: every file of the pass
\* is eventually finalized, unless a generate call panicked.
PassRefinement == Pass!Spec

=============================================================================
