----------------------------- MODULE MCCompile -----------------------------
(***************************************************************************)
(* The orchestrator on the Fixtures files: up to MaxCalls setter calls in *)
(* all, over at most MaxRuns runs of the build script.                     *)
(***************************************************************************)
EXTENDS Compile, Fixtures

MCProtoPaths == {<<"crate", "::", "pb">>, <<"super", "::">>}

\* disable_comments is called with the path of the first service.
MCServicePaths == {<<"helloworld", "Greeter">>}

=============================================================================
