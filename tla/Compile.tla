------------------------------ MODULE Compile ------------------------------
(***************************************************************************)
(* The dual-emission orchestrator: Builder::compile_protos and            *)
(* compile_protos_with_config (prost.rs), run by a build script that may  *)
(* be run again after it ends, with the generated trees left on disk.     *)
(*                                                                         *)
(* compile builds one prost Config from the Builder's settings, runs the  *)
(* simulated pass with the madsim ServiceGenerator into <out>/sim, then   *)
(* hands the same Config to the wrapped tonic builder, which applies its  *)
(* own settings to it, installs the tonic ServiceGenerator and runs the   *)
(* production pass into <out>.  A pass is the atomic PassSpec step per    *)
(* file, folded over the files (PassBuffers); ServiceGenerator is checked *)
(* to implement it.                                                       *)
(***************************************************************************)
EXTENDS Builder, Generation, FiniteSets

CONSTANTS Files,     \* the .proto files compiled: [package, services]
          Packages,  \* their packages, one generated file each
          MaxRuns    \* bound on the build-script runs

\* The directory OUT_DIR names; out_dir() chooses one of OutDirs instead.
EnvOutDir == "OUT"
Roots == OutDirs \cup {EnvOutDir}
Dirs  == {<<r>> : r \in Roots} \cup {<<r, "sim">> : r \in Roots}
SimDir(r) == <<r, "sim">>

VARIABLES phase,      \* configuring, sim, prod, ok, err, panic
          config,     \* the prost Config being built and run
          root,       \* the output root compile resolved
          signals,    \* cargo:rerun-if-changed emissions in this run
          used,       \* the Config each pass ran with, in this run
          fs,         \* generated files: dir -> package -> content or None
          runs        \* build-script runs started

vars == <<builderVars, phase, config, root, signals, used, fs, runs>>

\* prost_build::Config::new()
ConfigNew ==
    [out_dir |-> None, file_descriptor_set_path |-> None,
     skip_protoc_run |-> FALSE, lists |-> [k \in ListKinds |-> <<>>],
     reprs |-> [k \in ReprKinds |-> None], compile_well_known_types |-> FALSE,
     include_file |-> None, service_generator |-> None]

\* A Config handed to compile_protos_with_config may already carry settings.
UserConfigs == {ConfigNew, [ConfigNew EXCEPT !.compile_well_known_types = TRUE]} \cup
               {[ConfigNew EXCEPT !.lists["extern_path"] = <<x>>] : x \in Items}

\* Copy a builder's settings into the Config: optional paths overwrite,
\* lists are appended, btree_map/bytes replace, flags are switched on.
\* The wrapped tonic builder's compile_protos_with_config does the same
\* with its own fields.
ApplySettings(cfg, s) ==
    [cfg EXCEPT
       !.file_descriptor_set_path = IF s.file_descriptor_set_path # None
                                    THEN s.file_descriptor_set_path ELSE @,
       !.skip_protoc_run = @ \/ s.skip_protoc_run,
       !.lists = [k \in ListKinds |-> @[k] \o s.lists[k]],
       !.reprs = [k \in ReprKinds |-> IF s.reprs[k] # None THEN s.reprs[k] ELSE @[k]],
       !.compile_well_known_types = @ \/ s.compile_well_known_types,
       !.include_file = IF s.include_file # None THEN s.include_file ELSE @]

\* The settings ServiceGenerator::generate passes to server::generate and
\* client::generate.
SimSettings(s) ==
    [build_client |-> s.build_client, build_server |-> s.build_server,
     emit_package |-> s.emit_package, proto_path |-> s.proto_path,
     compile_well_known_types |-> s.compile_well_known_types,
     client_attributes |-> s.client_attributes,
     server_attributes |-> s.server_attributes,
     use_arc_self |-> FALSE, generate_default_stubs |-> FALSE,
     disable_comments |-> {}, variant |-> "sim"]

\* The settings the tonic ServiceGenerator reads from the wrapped builder.
ProdSettings(s) ==
    [SimSettings(s) EXCEPT !.use_arc_self = s.use_arc_self,
                           !.generate_default_stubs = s.generate_default_stubs,
                           !.disable_comments = s.disable_comments,
                           !.variant = "prod"]

Init ==
  /\ BuilderInit
  /\ phase = "configuring"
  /\ config = ConfigNew
  /\ root = None
  /\ signals = 0
  /\ used = [p \in {"sim", "prod"} |-> None]
  /\ fs = [d \in Dirs |-> [p \in Packages |-> None]]
  /\ runs = 1

\* A setter call on the Builder, before compile consumes it.
ConfigureBuilder ==
  /\ phase = "configuring"
  /\ BuilderNext
  /\ UNCHANGED <<phase, config, root, signals, used, fs, runs>>

(***************************************************************************)
(* compile_protos(protos, includes) calls compile_protos_with_config with *)
(* Config::new(); compile_protos_with_config(config, ...) up to the first *)
(* pass: resolve the output root, create <root>/sim, copy every setting   *)
(* into the Config, print the rerun-if-changed lines, install the madsim  *)
(* ServiceGenerator.                                                       *)
(***************************************************************************)
OutRoot == IF b.out_dir # None THEN b.out_dir ELSE EnvOutDir

\* OUT_DIR is read with std::env::var("OUT_DIR").unwrap().
CompileOutDirPanics ==
  /\ phase = "configuring"
  /\ b.out_dir = None /\ ~env.out_dir
  /\ phase' = "panic"
  /\ UNCHANGED <<builderVars, config, root, signals, used, fs, runs>>

\* std::fs::create_dir_all(&out_dir_sim)? fails.
CompileMkdirFails ==
  /\ phase = "configuring"
  /\ b.out_dir # None \/ env.out_dir
  /\ phase' = "err"
  /\ root' = OutRoot
  /\ UNCHANGED <<builderVars, config, signals, used, fs, runs>>

\* Mutant: the simulated pass targets the root itself (no join("sim")).
compile_protos_with_config_no_sim ==
  /\ phase = "configuring"
  /\ b.out_dir # None \/ env.out_dir
  /\ \E user \in UserConfigs :
       config' = [ApplySettings([user EXCEPT !.out_dir = <<OutRoot>>], b)
                  EXCEPT !.service_generator = SimSettings(b)]
  /\ root' = OutRoot
  /\ signals' = IF b.emit_rerun_if_changed THEN signals + 1 ELSE signals
  /\ phase' = "sim"
  /\ UNCHANGED <<builderVars, used, fs, runs>>

compile_protos_with_config ==
  /\ phase = "configuring"
  /\ b.out_dir # None \/ env.out_dir
  /\ \E user \in UserConfigs :
       config' = [ApplySettings([user EXCEPT !.out_dir = SimDir(OutRoot)], b)
                  EXCEPT !.service_generator = SimSettings(b)]
  /\ root' = OutRoot
  /\ signals' = IF b.emit_rerun_if_changed THEN signals + 1 ELSE signals
  /\ phase' = "sim"
  /\ UNCHANGED <<builderVars, used, fs, runs>>

(***************************************************************************)
(* Config::compile_protos, at its boundary: protoc may fail; the service  *)
(* generator panics on a type that does not resolve; otherwise the        *)
(* package files are written one by one, and a write may fail after some  *)
(* of them were written.                                                   *)
(***************************************************************************)
PassOutput(cfg) == PassBuffers(Files, cfg.service_generator,
                               cfg.compile_well_known_types,
                               [p \in Packages |-> <<>>])

Write(dir, pkgs, out) ==
    fs' = [fs EXCEPT ![dir] = [p \in Packages |-> IF p \in pkgs THEN out[p] ELSE @[p]]]

RunProst(cfg, success) ==
  \/ /\ phase' = "err"                                   \* protoc failed
     /\ UNCHANGED fs
  \/ /\ ~PassResolves(Files, cfg.service_generator, cfg.compile_well_known_types)
     /\ phase' = "panic"
     /\ UNCHANGED fs
  \/ /\ PassResolves(Files, cfg.service_generator, cfg.compile_well_known_types)
     /\ \E written \in SUBSET Packages :
          /\ Write(cfg.out_dir, written, PassOutput(cfg))
          /\ phase' = IF written = Packages THEN success ELSE "err"

\* config.compile_protos(protos, includes)?
SimPass ==
  /\ phase = "sim"
  /\ used' = [used EXCEPT !["sim"] = config]
  /\ RunProst(config, "prod")
  /\ UNCHANGED <<builderVars, config, root, signals, runs>>

\* The wrapped tonic builder's compile_protos_with_config: its out_dir (or
\* OUT_DIR), its settings applied on top, its rerun-if-changed lines, its
\* ServiceGenerator.
TonicConfig(cfg) ==
    [ApplySettings(cfg, inner) EXCEPT
       !.out_dir = <<IF inner.out_dir # None THEN inner.out_dir ELSE EnvOutDir>>,
       !.service_generator = ProdSettings(inner)]

\* config.out_dir(out_dir); builder.compile_protos_with_config(config, ...)?
ProdPass ==
  /\ phase = "prod"
  /\ inner.out_dir # None \/ env.out_dir
  /\ LET cfg == TonicConfig([config EXCEPT !.out_dir = <<root>>]) IN
       /\ config' = cfg
       /\ used' = [used EXCEPT !["prod"] = cfg]
       /\ signals' = IF inner.emit_rerun_if_changed THEN signals + 1 ELSE signals
       /\ RunProst(cfg, "ok")
  /\ UNCHANGED <<builderVars, root, runs>>

\* The build script runs again (cargo reruns it) in the same environment,
\* with a fresh Builder; what earlier runs wrote stays on disk.
Rerun ==
  /\ phase \in {"ok", "err", "panic"}
  /\ runs < MaxRuns
  /\ runs' = runs + 1
  /\ b' = Configure(env.cargo)
  /\ inner' = Configure(env.cargo)
  /\ phase' = "configuring"
  /\ config' = ConfigNew
  /\ root' = None
  /\ signals' = 0
  /\ used' = [p \in {"sim", "prod"} |-> None]
  /\ UNCHANGED <<env, calls, fs>>

Next ==
  \/ ConfigureBuilder
  \/ CompileOutDirPanics \/ CompileMkdirFails \/ compile_protos_with_config
  \/ SimPass \/ ProdPass \/ Rerun

Spec == Init /\ [][Next]_vars

(***************************************************************************)
(* Properties                                                              *)
(***************************************************************************)
Finished == phase = "ok"
SimTree  == fs[SimDir(root)]
ProdTree == fs[<<root>>]

\* The Config without the two things the passes may differ in.
Unwired(cfg) == [cfg EXCEPT !.out_dir = None, !.service_generator = None]

\* The two passes of one compile run prost with the same Config except for
\* its output directory and service generator: every setting copied from
\* the Builder in compile_protos_with_config reaches the production pass
\* exactly once, although the wrapped tonic builder re-applies its own
\* settings to that Config (spec 3, the parity invariant).
ConfigParity ==
  Finished => Unwired(used["sim"]) = Unwired(used["prod"])

\* After a successful compile, <root>/sim holds this run's simulated output
\* and <root> this run's production output, for every package, whatever
\* earlier runs that failed part-way left behind: the production pass
\* writes where the Builder's out_dir (or OUT_DIR) says, and the simulated
\* pass into its sim subdirectory.
TreesCurrent ==
  Finished => /\ SimTree = PassOutput(used["sim"])
              /\ ProdTree = PassOutput(used["prod"])

Untagged(out) ==
  [p \in Packages |-> [i \in DOMAIN out[p] |-> [out[p][i] EXCEPT !.variant = "any"]]]

\* With the settings that only one generator honours left at their
\* defaults, the simulated and production trees are the same stubs, in the
\* same order, with the same resolved types, routes and attributes; only
\* the transport generator differs (spec 3).
DefaultsParity ==
  (/\ Finished /\ ~b.compile_well_known_types /\ ~b.use_arc_self
   /\ ~b.generate_default_stubs /\ b.disable_comments = {})
    => Untagged(SimTree) = Untagged(ProdTree)

RpcsOf(out) == [p \in Packages |-> [i \in DOMAIN out[p] |-> out[p][i].rpcs]]

\* Every request/response type is the same reference in both trees, for
\* every compile_well_known_types setting (spec 3 and 8: parity, the
\* well-known-type rule "in both passes").
WellKnownTypeParity ==
  Finished => RpcsOf(SimTree) = RpcsOf(ProdTree)

ShapeOf(out) ==
  [p \in Packages |-> [i \in DOMAIN out[p] |-> <<out[p][i].arc_self, out[p][i].default_stubs>>]]

\* The server traits of both trees have the same receiver type and the same
\* default method bodies (use_arc_self, generate_default_stubs; spec 3).
ServerTraitParity ==
  Finished => ShapeOf(SimTree) = ShapeOf(ProdTree)

DocsOf(out) == [p \in Packages |-> [i \in DOMAIN out[p] |-> out[p][i].docs]]

\* Both trees keep or drop the same service doc comments: the comment
\* scopes disabled with disable_comments are part of the configuration
\* both passes share (spec 3, disabled_comment_scopes).
CommentParity ==
  Finished => DocsOf(SimTree) = DocsOf(ProdTree)

\* The simulated tree references every request/response type the way the
\* Config its pass ran with generated it: as a generator whose
\* compile_well_known_types agrees with that Config would resolve it, also
\* when the caller's Config already compiles the well-known types (spec 8,
\* the well-known-type rule; compile_protos_with_config's config argument).
SimTypesMatchConfig ==
  Finished =>
    LET cfg == used["sim"] IN
      RpcsOf(SimTree) =
        RpcsOf(PassOutput([cfg EXCEPT !.service_generator.compile_well_known_types =
                                        cfg.compile_well_known_types]))

\* A compile prints the rerun-if-changed lines once if
\* emit_rerun_if_changed is on and not at all if it is off (spec 4.3
\* step 4: once, not per pass).
RerunSignalsOnce ==
  Finished => signals = IF b.emit_rerun_if_changed THEN 1 ELSE 0

\* File-system writes are pass-local (spec 5): the simulated pass writes
\* only into <root>/sim and the production pass only into <root>, the root
\* compile_protos_with_config resolved, although the wrapped builder
\* resolves its output directory again from its own out_dir or OUT_DIR.
WritesOwnTree ==
  [][/\ phase = "sim"  => \A d \in Dirs \ {SimDir(root)} : fs'[d] = fs[d]
     /\ phase = "prod" => \A d \in Dirs \ {<<root>>} : fs'[d] = fs[d]]_vars

\* Every failure of compile is returned to the build script as an
\* io::Error, never a panic (spec 6 and 7).
FailuresAreErrors == phase # "panic"

=============================================================================
