# TLA+ models of madsim-tonic-build (`src/madsim-tonic-build/src/prost.rs`)

madsim-tonic-build is the build-script code generator for gRPC services.
From one `.proto` compilation and one `Builder` it writes two trees:

- a simulated tree under `<out>/sim`, rendered by madsim's own `ServiceGenerator`;
- a production tree under `<out>`, rendered by the wrapped `tonic_build::Builder`.

The two trees are meant to be identical except for transport wiring (spec §3).
The program is single-threaded and synchronous. Its hard parts are not
interleavings. They are these:

- settings that must reach two builders and two passes;
- one generator instance carrying buffers from file to file;
- a type-path resolver with several special cases;
- failures part-way through two passes, with files left on disk between
  build-script runs.

## 1. Inventory

| Component | Code | State | Operations | Interacts with |
|---|---|---|---|---|
| Type reference resolver | `convert_type`, `is_google_type`, `NON_PATH_TYPE_ALLOWLIST` (l. 63–64, 153–189) | none (pure) | `request_response_name` → two type references | called by client/server generators once per method |
| Service/method adapter | `TonicBuildService`, `TonicBuildMethod` (l. 66–185) | the wrapped prost `Service`/`Method`, methods in declaration order | `new`, accessors (`name`, `package`, `methods`, streaming flags, comments); `codec_path` is `unreachable!()` | read by `client::generate`/`server::generate` |
| ServiceGenerator (per pass) | l. 191–263 | `builder` snapshot, `clients` and `servers` token buffers | `generate(service)` once per service; `finalize(buf)` once per file | driven by prost-build; appends to prost's per-package buffer |
| Builder | `configure()` and setters (l. 15–44, 265–586) | ~25 settings, plus the wrapped `tonic_build::Builder` | every setter. Some forward to the wrapped builder (build flags, out_dir, attributes, proto_path, comments, arc self, package emission, default stubs). The others only record (extern paths and type/field/message/enum attributes, boxed, btree_map/bytes, protoc args, include file, descriptor set, skip protoc, compile_well_known_types, emit_rerun_if_changed) | consumed by `compile_protos_with_config` |
| Dual-emission orchestrator | `compile_protos`, `compile_protos_with_config` (l. 46–61, 589–680) | one prost `Config`, the output root | resolve root (`OUT_DIR` unwrap), `create_dir_all(<root>/sim)`, copy settings into Config, print rerun-if-changed, pass 1 (sim), retarget, pass 2 via the wrapped builder | prost-build (protoc, generation, file writes), tonic-build, the file system, cargo via stdout |

External collaborators modelled only at their boundary:

- prost-build's `Config::compile_protos` (protoc, generation order, per-package file writes);
- tonic-build's `compile_protos_with_config`. It applies the wrapped builder's own settings to the Config it is given, resolves its own output directory, prints its own rerun-if-changed lines and installs its generator;
- `client::generate` and `server::generate`. These are not under `src/` and are modelled from the spec.

What makes each component correct:

- **Resolver.** Well-known types are unprefixed exactly when prost-types supplies them. Local types go through `proto_path`. Absolute, `crate::` and `()` types are taken as they are. No `unwrap` panics on inputs prost can produce.
- **ServiceGenerator.** Each file's output is the clients and then the servers of exactly that file's services, in declaration order.
- **Builder + orchestrator.** The two passes run with the same Config apart from output directory and generator. The generators see the same settings. A successful run leaves both trees current. Rerun lines are printed once. Failures are returned as `io::Error`.

## 2. Plan

Modules, in the order written, most important first:

1. `Resolver` (pure operators) with `MCResolver`. Done.
2. `Generation` (adapter and stub rendering, the per-file pass promise),
   `PassSpec` (abstract pass) and `ServiceGenerator` (detailed generator
   driven by prost), with `MCServiceGenerator` checking the refinement. Done.
3. `Builder` (configure and every setter, wrapped builder included). Done.
4. `Compile` (orchestrator; EXTENDS `Builder` and `Generation`). It uses the
   pass as the `PassBuffers` fold that `ServiceGenerator` is shown to refine.
   `MCCompile` runs it over `Fixtures`. Done.

5. A refinement mapping from `ServiceGenerator` to an abstract `PassSpec`
   with its own variables and fairness, so the refinement also checks that
   every pass ends. Since `PassSpec` emits each file as one step of the
   `FileOutput` the `PassBuffers` fold concatenates, `Compile` uses the fold
   for a pass. Done.
6. Pass-local writes (`WritesOwnTree`), an action property over `Compile`.
   Done.

7. `disable_comments` carried into the stubs as `docs`. `CommentParity`
   compares the two trees. Done.

8. Idempotence (spec §8) is not checked: rewriting a package file is
   prost-build's code, so the property would hold whatever the madsim code
   does.
9. A caller Config that already compiles the well-known types
   (`SimTypesMatchConfig`). Done.

What stays out, and why, is listed at the end of section 5. The plan has
nothing left that can be modelled faithfully from this repository.

## 3. Modules

- `Resolver.tla`: `is_google_type`, `NON_PATH_TYPE_ALLOWLIST`, `convert_type`
  and `request_response_name`.
  - Type names are sequences of word tokens (`<<".", "google", ".", "protobuf", ".", "Empty">>`), not characters.
  - `starts_with` is `IsPrefix`.
  - `syn::parse_str::<syn::Path>` is modelled by what it accepts: an optional leading `::`, then segments separated by `::`.
  - `str::parse::<TokenStream>` always succeeds on word tokens.
- `Generation.tla`:
  - `TonicBuildService::new` and the method wrapper. A prost method's Rust type is kept as a function of the Config's `compile_well_known_types`, because prost chooses it that way.
  - The stub facts `client::generate`/`server::generate` render: service, route, resolved types, attributes, server receiver and default bodies, generator variant.
  - The pass promise `FileOutput`/`PassBuffers`.
- `PassSpec.tla`: the abstract pass.
  - Its variables are `emitted` (files done), `out` (package buffers) and
    `aborted`.
  - One step per file appends that file's output to its package buffer, or
    the pass aborts.
  - `WF` on `Next`: the pass never stops while a file is left.
- `ServiceGenerator.tla`: the generator with the `clients`/`servers` buffers.
  - `generate` and `finalize` are actions. `generatePanics` is the `unwrap` in `convert_type`.
  - Guards on `file`/`svc` encode prost-build's driving order: services of a file in order, then `finalize`, file by file.
  - `Pass == INSTANCE PassSpec WITH emitted <- file - 1, out <- buf, aborted <- panicked`.
    The buffers `clients`/`servers` and the service cursor `svc` are hidden.
    A `generate` step is a stutter of the abstract pass, and a `finalize`
    step is one `EmitFile`.
- `Builder.tla`:
  - `b` is the madsim Builder and `inner` the wrapped tonic builder, both starting from `configure()`.
  - `emit_rerun_if_changed` defaults to whether `CARGO` is set, in both.
  - One action per setter, or per group of setters with identical code: `SetBuildFlag`, `AppendSetting`, `SetRepr`, `PushAttribute`.
  - `Forwarded` vs `Own` says whether the setter also updates the wrapped builder.
- `Compile.tla`: `compile_protos_with_config` (entered with `Config::new()` from `compile_protos`, or a user Config that already holds settings).
  - `CompileOutDirPanics` is the `OUT_DIR` unwrap and `CompileMkdirFails` the `create_dir_all` error.
  - `SimPass` is `config.compile_protos`.
  - `ProdPass` is the retarget and the wrapped builder's compile. `TonicConfig` is what tonic does to the Config.
  - `RunProst` gives the outcomes of a prost run: protoc error; generator panic when a type does not resolve; package files written one by one, where a failed write leaves a subset written.
  - `Rerun` is a new build-script run over the same disk. It models cargo,
    not code of the repository, so it has no entry in the map.
- `Fixtures.tla`: three files. Two are in package `helloworld`: Greeter and Echo
  in one, Health in the other. Between them is a `routeguide` file with no
  services. Health and Echo use `google.protobuf.Empty`.

## 4. Runs

| Run | Checks | Result / what it shows |
|---|---|---|
| `resolver` (MCResolver.cfg) | `ResolvedRefsParse`, `WellKnownTypeRule` | pass. Every realistic type use, for three `proto_path`s and both wkt settings. No panic with a well-formed `proto_path`. Well-known types follow spec §8. |
| `resolver_lookalike` | `LocalTypesPrefixed` | violation. See finding 1. |
| `service_generator` | `PassRefinement` | pass. For all 32 generator settings and both prost wkt values, the buffered generator refines `PassSpec`, its fairness included, so every file is finalized unless a `generate` panics. The empty `routeguide` file and the two `helloworld` files exercise flush, skip and reset. |
| `compile` | `ConfigParity`, `TreesCurrent`, `DefaultsParity`, `WritesOwnTree` | pass. The simulated pass writes only `<root>/sim` and the production pass only `<root>` (spec §5). `DefaultsParity` compares the trees when every setting that only one generator honours is at its default (`compile_well_known_types`, `use_arc_self`, `generate_default_stubs`, `disable_comments`). 310,554 states: ≤2 setter calls in all, ≤2 runs, both env settings, caller Configs that are new, carry a preset extern path, or already compile the well-known types, every failure outcome. |
| `compile_wkt_parity` | `WellKnownTypeParity` | violation. See finding 2. |
| `compile_trait_parity` | `ServerTraitParity` | violation. See finding 3. |
| `compile_rerun_signals` | `RerunSignalsOnce` | violation. See finding 4. |
| `compile_panics` | `FailuresAreErrors` | violation. See finding 5. |
| `compile_comment_parity` | `CommentParity` | violation. See finding 6. |
| `compile_sim_types` | `SimTypesMatchConfig` | violation. See finding 7. |

Each passing property has a mutant, listed in PROJECT.json, that TLC catches:

- `convert_type` without the allow-list;
- `convert_type` ignoring `compile_well_known_types`;
- `finalize` that never clears `clients`;
- `compile_protos_with_config` that targets the root instead of `<root>/sim`;
- list setters also forwarded to the wrapped builder (extern paths then applied twice in pass 2);
- `out_dir` not forwarded;
- `proto_path` not forwarded.

### Findings

1. `is_google_type` (l. 188) is a raw prefix test. A message of package
   `google.protobuf_ext` counts as well-known, and its relative type is
   emitted without `proto_path`.
2. `compile_well_known_types` (l. 542) is never forwarded. Turned on:
   - pass 1 resolves `Empty` as `super::super::google::protobuf::Empty`;
   - pass 2 keeps the Config's compiled well-known types but resolves them unprefixed as `super::google::protobuf::Empty`.

   The two trees differ, and the production one points at the wrong module.
3. The simulated generator (l. 212–228) is never given `use_arc_self` or
   `generate_default_stubs`, so server traits differ between trees. This
   assumes madsim's `server::generate`, which is not in `src/`, renders the
   defaults (`&self`, no default bodies).
4. The rerun-if-changed lines (l. 658) are printed again by the wrapped
   builder. Its `emit_rerun_if_changed` defaults from `CARGO` and is never
   forwarded.
5. Missing `OUT_DIR` (l. 610) and a malformed `proto_path` (l. 170) panic.
   They are not returned as `io::Error`.
6. `disable_comments` (l. 516–519) reaches only the wrapped builder. The
   madsim generator is never given the set (l. 210–230).
   - The production stubs of a listed service drop its doc comments, while
     the simulated ones keep them.
   - Spec §3 lists `disabled_comment_scopes` among the settings both passes
     share.
   - Like finding 3, this assumes madsim's generators render service doc
     comments, as tonic's do.
7. A caller's Config may already have `compile_well_known_types` on.
   - `compile_protos_with_config` only ever switches that flag on in the
     Config (l. 645–647). It never reads it back.
   - The generator resolves types with the Builder's flag (l. 214, 224).
   - So prost compiles `google.protobuf.Empty` locally, but the simulated
     stubs reference it as if prost-types supplied it, without `proto_path`.
     The production stubs do the same.
   - The spec's well-known-type rule (§8) names one flag and does not say
     which governs when the two disagree. This is a gap in the spec.

## 5. Bounds, fairness, what is left out

- **Bounds.**
  - `MaxCalls = 2` setter calls per behaviour, across runs. One call reaches every single-setting divergence. Two calls combine a setting with `out_dir` or repeat a list or replace setting. With only the new Config and the extern-path Config as caller Configs, the `compile` run's properties also held at `MaxCalls = 3`. That check took 4 min 25 s, too long for the regular run. It has not been repeated with the third caller Config.
  - `MaxRuns = 2`. One earlier run can leave partial or stale trees before a successful one.
  - One item value suffices, because lists are compared positionally.
  - Two packages: a package receiving two files, and one receiving none of the services.
  - `disable_comments` is called with the path of one service, `helloworld.Greeter`. This is enough for a listed and an unlisted service in the same file.
- **Fairness.** The passes are straight-line code. `ServiceGenerator.Spec` has `WF_vars(Next)` because prost-build drives the generator to the end of the pass. The one liveness check is inside `PassRefinement`. `PassSpec`'s weak fairness must follow from `ServiceGenerator`'s. A generator whose `finalize` is never enabled fails it with a stuttering counterexample. `Compile` states no fairness: each of its steps is atomic and every behaviour is finite, so termination there is structural. `CHECK_DEADLOCK FALSE` is set where the program really stops: after the last file of a pass, and after the last build-script run.
- **Not modelled.**
  - Token text, comment text and `prettyplease` layout. A stub only records
    whether it carries its service's doc comment (`docs`). Method-level
    comment scopes are left out.
  - `build_transport`. It is transport wiring, which is allowed to differ.
  - The `Attributes` pattern matching. Stubs carry the attribute lists as given.
  - protoc itself, the descriptor-set file and the include file. Only their failure is modelled.
    - The madsim code's whole part in them is copying `file_descriptor_set_path`,
      `skip_protoc_run` and `include_file` into the Config (l. 616–621, 650–652).
      That copy is in `ApplySettings` and checked by `ConfigParity`.
    - What prost-build does with them afterwards is code outside `src/`. Modelling
      it would mean guessing that code, not translating it.
  - `client::generate`, `server::generate`, prost-build and tonic-build. They
    are not in `src/`, so they stay at their boundary (components marked
    "partly"): the facts a stub carries, and the settings tonic applies.
  - Streaming flags. The madsim code only passes them through the adapter, and
    no property compares them.
