----------------------------- MODULE MCResolver -----------------------------
(***************************************************************************)
(* Checks request_response_name over every method a small protobuf file   *)
(* set can give it: each type use pairs a protobuf name with the Rust type *)
(* prost-build produces for it under a compile_well_known_types setting.   *)
(***************************************************************************)
EXTENDS Resolver, FiniteSets

\* The proto_path settings a build script may pass to Builder::proto_path:
\* the default "super", a crate path, and a malformed "super::".
ProtoPaths == {<<"super">>, <<"crate", "::", "pb">>, <<"super", "::">>}

GoogleName(t)    == <<".", "google", ".", "protobuf", ".", t>>
WellKnownName(n) == \E t \in {"Empty", "Timestamp", "BoolValue"} : n = GoogleName(t)

\* Protobuf type, the Rust type prost-build gives it, and the
\* compile_well_known_types setting under which it gives that type.
TypeUses ==
  { [proto |-> GoogleName("Empty"), rust |-> <<"()">>, wkt |-> FALSE],
    [proto |-> GoogleName("Empty"),
     rust |-> <<"super", "::", "google", "::", "protobuf", "::", "Empty">>, wkt |-> TRUE],
    [proto |-> GoogleName("Timestamp"),
     rust |-> <<"::", "prost_types", "::", "Timestamp">>, wkt |-> FALSE],
    [proto |-> GoogleName("BoolValue"), rust |-> <<"bool">>, wkt |-> FALSE],
    [proto |-> <<".", "helloworld", ".", "HelloRequest">>, rust |-> <<"HelloRequest">>, wkt |-> FALSE],
    [proto |-> <<".", "helloworld", ".", "HelloRequest">>, rust |-> <<"HelloRequest">>, wkt |-> TRUE],
    [proto |-> <<".", "other", ".", "Foo">>, rust |-> <<"super", "::", "other", "::", "Foo">>, wkt |-> FALSE],
    \* extern_path(".ext", "::ext_crate"), extern_path(".shared", "crate::shared"),
    \* extern_path(".unit.Unit", "()")
    [proto |-> <<".", "ext", ".", "Foo">>, rust |-> <<"::", "ext_crate", "::", "Foo">>, wkt |-> FALSE],
    [proto |-> <<".", "shared", ".", "Bar">>, rust |-> <<"crate", "::", "shared", "::", "Bar">>, wkt |-> TRUE],
    [proto |-> <<".", "unit", ".", "Unit">>, rust |-> <<"()">>, wkt |-> TRUE],
    \* a local message of a package whose name merely starts with "protobuf"
    [proto |-> <<".", "google", ".", "protobuf", "_ext", ".", "Msg">>, rust |-> <<"Msg">>, wkt |-> FALSE] }

\* A method of the file set: its input and output type uses share the
\* pass's compile_well_known_types setting.
Methods ==
  { [input_proto_type |-> i.proto, input_type |-> i.rust,
     output_proto_type |-> o.proto, output_type |-> o.rust, wkt |-> i.wkt] :
       <<i, o>> \in {p \in TypeUses \X TypeUses : p[1].wkt = p[2].wkt} }

VARIABLES query, answer
vars == <<query, answer>>

Queries == [method : Methods, proto_path : ProtoPaths]

Answer(q) == request_response_name(q.method, q.proto_path, q.method.wkt)

Init ==
  /\ query \in Queries
  /\ answer = Answer(query)

\* One call of request_response_name by client::generate or server::generate.
Resolve ==
  \E q \in Queries :
    /\ query' = q
    /\ answer' = Answer(q)

Spec == Init /\ [][Resolve]_vars

Half(q, i) ==
  IF i = 1 THEN [proto |-> q.method.input_proto_type, rust |-> q.method.input_type]
           ELSE [proto |-> q.method.output_proto_type, rust |-> q.method.output_type]

Relative(r) ==
  ~IsPrefix(<<"::">>, r) /\ ~IsPrefix(<<"crate", "::">>, r) /\ r \notin NON_PATH_TYPE_ALLOWLIST

\* With a well-formed proto_path, every type prost-build can hand to
\* convert_type resolves to a parseable reference, so none of the unwraps
\* in convert_type panics (the non-path "()" included).
ResolvedRefsParse ==
  IsSynPath(query.proto_path) => answer[1].ok /\ answer[2].ok

\* A well-known type (package exactly google.protobuf) resolves unprefixed
\* when the pass uses prost-types, and through proto_path when the pass
\* compiles the well-known types itself (spec: well-known-type rule).
WellKnownTypeRule ==
  \A i \in 1..2 :
    LET h == Half(query, i) IN
    WellKnownName(h.proto) =>
      answer[i].tokens = IF ~query.method.wkt \/ ~Relative(h.rust)
                         THEN h.rust
                         ELSE query.proto_path \o <<"::">> \o h.rust

\* A relative Rust type of a message that is not a well-known type is
\* always reached through proto_path: the generated stub lives in its own
\* module and the message one level up (spec 4.1 rule 3).
LocalTypesPrefixed ==
  \A i \in 1..2 :
    LET h == Half(query, i) IN
    (~WellKnownName(h.proto) /\ Relative(h.rust)) =>
      answer[i].tokens = query.proto_path \o <<"::">> \o h.rust

=============================================================================
