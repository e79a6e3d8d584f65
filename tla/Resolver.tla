------------------------------ MODULE Resolver ------------------------------
(***************************************************************************)
(* Request/response type resolution of madsim-tonic-build (prost.rs,       *)
(* TonicBuildMethod::request_response_name and its closure convert_type,   *)
(* is_google_type and NON_PATH_TYPE_ALLOWLIST).                            *)
(*                                                                         *)
(* Type names are abstracted to sequences of lexical word tokens, never    *)
(* characters: the protobuf name ".google.protobuf.Empty" is               *)
(* <<".", "google", ".", "protobuf", ".", "Empty">> and the Rust path      *)
(* "::prost_types::Timestamp" is <<"::", "prost_types", "::", "Timestamp">>.*)
(* A string prefix test on such names is IsPrefix on the token sequences;  *)
(* the tokenisation keeps word boundaries where the code's prefixes end,   *)
(* so "protobuf_ext" is the two tokens "protobuf", "_ext", and a prefix    *)
(* test that ignores the segment boundary is visible to the model.         *)
(***************************************************************************)
EXTENDS Sequences, Naturals, SequencesExt

\* Tokens that are punctuation rather than path segments.
Punct == {"::", ".", "()"}

\* NON_PATH_TYPE_ALLOWLIST: the Rust types that are not paths but are
\* accepted as request/response types: only "()".
NON_PATH_TYPE_ALLOWLIST == {<<"()">>}

\* is_google_type: ty.starts_with(".google.protobuf") on the string.
is_google_type(ty) == IsPrefix(<<".", "google", ".", "protobuf">>, ty)

\* syn::parse_str::<syn::Path>: succeeds iff the tokens are an optional
\* leading "::" followed by segments separated by "::".  The parsed path
\* is the token stream of the same path; a failure is an Err that the
\* code unwraps.
IsSynPath(t) ==
    LET body == IF t # <<>> /\ t[1] = "::" THEN Tail(t) ELSE t
    IN /\ Len(body) % 2 = 1
       /\ \A i \in 1..Len(body) : (body[i] = "::") <=> (i % 2 = 0)
       /\ \A i \in 1..Len(body) : i % 2 = 1 => body[i] \notin Punct

ParsePath(t) == [ok |-> IsSynPath(t), tokens |-> t]

\* str::parse::<TokenStream>: lexing fails only on unbalanced delimiters,
\* which word-token names cannot contain, so it always succeeds here.
ParseTokenStream(t) == [ok |-> TRUE, tokens |-> t]

\* Mutant: the NON_PATH_TYPE_ALLOWLIST test dropped from the first branch.
convert_type_no_allowlist(proto_type, rust_type, proto_path, compile_well_known_types) ==
    IF \/ is_google_type(proto_type) /\ ~compile_well_known_types
       \/ IsPrefix(<<"::">>, rust_type)
    THEN ParseTokenStream(rust_type)
    ELSE IF IsPrefix(<<"crate", "::">>, rust_type)
    THEN ParsePath(rust_type)
    ELSE ParsePath(proto_path \o <<"::">> \o rust_type)

\* Mutant: every google.protobuf type taken verbatim, whatever
\* compile_well_known_types says.
convert_type_ignore_wkt(proto_type, rust_type, proto_path, compile_well_known_types) ==
    IF \/ is_google_type(proto_type)
       \/ IsPrefix(<<"::">>, rust_type)
       \/ rust_type \in NON_PATH_TYPE_ALLOWLIST
    THEN ParseTokenStream(rust_type)
    ELSE IF IsPrefix(<<"crate", "::">>, rust_type)
    THEN ParsePath(rust_type)
    ELSE ParsePath(proto_path \o <<"::">> \o rust_type)

\* convert_type(proto_type, rust_type), with the closure's captured
\* proto_path and compile_well_known_types made explicit.
convert_type(proto_type, rust_type, proto_path, compile_well_known_types) ==
    IF \/ is_google_type(proto_type) /\ ~compile_well_known_types
       \/ IsPrefix(<<"::">>, rust_type)
       \/ rust_type \in NON_PATH_TYPE_ALLOWLIST
    THEN ParseTokenStream(rust_type)
    ELSE IF IsPrefix(<<"crate", "::">>, rust_type)
    THEN ParsePath(rust_type)
    ELSE ParsePath(proto_path \o <<"::">> \o rust_type)

\* request_response_name: both halves resolved independently.  A method
\* is a record with input/output protobuf names and the Rust types that
\* prost-build gave them.
request_response_name(m, proto_path, compile_well_known_types) ==
    <<convert_type(m.input_proto_type, m.input_type,
                   proto_path, compile_well_known_types),
      convert_type(m.output_proto_type, m.output_type,
                   proto_path, compile_well_known_types)>>

=============================================================================
