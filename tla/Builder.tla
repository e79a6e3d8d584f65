------------------------------ MODULE Builder ------------------------------
(***************************************************************************)
(* The madsim-tonic-build Builder (prost.rs configure() and the setters of *)
(* impl Builder).  The Builder keeps its own copy of every setting and     *)
(* wraps the production tonic_build::Builder (field `builder`); some       *)
(* setters forward the setting to the wrapped builder as well, the others  *)
(* only record it.  The wrapped builder is modelled by the same record of  *)
(* settings, starting from tonic_build::configure()'s defaults.            *)
(*                                                                         *)
(* Paths, attribute texts and patterns are model values; a list setting is *)
(* a sequence of them.                                                     *)
(***************************************************************************)
EXTENDS Naturals, Sequences

CONSTANTS None,         \* Option::None
          Items,        \* (pattern, attribute) pairs, paths, protoc args
          ProtoPathValues, \* arguments to proto_path(), as token sequences
          OutDirs,      \* arguments to out_dir()
          FilePaths,    \* arguments to file_descriptor_set_path / include_file
          ServicePaths, \* arguments to disable_comments: <<package, service>>
          MaxCalls      \* bound on the number of setter calls

\* The settings kept as ordered lists, appended to by their setters.
ListKinds == {"extern_path", "field_attributes", "type_attributes",
              "message_attributes", "enum_attributes", "boxed", "protoc_args"}
\* The settings whose setter replaces the whole list (btree_map, bytes).
ReprKinds == {"btree_map", "bytes"}
\* Attributes: module-level and struct-level (pattern, attribute) lists.
NoAttributes == [module |-> <<>>, struct |-> <<>>]

VARIABLES env,    \* the build script's environment: CARGO and OUT_DIR set?
          b,      \* the madsim Builder's own fields
          inner,  \* the wrapped tonic_build::Builder's fields
          calls   \* setter calls made so far

builderVars == <<env, b, inner, calls>>

\* configure(), and tonic_build::configure() for the wrapped builder: both
\* default emit_rerun_if_changed to whether CARGO is set.
Configure(cargo) ==
    [build_client |-> TRUE, build_server |-> TRUE, build_transport |-> TRUE,
     file_descriptor_set_path |-> None, skip_protoc_run |-> FALSE,
     out_dir |-> None,
     lists |-> [k \in ListKinds |-> <<>>], reprs |-> [k \in ReprKinds |-> None],
     server_attributes |-> NoAttributes, client_attributes |-> NoAttributes,
     proto_path |-> <<"super">>, compile_well_known_types |-> FALSE,
     emit_package |-> TRUE, include_file |-> None,
     emit_rerun_if_changed |-> cargo, disable_comments |-> {},
     use_arc_self |-> FALSE, generate_default_stubs |-> FALSE]

BuilderInit ==
  /\ env \in [cargo : BOOLEAN, out_dir : BOOLEAN]
  /\ b = Configure(env.cargo)
  /\ inner = Configure(env.cargo)
  /\ calls = 0

\* Every setter takes self by value and returns it: one call is one step.
Call == calls < MaxCalls /\ calls' = calls + 1 /\ UNCHANGED env

\* Setters that record the setting only on the madsim Builder.
Own(field, v)       == b' = [b EXCEPT ![field] = v] /\ UNCHANGED inner
\* Setters that also forward it to the wrapped tonic builder.
Forwarded(field, v) == /\ b' = [b EXCEPT ![field] = v]
                       /\ inner' = [inner EXCEPT ![field] = v]

\* build_client, build_server, build_transport
SetBuildFlag ==
  \E field \in {"build_client", "build_server", "build_transport"}, enable \in BOOLEAN :
    Call /\ Forwarded(field, enable)

file_descriptor_set_path ==
  \E p \in FilePaths : Call /\ Own("file_descriptor_set_path", p)

skip_protoc_run == Call /\ Own("skip_protoc_run", TRUE)

\* Mutant: out_dir() not forwarded to the wrapped builder.
out_dir_own == \E d \in OutDirs : Call /\ Own("out_dir", d)

out_dir == \E d \in OutDirs : Call /\ Forwarded("out_dir", d)

\* Mutant: the list setters also forward to the wrapped builder.
AppendSetting_forwarded ==
  \E k \in ListKinds \ {"protoc_args"}, x \in Items :
    /\ Call
    /\ b' = [b EXCEPT !.lists[k] = Append(@, x)]
    /\ inner' = [inner EXCEPT !.lists[k] = Append(@, x)]

\* extern_path, field_attribute, type_attribute, message_attribute,
\* enum_attribute, boxed: push onto the Builder's own list.
AppendSetting ==
  \E k \in ListKinds \ {"protoc_args"}, x \in Items :
    Call /\ b' = [b EXCEPT !.lists[k] = Append(@, x)] /\ UNCHANGED inner

\* btree_map, bytes: replace any earlier list with the given paths.
SetRepr ==
  \E k \in ReprKinds, paths \in {<<>>} \cup {<<x>> : x \in Items} :
    Call /\ b' = [b EXCEPT !.reprs[k] = paths] /\ UNCHANGED inner

\* server_mod_attribute, server_attribute, client_mod_attribute,
\* client_attribute: forwarded, and pushed onto Attributes (push_mod or
\* push_struct).
PushAttribute ==
  \E side \in {"server_attributes", "client_attributes"},
    level \in {"module", "struct"}, x \in Items :
    /\ Call
    /\ b' = [b EXCEPT ![side][level] = Append(@, x)]
    /\ inner' = [inner EXCEPT ![side][level] = Append(@, x)]

\* Mutant: proto_path() not forwarded to the wrapped builder.
proto_path_own == \E p \in ProtoPathValues : Call /\ Own("proto_path", p)

proto_path == \E p \in ProtoPathValues : Call /\ Forwarded("proto_path", p)

protoc_arg ==
  \E x \in Items :
    Call /\ b' = [b EXCEPT !.lists["protoc_args"] = Append(@, x)] /\ UNCHANGED inner

disable_comments ==
  \E x \in ServicePaths :
    /\ Call
    /\ b' = [b EXCEPT !.disable_comments = @ \cup {x}]
    /\ inner' = [inner EXCEPT !.disable_comments = @ \cup {x}]

use_arc_self == \E enable \in BOOLEAN : Call /\ Forwarded("use_arc_self", enable)

disable_package_emission == Call /\ Forwarded("emit_package", FALSE)

compile_well_known_types ==
  \E enable \in BOOLEAN : Call /\ Own("compile_well_known_types", enable)

include_file == \E p \in FilePaths : Call /\ Own("include_file", p)

emit_rerun_if_changed ==
  \E enable \in BOOLEAN : Call /\ Own("emit_rerun_if_changed", enable)

generate_default_stubs ==
  \E enable \in BOOLEAN : Call /\ Forwarded("generate_default_stubs", enable)

BuilderNext ==
  \/ SetBuildFlag \/ file_descriptor_set_path \/ skip_protoc_run \/ out_dir
  \/ AppendSetting \/ SetRepr \/ PushAttribute \/ proto_path \/ protoc_arg
  \/ disable_comments \/ use_arc_self \/ disable_package_emission
  \/ compile_well_known_types \/ include_file \/ emit_rerun_if_changed
  \/ generate_default_stubs

=============================================================================
