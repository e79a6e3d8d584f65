------------------------------ MODULE Fixtures ------------------------------
(***************************************************************************)
(* The protobuf input the pass and compile models run on: three files,    *)
(* two of package helloworld with services, between them a file of        *)
(* package routeguide with none.  Greeter's method uses local messages;   *)
(* Health's uses the well-known google.protobuf.Empty, whose Rust type    *)
(* prost-build chooses by compile_well_known_types ("()" from prost-types *)
(* or the locally compiled message).                                       *)
(***************************************************************************)
EXTENDS Sequences

GoogleName(t) == <<".", "google", ".", "protobuf", ".", t>>

\* Rust type of a message by prost Config's compile_well_known_types.
Local(n)  == [w \in BOOLEAN |-> <<n>>]
EmptyType == [w \in BOOLEAN |-> IF w THEN <<"super", "::", "google", "::", "protobuf", "::", "Empty">>
                                     ELSE <<"()">>]

SayHello == [input_proto_type |-> <<".", "helloworld", ".", "HelloRequest">>, input_type |-> Local("HelloRequest"),
             output_proto_type |-> <<".", "helloworld", ".", "HelloReply">>, output_type |-> Local("HelloReply")]
Check    == [input_proto_type |-> GoogleName("Empty"), input_type |-> EmptyType,
             output_proto_type |-> GoogleName("Empty"), output_type |-> EmptyType]

Greeter == [name |-> "Greeter", package |-> "helloworld", methods |-> <<SayHello>>]
Echo    == [name |-> "Echo", package |-> "helloworld", methods |-> <<SayHello, Check>>]
Health  == [name |-> "Health", package |-> "helloworld", methods |-> <<Check>>]

MCFiles ==
  << [package |-> "helloworld", services |-> <<Greeter, Echo>>],
     [package |-> "routeguide", services |-> <<>>],
     [package |-> "helloworld", services |-> <<Health>>] >>

MCPackages == {"helloworld", "routeguide"}

=============================================================================
