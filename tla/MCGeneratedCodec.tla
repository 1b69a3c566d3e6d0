-------------------------- MODULE MCGeneratedCodec --------------------------
(***************************************************************************)
(* Model-checking instances of GeneratedCodec.                             *)
(***************************************************************************)
EXTENDS GeneratedCodec

\* Field constructors for the declared struct.
Codec(n) == [kind |-> "codec", size |-> n, ptr |-> FALSE, isArr |-> FALSE, count |-> 0]
CodecArr(n, c) == [Codec(n) EXCEPT !.isArr = TRUE, !.count = c]
CodecPtr(n) == [Codec(n) EXCEPT !.ptr = TRUE]
Other == [Codec(1) EXCEPT !.kind = "other"]
Struct(n) == [Codec(n) EXCEPT !.kind = "struct"]

(***************************************************************************)
(* struct S { codec_u8 a; codec_u16_be b[2]; codec_u8 *p; uint8_t c; }     *)
(* : a scalar, an array, a pointer field with user hooks, and a type the   *)
(* generator does not know.  Its wire size is 5; buffers of 0..6 bytes     *)
(* cover too short, exact and longer inputs and outputs.                   *)
(***************************************************************************)
FlatDecl == << Codec(1), CodecArr(2, 2), CodecPtr(1), Other >>

(***************************************************************************)
(* struct S { codec_u8 a; struct T t; codec_u16_le b; } with T two bytes   *)
(* on the wire.                                                            *)
(***************************************************************************)
NestedDecl == << Codec(1), Struct(2), Codec(2) >>

MCHookResults == {"OK", "OUT_OF_BOUNDS"}
====
